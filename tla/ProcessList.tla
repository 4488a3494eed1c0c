----------------------------- MODULE ProcessList -----------------------------
(***************************************************************************)
(* The operations of List and View (inc/List.h, src/View.cc) that the      *)
(* scheduler uses on its list of records: the cursor, and taking a record  *)
(* out and putting it back elsewhere, by an iterator or at the cursor.     *)
(*                                                                         *)
(* A list is [order, cursor, past]: its elements in order, the element of  *)
(* the current link, and which attempt to leave the list is flagged.       *)
(***************************************************************************)
EXTENDS Integers, SequencesExt

ListOf(order) == [order |-> order, cursor |-> Head(order), past |-> "none"]

Position(l, r) == CHOOSE i \in DOMAIN l.order : l.order[i] = r

\* What an iterator visits that starts after the cursor.
Ahead(l) == IF l.past = "none" THEN Position(l, l.cursor) + 1 .. Len(l.order) ELSE {}

-----------------------------------------------------------------------------
(* The cursor.                                                             *)

RecordSearchNextStuck(l) ==  \* mutant: the end of the list is not noticed
  IF l.past # "none" \/ l.cursor = Last(l.order) THEN l
  ELSE [l EXCEPT !.cursor = l.order[Position(l, @) + 1]]

\* An attempt to leave the list sets a flag that makes later searches fail.
RecordSearchNext(l) ==
  IF l.past # "none" THEN l
  ELSE IF l.cursor = Last(l.order) THEN [l EXCEPT !.past = "next"]
  ELSE [l EXCEPT !.cursor = l.order[Position(l, @) + 1]]

RecordSearchPrev(l) ==
  IF l.past # "none" THEN l
  ELSE IF l.cursor = Head(l.order) THEN [l EXCEPT !.past = "prev"]
  ELSE [l EXCEPT !.cursor = l.order[Position(l, @) - 1]]

-----------------------------------------------------------------------------
(* Relinking r before the first of the positions in later, or at the end if *)
(* there is none.                                                          *)

\* With the very next element later, r is taken to be in position already.
InPosition(l, later, r) ==
  IF later = {} THEN Last(l.order) = r
                ELSE Min(later) = Position(l, l.cursor) + 1

Inserted(l, later, r) ==
  LET rest == RemoveAt(l.order, Position(l, r))
      at   == CHOOSE i \in DOMAIN rest : rest[i] = l.order[Min(later)]
  IN IF later = {} THEN Append(rest, r) ELSE InsertAt(rest, at, r)

RelinkTwice(l, later, r) ==  \* mutant: r is not taken out
  [l EXCEPT !.order = IF later = {} THEN Append(@, r) ELSE InsertAt(@, Min(later), r)]

RelinkNext(l, later, r) ==  \* mutant: always right after the cursor
  LET rest == Remove(l.order, r)
  IN [l EXCEPT !.order = InsertAt(rest, 1 + CHOOSE i \in DOMAIN rest : rest[i] = l.cursor, r)]

RelinkAsCursor(l, later, r) ==  \* mutant: the cursor goes with r
  [l EXCEPT !.order = Inserted(l, later, r), !.cursor = r]

\* RelinkFromTo with iterators: the cursor stays; an element added at the end
\* clears the flag of an attempt to go past the end.
Relink(l, later, r) ==
  [l EXCEPT !.order = Inserted(l, later, r),
            !.past = IF @ = "next" /\ later = {} THEN "none" ELSE @]

\* RelinkTo of the element at the cursor: the cursor goes to the next one.
RelinkCurrent(l, later) ==
  [l EXCEPT !.order  = Inserted(l, later, l.cursor),
            !.cursor = l.order[Position(l, @) + 1]]
=============================================================================
