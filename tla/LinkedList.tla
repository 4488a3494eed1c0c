----------------------------- MODULE LinkedList -----------------------------
(***************************************************************************)
(* The doubly linked list of inc/List.h with its cursor, and its iterators.*)
(*                                                                         *)
(* A link is named by its element: next and prev are the pointers of every *)
(* link, list holds the fields of each List and iter those of each         *)
(* ListIterator.  An operation computes the state [next, prev, list, iter] *)
(* it leaves, as several of them are made of others (a relink is an unlink *)
(* and an add).                                                            *)
(*                                                                         *)
(* unseen is no field of the code: the elements that have been in a list   *)
(* since First and that the cursor has not reached since.                  *)
(***************************************************************************)
EXTENDS Integers, SequencesExt

CONSTANTS
  Lists, Elems, Iters,
  Spare,             \* lists that only Split fills, and that have no iterators
  Savers,            \* lists and iterators whose client saves positions
  CursorlessAdds,    \* may a client add next to a cursor that is 0?
  UnlinksSaved,      \* may a client unlink a link whose position is saved?
  Filled,            \* elements that may be in a list at the start
  MaxCalls,
  Nil

ASSUME ListAssumption ==
  /\ Spare \subseteq Lists
  /\ Savers \subseteq Lists \cup Iters
  /\ Nil \notin Elems \cup Lists \cup Iters
  /\ CursorlessAdds \in BOOLEAN /\ UnlinksSaved \in BOOLEAN
  /\ IsFiniteSet(Elems) /\ Filled \subseteq Elems /\ MaxCalls \in Nat

VARIABLES next, prev, list, iter, unseen,
  calls              \* made so far, at most MaxCalls

vars == <<next, prev, list, iter, unseen, calls>>
State == [next |-> next, prev |-> prev, list |-> list, iter |-> iter]

Links == Elems \cup {Nil}
AddPositions == {"First", "Last", "BeforeCurrent", "AfterCurrent"}
AfterUnlink == {"Next", "Prev"}

\* What makes Get return 0 and IsDone hold: an attempt to leave the list, or
\* an iteration that was marked as done.
Going == [prev |-> FALSE, next |-> FALSE, done |-> FALSE]
Flagged(flags, flag) == [flags EXCEPT ![flag] = TRUE]
IsDone(flags) == flags.prev \/ flags.next \/ flags.done

NewList == [first |-> Nil, last |-> Nil, cur |-> Nil, size |-> 0, flags |-> Going,
            saved |-> Nil, savedFlags |-> Going]
NoIter == [list |-> Nil, cur |-> Nil, flags |-> Going, valid |-> FALSE,
           saved |-> Nil, savedFlags |-> Going]

\* A list with other ends, size and cursor, with another saved position, and
\* an iterator with another cursor.
Fields(old, first, last, size, cur, flags) ==
  [first |-> first, last |-> last, cur |-> cur, size |-> size, flags |-> flags,
   saved |-> old.saved, savedFlags |-> old.savedFlags]
CursorAt(old, cur, flags) == Fields(old, old.first, old.last, old.size, cur, flags)
SavedAt(old, x, flags) ==
  [first |-> old.first, last |-> old.last, cur |-> old.cur, size |-> old.size,
   flags |-> old.flags, saved |-> x, savedFlags |-> flags]
IterAt(it, cur, flags) ==
  [list |-> it.list, cur |-> cur, flags |-> flags, valid |-> it.valid,
   saved |-> it.saved, savedFlags |-> it.savedFlags]

IterSavedAt(it, x, flags) ==
  [list |-> it.list, cur |-> it.cur, flags |-> it.flags, valid |-> it.valid,
   saved |-> x, savedFlags |-> flags]

WithList(s, l, fields) == [s EXCEPT !.list[l] = fields]
WithIter(s, i, fields) == [s EXCEPT !.iter[i] = fields]

\* The links from x on, as a walk over next finds them.
Walk(nxt, x) ==
  LET link[k \in 1..Cardinality(Elems)] ==
        IF k = 1 THEN x ELSE LET e == link[k - 1] IN IF e = Nil THEN Nil ELSE nxt[e]
  IN [k \in {n \in 1..Cardinality(Elems) : link[n] # Nil} |-> link[k]]
Order(s, l) == Walk(s.next, s.list[l].first)
Linked(s, l) == Range(Order(s, l))
Exists(i) == iter[i].list # Nil

-----------------------------------------------------------------------------
(* Links.                                                                  *)

SetLink(f, e, x) == IF e = Nil THEN f ELSE [f EXCEPT ![e] = x]

\* A list knows its ends by mpFirst and mpLast, an iterator by pointers of 0.
Before(s, l, x) == IF x = s.list[l].first THEN Nil ELSE s.prev[x]
After(s, l, x) == IF x = s.list[l].last THEN Nil ELSE s.next[x]

GapDroppingTail(s, l, pos, cur) ==  \* mutant: what followed the current link is lost
  CASE pos = "First" -> [p |-> Nil, n |-> s.list[l].first]
    [] pos = "Last"  -> [p |-> s.list[l].last, n |-> Nil]
    [] OTHER -> [p |-> cur, n |-> Nil]

\* The links between which AddCommon puts a new one, with cur as the current.
Gap(s, l, pos, cur) ==
  IF pos = "First" THEN [p |-> Nil, n |-> s.list[l].first]
  ELSE IF pos = "Last" THEN [p |-> s.list[l].last, n |-> Nil]
  ELSE IF cur = Nil THEN [p |-> Nil, n |-> Nil]
  ELSE IF pos = "BeforeCurrent" THEN [p |-> Before(s, l, cur), n |-> cur]
  ELSE [p |-> cur, n |-> After(s, l, cur)]

\* To be last or first is to end an attempt to leave the list at that end.
AddBetween(s, l, x, g, cur) ==
  LET old == s.list[l]
  IN [next |-> [SetLink(s.next, g.p, x) EXCEPT ![x] = g.n],
      prev |-> [SetLink(s.prev, g.n, x) EXCEPT ![x] = g.p],
      list |-> [s.list EXCEPT ![l] =
        Fields(old, IF g.p = Nil THEN x ELSE old.first, IF g.n = Nil THEN x ELSE old.last,
               old.size + 1, cur,
               [prev |-> old.flags.prev /\ g.p # Nil, next |-> old.flags.next /\ g.n # Nil,
                done |-> old.flags.done])],
      iter |-> s.iter]

AddCommon(s, l, x, pos) ==
  LET cur == s.list[l].cur
  IN AddBetween(s, l, x, Gap(s, l, pos, cur),
                IF cur = Nil /\ pos \in {"BeforeCurrent", "AfterCurrent"} THEN x ELSE cur)

AddMovingCursor(s, l, x, pos, i) ==  \* mutant: the current link is not restored
  AddBetween(s, l, x, Gap(s, l, pos, s.iter[i].cur), s.iter[i].cur)

\* AddCommon for an iterator borrows the list's cursor and gives it back.
AddForIterator(s, l, x, pos, i) ==
  AddBetween(s, l, x, Gap(s, l, pos, s.iter[i].cur),
             IF s.list[l].cur = Nil THEN x ELSE s.list[l].cur)

-----------------------------------------------------------------------------
(* Unlinking.                                                              *)

InformOnlyTheFirst(s, l, x, by, after) ==  \* mutant: one iterator is informed
  LET at == {j \in Iters : s.iter[j].list = l /\ s.iter[j].cur = x}
      j  == CHOOSE k \in at : TRUE
  IN IF at = {} THEN s.iter ELSE [s.iter EXCEPT ![j].valid = FALSE]

\* Where an iterator goes that unlinks its own link.
Moved(s, it, after) ==
  LET n == s.next[it.cur]
      p == s.prev[it.cur]
      other == IF after = "Next" THEN p ELSE n
      flags == [prev |-> it.flags.prev \/ (p = Nil /\ (after = "Prev" \/ n = Nil)),
                next |-> it.flags.next \/ (n = Nil /\ (after = "Next" \/ p = Nil)),
                done |-> it.flags.done]
  IN IterAt(it, IF after = "Next" /\ n # Nil THEN n
                ELSE IF after = "Prev" /\ p # Nil THEN p
                ELSE IF other # Nil THEN other ELSE it.cur, flags)

\* The one that unlinks moves on; every other iterator at x becomes invalid.
InformIteratorsOfUnlink(s, l, x, by, after) ==
  [j \in Iters |->
    LET it == s.iter[j]
    IN IF it.list # l \/ it.cur # x THEN it
       ELSE IF j = by THEN Moved(s, it, after)
       ELSE [it EXCEPT !.valid = FALSE]]

CursorAfterSkipping(p, n, after) ==  \* mutant: one link too far
  IF n = Nil THEN p ELSE IF next[n] # Nil THEN next[n] ELSE n

\* The new current link if it is unlinked; at either end it stays inside.
CursorAfter(p, n, after) ==
  IF (after = "Next" /\ n # Nil) \/ p = Nil THEN n ELSE p

Unlink(s, l, x, by, after) ==
  LET old == s.list[l]
      n == After(s, l, x)
      p == Before(s, l, x)
      current == old.cur = x
      only == p = Nil /\ n = Nil
  IN [next |-> SetLink(s.next, p, n),
      prev |-> SetLink(s.prev, n, p),
      list |-> [s.list EXCEPT ![l] =
        Fields(old, IF p = Nil THEN n ELSE old.first, IF n = Nil THEN p ELSE old.last,
               old.size - 1, IF current THEN CursorAfter(p, n, after) ELSE old.cur,
               [prev |-> old.flags.prev \/ (current /\ ~only /\ p = Nil /\ after = "Prev"),
                next |-> old.flags.next \/ (current /\ ~only /\ n = Nil /\ after = "Next"),
                done |-> old.flags.done])],
      iter |-> InformIteratorsOfUnlink(s, l, x, by, after)]

\* A link that no list holds has no pointers worth telling apart.
Forget(s, x) ==
  [next |-> [s.next EXCEPT ![x] = Nil], prev |-> [s.prev EXCEPT ![x] = Nil],
   list |-> s.list, iter |-> s.iter]

-----------------------------------------------------------------------------
(* The client.                                                             *)

Become(s) ==
  /\ calls < MaxCalls /\ calls' = calls + 1
  /\ next' = s.next /\ prev' = s.prev /\ list' = s.list /\ iter' = s.iter

\* A step that takes the cursors only where an iteration takes them; an element
\* that leaves its place is not followed any further.
Step(s, gone) ==
  /\ Become(s)
  /\ unseen' = [l \in Lists |-> (unseen[l] \cap Linked(s, l)) \ (gone \cup {s.list[l].cur})]

\* A step that takes the cursor of l elsewhere: its iteration is given up.
Jump(s, l) ==
  /\ Become(s)
  /\ unseen' = [unseen EXCEPT ![l] = {}]

Fresh(e) ==
  /\ \A l \in Lists : e \notin Linked(State, l) /\ list[l].saved # e
  /\ \A i \in Iters : e \notin {iter[i].cur, iter[i].saved}

Placed(i) == iter[i].cur \in Linked(State, iter[i].list)

MayAdd(l, pos, cur) ==
  \/ pos \in {"First", "Last"} \/ cur # Nil \/ list[l].size = 0 \/ CursorlessAdds

MayUnlink(l, x) ==
  \/ UnlinksSaved
  \/ list[l].saved # x /\ \A i \in Iters : iter[i].list = l => iter[i].saved # x

-----------------------------------------------------------------------------
(* Adding and deleting.                                                    *)

Add(l, e, pos) ==
  /\ l \notin Spare
  /\ Fresh(e)
  /\ MayAdd(l, pos, list[l].cur)
  /\ Step(AddCommon(State, l, e, pos), {})

AddFor(i, e, pos) ==
  /\ Exists(i) /\ (Placed(i) \/ iter[i].cur = Nil)
  /\ Fresh(e)
  /\ MayAdd(iter[i].list, pos, iter[i].cur)
  /\ Step(AddForIterator(State, iter[i].list, e, pos, i), {})

\* Unlink, and DeleteLinkThenNext and DeleteLinkThenPrev, which delete the link.
DeleteLinkCurrent(l, after) ==
  LET x == list[l].cur
  IN /\ x # Nil
     /\ MayUnlink(l, x)
     /\ Step(Forget(Unlink(State, l, x, Nil, after), x), {x})

IterationDone(s, l) ==
  WithList(s, l, CursorAt(s.list[l], s.list[l].cur, Flagged(s.list[l].flags, "done")))

DeleteLinkThenIterationDone(l) ==
  LET x == list[l].cur
  IN IF x = Nil THEN Step(IterationDone(State, l), {})
     ELSE /\ MayUnlink(l, x)
          /\ Step(IterationDone(Forget(Unlink(State, l, x, Nil, "Next"), x), l), {x})

UnlinkFor(i, after) ==
  LET l == iter[i].list
      x == iter[i].cur
  IN /\ Exists(i) /\ Placed(i)
     /\ list[l].cur \notin {Nil, x}
     /\ MayUnlink(l, x)
     /\ Step(Forget(Unlink(State, l, x, i, after), x), {x})

\* From the first link on, so that at no time an end is run past.
DeleteLinkAll(l) ==
  LET old == Linked(State, l)
      inform(it) == IF it.list = l /\ it.cur \in old THEN [it EXCEPT !.valid = FALSE] ELSE it
  IN /\ \A x \in old : MayUnlink(l, x)
     /\ Jump([next |-> [e \in Elems |-> IF e \in old THEN Nil ELSE next[e]],
              prev |-> [e \in Elems |-> IF e \in old THEN Nil ELSE prev[e]],
              list |-> [list EXCEPT ![l] = Fields(@, Nil, Nil, 0, Nil, @.flags)],
              iter |-> [i \in Iters |-> inform(iter[i])]], l)

-----------------------------------------------------------------------------
(* Relinking: taking a link out of one place and adding it at another.     *)

RelinkTo(l, k, pos, after) ==
  LET x == list[l].cur
  IN /\ x \notin {Nil, list[k].cur}
     /\ MayAdd(k, pos, list[k].cur) /\ MayUnlink(l, x)
     /\ Step(AddCommon(Unlink(State, l, x, Nil, after), k, x, pos), {x})

RelinkToIterator(l, i, pos, after) ==
  LET x == list[l].cur
  IN /\ Exists(i) /\ (Placed(i) \/ iter[i].cur = Nil)
     /\ x \notin {Nil, iter[i].cur}
     /\ MayAdd(iter[i].list, pos, iter[i].cur) /\ MayUnlink(l, x)
     /\ Step(AddForIterator(Unlink(State, l, x, Nil, after), iter[i].list, x, pos, i), {x})

RelinkFromIterator(k, i, pos, after) ==
  LET l == iter[i].list
      x == iter[i].cur
  IN /\ Exists(i) /\ Placed(i) /\ k \notin Spare
     /\ x # list[k].cur /\ list[l].cur \notin {Nil, x}
     /\ MayAdd(k, pos, list[k].cur) /\ MayUnlink(l, x)
     /\ Step(AddCommon(Unlink(State, l, x, i, after), k, x, pos), {x})

RelinkFromTo(i, j, pos, after) ==
  LET l == iter[i].list
      x == iter[i].cur
  IN /\ Exists(i) /\ Placed(i) /\ i # j
     /\ iter[j].list = l /\ Placed(j)
     /\ iter[j].cur # x /\ list[l].cur \notin {Nil, x}
     /\ MayUnlink(l, x)
     /\ Step(AddForIterator(Unlink(State, l, x, i, after), l, x, pos, j), {x})

\* With the cursor first and the other list empty, as View::Sort calls it; the
\* link back from the second list into the first one is left as it is.
Split(l, k) ==
  LET x == list[l].cur
  IN /\ l \notin Spare /\ k \in Spare
     /\ x # Nil /\ x = list[l].first /\ x # list[l].last
     /\ list[k].size = 0
     /\ \A i \in Iters : iter[i].list # l
     /\ Jump([next |-> [next EXCEPT ![x] = Nil], prev |-> prev,
              list |-> [list EXCEPT
                ![k] = Fields(@, next[x], list[l].last, list[l].size - 1, @.cur, @.flags),
                ![l] = SavedAt(Fields(@, x, x, 1, x, @.flags), Nil, Going)],
              iter |-> iter], l)

-----------------------------------------------------------------------------
(* The cursor.                                                             *)

SetCursor(l, x, flags) == WithList(State, l, CursorAt(list[l], x, flags))
SetCursorNotSaved(l, x, flags) ==
  WithList(State, l, SavedAt(CursorAt(list[l], x, flags), Nil, Going))

\* A new iteration: all but the first element are still to be seen.
First(l) ==
  LET x == IF list[l].size = 0 THEN list[l].cur ELSE list[l].first
  IN /\ Become(SetCursor(l, x, Going))
     /\ unseen' = [unseen EXCEPT ![l] = Linked(State, l) \ {x}]

Last_(l) ==
  Jump(SetCursor(l, list[l].last, [Going EXCEPT !.done = list[l].flags.done]), l)

\* Next and Prev are called by the loops, which end when IsDone.
Next_(l) ==
  LET x == list[l].cur
  IN /\ ~IsDone(list[l].flags)
     /\ IF x \in {Nil, list[l].last}
        THEN Step(SetCursor(l, x, Flagged(list[l].flags, "next")), {})
        ELSE Step(SetCursor(l, next[x], list[l].flags), {})

Prev_(l) ==
  LET x == list[l].cur
  IN /\ ~IsDone(list[l].flags)
     /\ IF x \in {Nil, list[l].first}
        THEN Step(SetCursor(l, x, Flagged(list[l].flags, "prev")), {})
        ELSE Step(SetCursor(l, prev[x], list[l].flags), {})

\* PositionFind, and PositionSet to the place of an element.
PositionFind(l, e) == e \in Linked(State, l) /\ Jump(SetCursor(l, e, Going), l)

PositionSetFrom(l, i) ==
  /\ iter[i].list = l
  /\ Placed(i) \/ (iter[i].cur = Nil /\ list[l].size = 0)
  /\ Jump(SetCursorNotSaved(l, iter[i].cur, iter[i].flags), l)

PositionSave(l) ==
  /\ l \in Savers
  /\ list[l].cur # Nil
  /\ Step(WithList(State, l, SavedAt(list[l], list[l].cur, list[l].flags)), {})

PositionRestore(l) ==
  /\ list[l].saved # Nil
  /\ Jump(SetCursorNotSaved(l, list[l].saved, list[l].savedFlags), l)

-----------------------------------------------------------------------------
(* Iterators.                                                              *)

ListIteratorNew(l, i) ==
  /\ ~Exists(i) /\ l \notin Spare
  /\ Step(WithIter(State, i, [list |-> l, cur |-> list[l].cur, flags |-> Going,
                              valid |-> TRUE, saved |-> Nil, savedFlags |-> Going]), {})

ListIteratorDelete(i) ==
  Exists(i) /\ Step(WithIter(State, i, NoIter), {})

SetIterator(i, x, flags) ==
  Step(WithIter(State, i, IterAt(iter[i], x, flags)), {})

AtEnd(i) == [Going EXCEPT !.done = iter[i].flags.done]

IteratorFirst(i) == Exists(i) /\ SetIterator(i, list[iter[i].list].first, AtEnd(i))
IteratorLast(i)  == Exists(i) /\ SetIterator(i, list[iter[i].list].last, AtEnd(i))

IteratorNext(i) ==
  LET it == iter[i]
  IN /\ Exists(i) /\ (Placed(i) \/ it.cur = Nil) /\ ~IsDone(it.flags)
     /\ IF it.cur = Nil \/ next[it.cur] = Nil
        THEN SetIterator(i, it.cur, Flagged(it.flags, "next"))
        ELSE SetIterator(i, next[it.cur], it.flags)

IteratorPrev(i) ==
  LET it == iter[i]
  IN /\ Exists(i) /\ (Placed(i) \/ it.cur = Nil) /\ ~IsDone(it.flags)
     /\ IF it.cur = Nil \/ prev[it.cur] = Nil
        THEN SetIterator(i, it.cur, Flagged(it.flags, "prev"))
        ELSE SetIterator(i, prev[it.cur], it.flags)

PositionSetForIterator(i) ==
  Exists(i) /\ SetIterator(i, list[iter[i].list].cur, list[iter[i].list].flags)

\* From another iterator the saved flags are taken, not the current ones.
IteratorPositionSet(i, j) ==
  /\ i # j /\ iter[j].valid /\ iter[i].list = iter[j].list
  /\ SetIterator(i, iter[j].cur, iter[j].savedFlags)

IteratorSave(i) ==
  /\ i \in Savers /\ Exists(i)
  /\ iter[i].cur # Nil /\ iter[i].valid
  /\ Step(WithIter(State, i, IterSavedAt(iter[i], iter[i].cur, iter[i].flags)), {})

IteratorRestore(i) ==
  /\ Exists(i) /\ iter[i].saved # Nil
  /\ Step(WithIter(State, i,
            IterSavedAt(IterAt(iter[i], iter[i].saved, iter[i].savedFlags),
                        Nil, [Going EXCEPT !.done = iter[i].savedFlags.done])), {})

-----------------------------------------------------------------------------
ListStep(l) ==
  \/ \E e \in Elems, pos \in AddPositions : Add(l, e, pos)
  \/ \E after \in AfterUnlink : DeleteLinkCurrent(l, after)
  \/ DeleteLinkThenIterationDone(l)
  \/ DeleteLinkAll(l)
  \/ \E k \in Lists \ {l}, pos \in AddPositions, after \in AfterUnlink : RelinkTo(l, k, pos, after)
  \/ \E k \in Lists : Split(l, k)
  \/ First(l) \/ Last_(l) \/ Next_(l) \/ Prev_(l)
  \/ \E e \in Elems : PositionFind(l, e)
  \/ PositionSave(l) \/ PositionRestore(l)

IteratorStep(i) ==
  \/ \E e \in Elems, pos \in AddPositions : AddFor(i, e, pos)
  \/ \E after \in AfterUnlink : UnlinkFor(i, after)
  \/ \E l \in Lists, pos \in AddPositions, after \in AfterUnlink :
       RelinkToIterator(l, i, pos, after) \/ RelinkFromIterator(l, i, pos, after)
  \/ \E j \in Iters, pos \in AddPositions, after \in AfterUnlink : RelinkFromTo(i, j, pos, after)
  \/ \E l \in Lists : ListIteratorNew(l, i) \/ PositionSetFrom(l, i)
  \/ ListIteratorDelete(i)
  \/ IteratorFirst(i) \/ IteratorLast(i) \/ IteratorNext(i) \/ IteratorPrev(i)
  \/ PositionSetForIterator(i) \/ \E j \in Iters : IteratorPositionSet(i, j)
  \/ IteratorSave(i) \/ IteratorRestore(i)

Empty == [next |-> [e \in Elems |-> Nil], prev |-> [e \in Elems |-> Nil],
          list |-> [l \in Lists |-> NewList], iter |-> [i \in Iters |-> NoIter]]

\* Lists that clients have filled with Add.
Init ==
  /\ \E l \in Lists \ Spare, es \in SUBSET Filled : \E order \in SetToSeqs(es) :
       LET s == FoldLeft(LAMBDA t, e : AddCommon(t, l, e, "Last"), Empty, order)
       IN next = s.next /\ prev = s.prev /\ list = s.list /\ iter = s.iter
  /\ unseen = [l \in Lists |-> {}]
  /\ calls = 0

Next == \E l \in Lists : ListStep(l) \/ \E i \in Iters : IteratorStep(i)

Spec == Init /\ [][Next]_vars
=============================================================================
