---------------------------- MODULE ListContents ----------------------------
(***************************************************************************)
(* What the lists of inc/List.h promise, without links: each list is a     *)
(* sequence of elements, and an operation inserts one element, takes one   *)
(* out, moves one, moves the tail of a list to an empty one, or empties a  *)
(* list.  The others keep their list and their order.                      *)
(***************************************************************************)
EXTENDS SequencesExt

CONSTANTS Lists, Elems

VARIABLE contents

Elements(l) == Range(contents[l])

Init ==
  \E l \in Lists, es \in SUBSET Elems : \E order \in SetToSeqs(es) :
    contents = [k \in Lists |-> IF k = l THEN order ELSE <<>>]

Insert(l, e, i) ==
  /\ \A k \in Lists : e \notin Elements(k)
  /\ contents' = [contents EXCEPT ![l] = InsertAt(@, i, e)]

Take(l, i) == contents' = [contents EXCEPT ![l] = RemoveAt(@, i)]

Move(l, k, i, j) ==
  LET rest == [contents EXCEPT ![l] = RemoveAt(@, i)]
  IN /\ j \in 1..Len(rest[k]) + 1
     /\ contents' = [rest EXCEPT ![k] = InsertAt(@, j, contents[l][i])]

SplitAfter(l, k, i) ==
  /\ l # k
  /\ contents[k] = <<>>
  /\ contents' = [contents EXCEPT ![l] = SubSeq(@, 1, i),
                                  ![k] = SubSeq(contents[l], i + 1, Len(contents[l]))]

Clear(l) == contents' = [contents EXCEPT ![l] = <<>>]

Next ==
  \E l \in Lists :
    \/ \E e \in Elems, i \in 1..Len(contents[l]) + 1 : Insert(l, e, i)
    \/ \E i \in DOMAIN contents[l] : Take(l, i)
    \/ \E k \in Lists, i \in DOMAIN contents[l] : \E j \in 1..Len(contents[k]) + 1 : Move(l, k, i, j)
    \/ \E k \in Lists, i \in DOMAIN contents[l] : SplitAfter(l, k, i)
    \/ Clear(l)

Spec == Init /\ [][Next]_contents
=============================================================================
