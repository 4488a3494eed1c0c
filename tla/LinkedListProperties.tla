------------------------ MODULE LinkedListProperties ------------------------
(***************************************************************************)
(* What the links of LinkedList.tla keep, whatever its clients call.       *)
(***************************************************************************)
EXTENDS LinkedList

Content(l) == Order(State, l)

\* The links of every list are one chain, the same in both directions, from
\* mpFirst to mpLast, of mSize links that are in no other list; the cursor is
\* one of them or 0 (List::AddCommon and Unlink with their nine special cases).
WellLinked ==
  \A l \in Lists :
    LET o == Content(l)
    IN /\ Len(o) = list[l].size
       /\ IF o = <<>> THEN list[l].last = Nil
                      ELSE list[l].last = Last(o) /\ next[Last(o)] = Nil
       /\ \A i \in 2..Len(o) : prev[o[i]] = o[i - 1]
       /\ o # <<>> /\ l \notin Spare => prev[Head(o)] = Nil
       /\ list[l].cur \in Range(o) \cup {Nil}
       /\ \A k \in Lists \ {l} : Range(o) \cap Linked(State, k) = {}

\* No operation loses, doubles or reorders elements other than the one it is
\* about: the links implement sequences (ListContents.tla).
Abstract == INSTANCE ListContents WITH contents <- [l \in Lists |-> Content(l)]
ContentsSpec == Abstract!Spec

\* An iterator that counts as valid stands on a link of its list, however many
\* elements the list, its cursor and other iterators unlinked or moved
\* (List::InformIteratorsOfUnlink).
IteratorsPlaced ==
  \A i \in Iters :
    iter[i].valid /\ iter[i].cur # Nil => iter[i].cur \in Linked(State, iter[i].list)

\* Lists and their iterators are well formed between calls.
WellFormedLists == WellLinked /\ IteratorsPlaced

\* While a list is walked from First on, elements are deleted at the cursor and
\* linked and unlinked all around it, and none that was in the list from the
\* start is left behind (the loops of M_ListIterateAndDelete rely on it).
NothingSkipped ==
  \A l \in Lists :
    LET o == Content(l)
        ahead == {e \in Range(o) : \E i, j \in DOMAIN o : i < j /\ o[i] = list[l].cur /\ o[j] = e}
    IN unseen[l] \subseteq ahead

\* Adding, unlinking and relinking for an iterator borrow the list's current
\* link; they give it back (the scheduler relinks processes through iterators
\* while it walks the list by its cursor).
OnlyForIterator ==
  \E i \in Iters :
    \/ \E e \in Elems, pos \in AddPositions : AddFor(i, e, pos)
    \/ \E after \in AfterUnlink : UnlinkFor(i, after)
    \/ \E j \in Iters, pos \in AddPositions, after \in AfterUnlink : RelinkFromTo(i, j, pos, after)
CursorGivenBack ==
  [][OnlyForIterator => \A l \in Lists : list[l].cur \in {Nil, list'[l].cur}]_vars
=============================================================================
