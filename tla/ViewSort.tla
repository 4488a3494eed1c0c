------------------------------ MODULE ViewSort ------------------------------
(***************************************************************************)
(* View::Sort (src/View.cc): an insertion sort that splits the list of     *)
(* records after its first one and relinks the others, one by one, from    *)
(* the local list_unsorted back into the list, at the place of each.       *)
(***************************************************************************)
EXTENDS LinkedList

CONSTANT Values      \* of the attribute that is sorted by

ASSUME SortAssumption == Values \subseteq Nat

Sorts == {"Ascending", "Descending"}

Precedes(x, y, order) ==
  IF order = "Ascending" THEN x < y ELSE x > y

\* The first record of the sorted list that x precedes becomes the current one,
\* and x is relinked before it; or the walk has ended and x goes after the last.
\* "value" is what the records hold in the attribute at the time.
Insertion(s, l, x, order, value) ==
  LET o == Order(s, l)
      later == {i \in DOMAIN o : Precedes(value[x], value[o[i]], order)}
  IN IF later # {}
     THEN [at |-> o[Min(later)], pos |-> "BeforeCurrent", flags |-> Going]
     ELSE [at |-> Last(o), pos |-> "AfterCurrent", flags |-> [Going EXCEPT !.next = TRUE]]

Advance(s, k) ==
  IF s.list[k].cur \in {Nil, s.list[k].last} THEN [s EXCEPT !.list[k].flags.next = TRUE]
  ELSE [s EXCEPT !.list[k].cur = s.next[@]]

\* One turn of the loop: the relink moves the current link of list_unsorted to
\* the next one, and so does the loop's own Next.
SortTurn(s, l, k, order, value) ==
  LET x   == s.list[k].cur
      ins == Insertion(s, l, x, order, value)
      at  == [s EXCEPT !.list[l].cur = ins.at, !.list[l].flags = ins.flags]
  IN IF s.list[k].size = 0 \/ IsDone(s.list[k].flags) THEN s
     ELSE Advance(AddCommon(Unlink(at, k, x, Nil, "Next"), l, x, ins.pos), k)

SplitFirst(s, l, k) ==
  LET x == s.list[l].first
  IN [s EXCEPT !.next[x] = Nil,
               !.list[k].first = s.next[x], !.list[k].last = s.list[l].last,
               !.list[k].cur = s.next[x], !.list[k].size = s.list[l].size - 1,
               !.list[l].cur = x, !.list[l].flags = Going,
               !.list[l].last = x, !.list[l].size = 1, !.list[l].saved = Nil]

\* list_unsorted, of the same links, goes out of scope at the end.
DropList(s, k) ==
  [s EXCEPT !.list[k] = NewList,
            !.next = [e \in Elems |-> IF e \in Linked(s, k) THEN Nil ELSE @[e]],
            !.prev = [e \in Elems |-> IF e \in Linked(s, k) THEN Nil ELSE @[e]]]

Sort(l, k, order, value) ==
  /\ l \notin Spare /\ k \in Spare
  /\ list[k] = NewList /\ list[l].size > 1
  /\ \A i \in Iters : ~Exists(i)
  /\ LET turns == FoldLeft(LAMBDA s, turn : SortTurn(s, l, k, order, value),
                           SplitFirst(State, l, k), [i \in 1..Cardinality(Elems) |-> i])
     IN Jump(DropList(turns, k), l)

SortStep(l, k) ==
  \E order \in Sorts, value \in [Elems -> Values] : Sort(l, k, order, value)

SortNext == Next \/ \E l, k \in Lists : SortStep(l, k)

SortSpec == Init /\ [][SortNext]_vars

\* "only the link positions are altered, no new links are created or deleted in
\* the process.  The sort order is 'stable'" (the comment in View::Sort): the
\* view has the records it had, no record after one it precedes, and those of
\* equal values as they were.  The code does so for two records only.
SortsRecords ==
  [][\A l, k \in Lists, order \in Sorts, value \in [Elems -> Values] :
       Sort(l, k, order, value) =>
         LET was == Order(State, l)
             now == Order(State', l)
         IN /\ Len(now) = Len(was) /\ Range(now) = Range(was)
            /\ \A i, j \in DOMAIN now : i < j =>
                 /\ ~Precedes(value[now[j]], value[now[i]], order)
                 /\ value[now[i]] = value[now[j]] =>
                      \E m, n \in DOMAIN was : m < n /\ was[m] = now[i] /\ was[n] = now[j]]_vars
=============================================================================
