------------------------------ MODULE History ------------------------------
(***************************************************************************)
(* The clients of the database: interfaces, which keep the last values of  *)
(* their signals in a view of their own (Interface::Commit), the scheduler,*)
(* which commits them, then all tables, then runs the triggers (StepC to   *)
(* StepE of Scheduler::SimulationStart), and what processes do in between: *)
(* views that observe the table of an interface, and views that edit one.  *)
(*                                                                         *)
(* past is no field of the code: the values each interface has committed,  *)
(* the last ones.  read is what GetCommittedValue returned, and asked the  *)
(* value an editor last assigned to each record in this delta cycle, until *)
(* an observer writes over what is not waiting for the commit.             *)
(***************************************************************************)
EXTENDS Store

CONSTANTS
  Interfaces,      \* each is named as its view, the owner of its table
  Observers,       \* views of the tables of interfaces
  Editors,         \* views that own a table of their own
  Depths,          \* mSignalSaveCount, as HistoryDepth sets it before the first commit
  LateDepths,      \* and later
  SelectsMatching, \* do observers of interfaces select by a query?
  Shares,          \* do they ask, without having been enabled, for what is added?
  ObserversWrite,  \* do they assign to the records they have imported?
  MaxCommits, MaxCalls

ASSUME HistoryAssumption ==
  /\ Interfaces \cup Observers \cup Editors = Views
  /\ Depths \cup LateDepths \subseteq Nat \ {0} /\ MaxCommits \in Nat /\ MaxCalls \in Nat
  /\ {SelectsMatching, Shares, ObserversWrite} \subseteq BOOLEAN

VARIABLES
  db,
  depth,   \* mSignalSaveCount
  count,   \* mSignalCommitCount
  at,      \* mpSignalsViewIter: the place of its record in the list of the view
  past, read, asked, calls

vars == <<db, depth, count, at, past, read, asked, calls>>
interfaceVars == <<depth, count, at, past, read>>

-----------------------------------------------------------------------------
(* Interface::Commit, of the store and of the place of the iterator.       *)

Latest(seq, n) == SubSeq(seq, Len(seq) - n + 1, Len(seq))

\* While there are fewer records than are kept, a new one is added.
CommitNew(s, i, x) ==
  LET waiting == TranRecordAdd(RecordNew(s, i, TRUE, x), i, Fresh(s.rec))
  IN CommitView(waiting, i)

\* Later the record after the iterator is written over, and then the first again.
NextSlotLeaving(s, i) == IF count[i] % depth[i] = 0 THEN 1 ELSE at[i]    \* mutant
NextSlot(s, i) ==
  LET next == RecordSearchNext(s, i, at[i], Records)
  IN IF count[i] % depth[i] = 0 \/ next = 0 THEN RecordSearchFirst(s, i, Records) ELSE next

Overwrite(s, i, x) == SetValue(s, s.list[i][NextSlot(s, i)], x)

Filling(i) == count[i] < depth[i]
Commit(s, i, x) == IF Filling(i) THEN CommitNew(s, i, x) ELSE Overwrite(s, i, x)

-----------------------------------------------------------------------------
Running == ~db.stopped
OfInterface(t) == \E i \in Interfaces : Home[i] = t
Call == Running /\ calls < MaxCalls /\ calls' = calls + 1

\* The end of a delta cycle, with the interfaces of the processes that have run
\* and the values of their signals.
EndDelta(order, bit) ==
  LET committed == FoldLeft(LAMBDA s, i : Commit(s, i, bit[i]), db, order)
      ran == Range(order)
  IN /\ Running /\ \A i \in ran : count[i] < MaxCommits
     /\ RoomFor(db, 2 * Cardinality({i \in ran : Filling(i)}))
     /\ db' = ExecuteTriggers(CommitAll(committed))
     /\ at' = [i \in Interfaces |-> IF i \notin ran THEN at[i]
                                    ELSE IF Filling(i) THEN RecordSearchLast(db', i, Records) ELSE NextSlot(db, i)]
     /\ count' = [i \in Interfaces |-> IF i \in ran THEN count[i] + 1 ELSE count[i]]
     /\ past' = [i \in Interfaces |->
                   LET all == IF i \in ran THEN Append(past[i], bit[i]) ELSE past[i]
                   IN IF Len(all) > depth[i] THEN Latest(all, depth[i]) ELSE all]
     /\ read' = [i \in Interfaces |-> None]
     /\ asked' = [r \in Records |-> None]
     /\ UNCHANGED <<depth, calls>>

HistoryDepth(i, n) ==
  /\ Call /\ n # depth[i] /\ n \in (IF count[i] = 0 THEN Depths ELSE LateDepths)
  /\ depth' = [depth EXCEPT ![i] = n]
  /\ UNCHANGED <<db, count, at, past, read, asked>>

\* Interface::GetCommittedValue reads the last record of the view.
ValueAt(i, place) == db.cell[db.rec[db.list[i][place]].cell].value
Committed(i) == ValueAt(i, RecordSearchLast(db, i, Records))
GetCommittedValue(i) ==
  /\ Running /\ db.list[i] # <<>> /\ read[i] = None
  /\ read' = [read EXCEPT ![i] = Committed(i)]
  /\ UNCHANGED <<db, depth, count, at, past, asked, calls>>

ReferringTo(c) == {r \in Records : db.rec[r] # Freed /\ db.rec[r].cell = c}

Calls(s) == Call /\ db' = s /\ UNCHANGED interfaceVars
Does(s) == Calls(s) /\ UNCHANGED asked

Enable(v, wantsOwner) == v \in db.infos[Home[v]] /\ Does(ViewEnable(db, v, wantsOwner))

Observe(o, first, last) ==
  /\ first <= last /\ last <= Len(db.rows[Home[o]]) /\ RoomFor(db, last - first + 1)
  /\ Does(RecordsSelect(db, o, first, last))
ObserveMatching(o, matches) ==
  /\ SelectsMatching \/ ~OfInterface(Home[o])
  /\ RoomFor(db, Len(db.rows[Home[o]]))
  /\ Does(RecordsSelectMatching(db, o, matches))
Join(o) == o \notin db.group[Home[o]] /\ Does(ViewGroupAdd(db, o, db.owner[Home[o]]))
Leave(o) == o \in db.group[Home[o]] /\ Does(ViewDelete(db, o))
Import(o) == SelectionOf(db, o) # 0 /\ Does(RecordsImportSelected(db, o))
Unselect(o, r) == r \in Range(db.list[o]) /\ Does(RecordsUnselect(db, o, r))
ObserveAdded(o) ==
  /\ Shares \/ o \notin db.infos[Home[o]]
  /\ Does(RecordAddDynamic(db, o))
Write(o, r, x) ==
  /\ ObserversWrite \/ ~OfInterface(Home[o])
  /\ r \in Range(db.list[o]) /\ Calls(SetValue(db, r, x))
  /\ LET waiting == {db.pending[k].rec : k \in DOMAIN db.pending}
         over == ReferringTo(db.rec[r].cell) \ waiting
     IN asked' = [q \in Records |-> IF q \in over THEN None ELSE asked[q]]

EditNew(e, auto, x) == RoomFor(db, 2) /\ db.new[e] = {} /\ Does(RecordNew(db, e, auto, x))
EditAdd(e, r) == r \in db.new[e] /\ Does(RecordAdd(db, e, r))
EditAddLater(e, r) == r \in db.new[e] /\ RoomFor(db, 1) /\ Does(TranRecordAdd(db, e, r))
Edit(e, r, x) ==
  /\ r \in Range(db.list[e]) /\ Calls(SetValue(db, r, x))
  /\ asked' = [asked EXCEPT ![r] = x]
EditDelete(e, r) == r \in Range(db.list[e]) /\ Does(TranRecordDelete(db, e, r))

-----------------------------------------------------------------------------
\* The constructor of Interface: its view is enabled as the owner, and asks for
\* the records that are added.  Editors own their tables.
Opened ==
  LET owning == FoldSet(LAMBDA v, s : ViewEnable(s, v, TRUE), NewStore, Interfaces \cup Editors)
  IN FoldSet(LAMBDA i, s : RecordAddDynamic(s, i), owning, Interfaces)

Init ==
  /\ db = Opened
  /\ depth \in [Interfaces -> Depths]
  /\ count = [i \in Interfaces |-> 0] /\ at = [i \in Interfaces |-> 0]
  /\ past = [i \in Interfaces |-> <<>>] /\ read = [i \in Interfaces |-> None]
  /\ asked = [r \in Records |-> None] /\ calls = 0

Orders == {order \in UNION {[1..n -> Interfaces] : n \in 0..Cardinality(Interfaces)} : IsInjective(order)}

Next ==
  \/ \E order \in Orders, bit \in [Interfaces -> Values] : EndDelta(order, bit)
  \/ \E i \in Interfaces, n \in Depths \cup LateDepths : HistoryDepth(i, n)
  \/ \E i \in Interfaces : GetCommittedValue(i)
  \/ \E o \in Observers \ db.dead :
       \/ Enable(o, FALSE) \/ Enable(o, TRUE) \/ Join(o) \/ Leave(o) \/ Import(o) \/ ObserveAdded(o)
       \/ \E a, b \in 1..Cardinality(Cells) : Observe(o, a, b)
       \/ \E x \in Values : ObserveMatching(o, {x})
       \/ \E r \in Records : \/ Unselect(o, r) \/ \E x \in Values : Write(o, r, x)
  \/ \E e \in Editors : \/ \E auto \in BOOLEAN, x \in Values : EditNew(e, auto, x)
                        \/ \E r \in Records : \/ EditAdd(e, r) \/ EditAddLater(e, r) \/ EditDelete(e, r)
                                              \/ \E x \in Values : Edit(e, r, x)

Spec == Init /\ [][Next]_vars

-----------------------------------------------------------------------------
\* A type invariant (Database.h, Record.h).
StoreTypeOK ==
  /\ db.cell \in [Cells -> {Freed} \cup CellStates]
  /\ db.rec \in [Records -> {Freed} \cup RecordStates]
  /\ \A v \in Views : db.list[v] \in Seq(Records) /\ db.new[v] \subseteq Records
  /\ count \in [Interfaces -> 0..MaxCommits] /\ db.stopped \in BOOLEAN

\* "Stores 'current' values": from the place after the iterator on, and around,
\* the view of an interface holds the last values committed, the oldest first.
HistoryKept ==
  Running => \A i \in Interfaces :
    LET n == Len(db.list[i])
    IN [k \in 1..n |-> ValueAt(i, ((at[i] + k - 1) % n) + 1)] = past[i]

InUse == (UNION {Range(db.list[v]) \cup db.new[v] : v \in Views})
         \cup {db.pending[k].rec : k \in DOMAIN db.pending}
         \cup (UNION {UNION {Range(sel.recs) : sel \in Range(db.selected[t])} : t \in Tables})

\* What a view, a selection or a transaction refers to exists, and a row of the
\* table of an interface counts at least as many references as there are Records
\* of it, so that no deletion of one of them frees it for the others.
ReferencesHeld ==
  Running => /\ \A r \in InUse : db.rec[r] # Freed /\ db.cell[db.rec[r].cell] # Freed
             /\ \A i \in Interfaces, c \in Cells :
                  c \in Range(db.rows[Home[i]]) => db.cell[c].count >= Cardinality(ReferringTo(c))

\* No Record is in two views, or in one twice: each view deletes its Records.
OwnedByOneView ==
  \A v, w \in Views : /\ IsInjective(db.list[v])
                      /\ v # w => Range(db.list[v]) \cap Range(db.list[w]) = {}

\* A record that is in a view is in the table of the view, once.
ViewsWithinTable ==
  \A v \in Views :
    /\ IsInjective(db.rows[Home[v]])
    /\ \A r \in Range(db.list[v]) : db.rec[r].cell \in Range(db.rows[Home[v]])

\* The store is well formed: everything has its type, and views agree with tables.
StoreConsistent == StoreTypeOK /\ ViewsWithinTable

\* "Read returns committed values" (Interface.h), as long as no record had to be
\* written over.
ReadsWhileFilling ==
  \A i \in Interfaces : read[i] # None /\ count[i] <= depth[i] => read[i] = Last(past[i])

\* What an interface keeps is what was committed, and while records are left it is read.
HistoryReadable == HistoryKept /\ ReadsWhileFilling

\* Reads return committed values whatever has been committed.
ReadsCommitted == \A i \in Interfaces : read[i] # None => read[i] = Last(past[i])

\* The end of a delta cycle in which no interface adds a record carries out all
\* assignments to records, the last one to each prevailing.
EditsTakeEffect ==
  [][/\ Running' /\ calls' = calls /\ asked' = [r \in Records |-> None]
     /\ \A i \in Interfaces : count'[i] # count[i] => ~Filling(i)
     => \A r \in Records : asked[r] # None => db'.cell[db.rec[r].cell].value = asked[r]]_vars
=============================================================================
