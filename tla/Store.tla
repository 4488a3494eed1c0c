------------------------------- MODULE Store -------------------------------
(***************************************************************************)
(* The database in memory (src/Database.cc, Table.cc, View.cc, Record.cc,  *)
(* TableRecord.cc, Trigger.cc): its operations, each from one state of the *)
(* store to the next.                                                      *)
(*                                                                         *)
(* A Record of a view refers to a TableRecord, a cell here, which counts   *)
(* its Records.  What is asked of a table through a view waits in one list *)
(* of transactions, common to the whole database, for a commit.            *)
(***************************************************************************)
EXTENDS Integers, SequencesExt, FiniteSetsExt

CONSTANTS
  Tables, Views,
  Home,        \* view -> the table it is a view of
  Opens,       \* table -> the operations mTableOpenFlags permits
  Permission,  \* view -> the rights of mRecPermission, pairs <<class, operation>>
  Cells,       \* TableRecords, numbered
  Records,     \* Records, numbered
  Values,      \* of the one attribute that is modelled
  Freed, None

Operations == {"Add", "Delete", "Modify", "Read"}
Rights == {"Owner", "Group", "Other"} \X Operations
OwnerAll == {"Owner"} \X Operations

CellStates == [count : Nat, value : Values]
RecordStates == [cell : Cells, view : Views \cup {None}, auto : BOOLEAN]

ASSUME StoreAssumption ==
  /\ Freed \notin CellStates \cup RecordStates
  /\ Cells \subseteq Nat /\ Records \subseteq Nat /\ None \notin Views /\ Values # {}
  /\ Home \in [Views -> Tables] /\ Opens \in [Tables -> SUBSET Operations]
  /\ Permission \in [Views -> SUBSET Rights]

\* A table before its views are enabled, and each view created.
NewStore ==
  [cell |-> [c \in Cells |-> Freed], rec |-> [r \in Records |-> Freed],
   rows |-> [t \in Tables |-> <<>>],        \* mTableRecordList
   owner |-> [t \in Tables |-> None],       \* mpViewOwner
   granted |-> [t \in Tables |-> {}],       \* mViewOwnerRecPermission
   group |-> [t \in Tables |-> {}],         \* mViewListGroup
   infos |-> [t \in Tables |-> {v \in Views : Home[v] = t}],    \* mViewInfoList
   triggers |-> [t \in Tables |-> <<>>],    \* mTriggerRecordAddList
   list |-> [v \in Views |-> <<>>],         \* mpRecordPtrList
   dead |-> {},                             \* views that were deleted
   new |-> [v \in Views |-> {}],            \* mRecordNewPtrList
   selected |-> [t \in Tables |-> <<>>],    \* mRecordListSelectedByViewList, [view, recs]
   pending |-> <<>>,                        \* mDBTransactionList
   ready |-> <<>>,                          \* Scheduler::mTriggerList, <<table, index>>
   stopped |-> FALSE]                       \* by an assertion or a double delete

Stop(s) == [s EXCEPT !.stopped = TRUE]
Unused(objects) == {i \in DOMAIN objects : objects[i] = Freed}
Fresh(objects) == CHOOSE i \in Unused(objects) : \A j \in Unused(objects) : i <= j
RoomFor(s, n) == Cardinality(Unused(s.cell)) >= n /\ Cardinality(Unused(s.rec)) >= n

-----------------------------------------------------------------------------
(* Records and the TableRecords they refer to.                             *)

CountBy(s, c, n) == [s EXCEPT !.cell[c].count = @ + n]
Allocate(s, record) == [s EXCEPT !.rec[Fresh(s.rec)] = record]

\* Record::Record(total): with a TableRecord of its own.
NewRecord(s, auto, x) ==
  LET c == Fresh(s.cell)
  IN Allocate([s EXCEPT !.cell[c] = [count |-> 1, value |-> x]],
              [cell |-> c, view |-> None, auto |-> auto])

\* Record::Record(TableRecord*): one more reference to it.
RecordOfUncounted(s, c) == Allocate(s, [cell |-> c, view |-> None, auto |-> TRUE])  \* mutant
RecordOf(s, c) == Allocate(CountBy(s, c, 1), [cell |-> c, view |-> None, auto |-> TRUE])

\* Record::~Record.  The TableRecord stays.
Destroy(s, r) ==
  IF s.cell[s.rec[r].cell].count = 0 THEN Stop(s)
  ELSE [CountBy(s, s.rec[r].cell, 0 - 1) EXCEPT !.rec[r] = Freed]

AllowedToOwner(s, t, view, oper) ==   \* mutant: a commit of all views has no view to permit
  \/ s.owner[t] = view /\ <<"Owner", oper>> \in s.granted[t]
  \/ view \in s.group[t] /\ <<"Group", oper>> \in s.granted[t]

Allowed(s, t, view, oper) ==
  \/ s.owner[t] = view /\ <<"Owner", oper>> \in s.granted[t]
  \/ view \in s.group[t] /\ <<"Group", oper>> \in s.granted[t]
  \/ <<"Other", oper>> \in s.granted[t]

TableRecordAdd(s, t, view, r) ==
  IF Allowed(s, t, view, "Add") THEN [s EXCEPT !.rows[t] = Append(@, s.rec[r].cell)] ELSE s

-----------------------------------------------------------------------------
(* Views.                                                                  *)

\* The return value of Table::ViewEnable.  "A & m != B & m" compares first, so
\* that no group view is ever denied, and the others are by any bit they ask.
Enabled(s, v, wantsOwner) ==
  LET t == Home[v]
      perm == Permission[v]
  IN /\ v \in s.infos[t]
     /\ \E right \in perm : right[2] \in Opens[t]
     /\ IF s.owner[t] = None THEN wantsOwner
        ELSE /\ wantsOwner => s.owner[t] = v
             /\ perm \cap OwnerAll = {}
             /\ v \in s.group[t] \/ perm = {}

ViewEnableKeepingInfo(s, v, wantsOwner) ==   \* mutant: mViewInfoList still has the view
  [s EXCEPT !.owner[Home[v]] = IF @ = None /\ wantsOwner THEN v ELSE @,
            !.granted[Home[v]] = IF s.owner[Home[v]] = None /\ wantsOwner THEN Permission[v] ELSE @]

\* The owner is installed even if the view asks for what the table does not permit.
ViewEnable(s, v, wantsOwner) ==
  LET t == Home[v]
      installs == v \in s.infos[t] /\ s.owner[t] = None /\ wantsOwner
  IN [s EXCEPT !.infos[t] = @ \ {v},
               !.owner[t] = IF installs THEN v ELSE @,
               !.granted[t] = IF installs THEN Permission[v] ELSE @]

ViewGroupAdd(s, v, owner) ==
  IF s.owner[Home[owner]] = owner THEN [s EXCEPT !.group[Home[owner]] = @ \cup {v}] ELSE Stop(s)

\* View::~View, for the owner and the views of its group: others are not found.
\* What the view selected, asked for or was created with stays behind.
ViewDelete(s, v) ==
  LET t == Home[v]
      swept == FoldSet(LAMBDA r, acc : IF acc.stopped \/ acc.rec[r] = Freed THEN Stop(acc)
                                       ELSE Destroy(acc, r),
                       s, Range(s.list[v]) \cup s.new[v])
      emptied == [swept EXCEPT !.list[v] = <<>>, !.new[v] = {}, !.dead = @ \cup {v}]
  IN IF s.owner[t] = v THEN [emptied EXCEPT !.owner[t] = None,
                                            !.granted[t] = IF s.group[t] = {} THEN {} ELSE @]
     ELSE IF v \in s.group[t] THEN [emptied EXCEPT !.group[t] = @ \ {v}]
     ELSE s

-----------------------------------------------------------------------------
(* Searching a view for the records that a query matches, all without one:  *)
(* the place of the record, or 0.                                            *)

Matching(s, v, matched) == {k \in DOMAIN s.list[v] : s.list[v][k] \in matched}
RecordSearchFirst(s, v, matched) ==
  IF Matching(s, v, matched) = {} THEN 0 ELSE Min(Matching(s, v, matched))
RecordSearchLast(s, v, matched) == Max(Matching(s, v, matched) \cup {0})
RecordSearchNext(s, v, from, matched) ==
  LET later == {k \in Matching(s, v, matched) : k > from}
  IN IF later = {} THEN 0 ELSE Min(later)

-----------------------------------------------------------------------------
(* Adding, modifying and deleting records.                                 *)

RecordNew(s, v, auto, x) == [NewRecord(s, auto, x) EXCEPT !.new[v] = @ \cup {Fresh(s.rec)}]

\* View::RecordAdd: without a transaction, at once in the table and in the view.
RecordAdd(s, v, r) ==
  IF r \notin s.new[v] \/ ~Allowed(s, Home[v], v, "Add") THEN Stop(s)
  ELSE [TableRecordAdd(s, Home[v], v, r) EXCEPT
          !.new[v] = @ \ {r}, !.rec[r].view = v, !.list[v] = Append(@, r)]

AskFirst(s, transaction) == [s EXCEPT !.pending = <<transaction>> \o @]   \* mutant
Ask(s, transaction) == [s EXCEPT !.pending = Append(@, transaction)]
Transaction(oper, v, r, x) == [oper |-> oper, view |-> v, rec |-> r, value |-> x]

\* View::TranRecordAdd: another Record takes the place of the one that was new.
TranRecordAdd(s, v, r) ==
  IF r \notin s.new[v] THEN Stop(s)
  ELSE LET copied == RecordOf([s EXCEPT !.new[v] = @ \ {r}], s.rec[r].cell)
           destroyed == Destroy(copied, r)
       IN IF Allowed(s, Home[v], v, "Add")
          THEN Ask(destroyed, Transaction("Add", v, Fresh(s.rec), None))
          ELSE destroyed

TranRecordDelete(s, v, r) ==
  IF Allowed(s, Home[v], v, "Delete") THEN Ask(s, Transaction("Delete", v, r, None)) ELSE Stop(s)

TranRecordModify(s, v, r, x) ==
  IF Allowed(s, Home[v], v, "Modify") THEN Ask(s, Transaction("Modify", v, r, x)) ELSE Stop(s)

\* Record::operator=
SetValue(s, r, x) ==
  LET record == s.rec[r]
  IN IF record.auto \/ record.view = None \/ Permission[record.view] \subseteq OwnerAll
     THEN [s EXCEPT !.cell[record.cell].value = x]
     ELSE TranRecordModify(s, record.view, r, x)

-----------------------------------------------------------------------------
(* Commits.                                                                *)

\* A trigger without a query fires once, and then is for that record alone.
Fired(s, t, r) ==
  FoldLeft(LAMBDA acc, i : IF acc.triggers[t][i].rec # None THEN acc
                           ELSE [acc EXCEPT !.triggers[t][i].rec = r, !.ready = Append(@, <<t, i>>)],
           s, [i \in DOMAIN s.triggers[t] |-> i])

CommitAdd(s, tran, view) ==
  LET t == Home[tran.view]
      added == TableRecordAdd(s, t, view, tran.rec)
  IN Fired([added EXCEPT !.rec[tran.rec].view = view, !.list[tran.view] = Append(@, tran.rec)],
           t, tran.rec)

\* The Record is deleted, and once more with its link: no build survives that.
CommitDelete(s, tran) == Stop(s)

CommitModify(s, tran) == [s EXCEPT !.cell[s.rec[tran.rec].cell].value = tran.value]

CommitOne(s, tran, view) ==
  CASE s.stopped \/ (view # None /\ tran.view # view) -> s
    [] OTHER -> CASE tran.oper = "Add" -> CommitAdd(s, tran, view)
                  [] tran.oper = "Delete" -> CommitDelete(s, tran)
                  [] tran.oper = "Modify" -> CommitModify(s, tran)

\* Database::DBTransactionsCommitView.  The loop takes every transaction off the
\* list, those of other views as well, which are not carried out.
CommitView(s, view) ==
  FoldLeft(LAMBDA acc, tran : CommitOne(acc, tran, view), [s EXCEPT !.pending = <<>>], s.pending)
CommitAll(s) == CommitView(s, None)

-----------------------------------------------------------------------------
(* Selecting, importing and triggers.                                      *)

SelectionOf(s, v) == SelectInSeq(s.selected[Home[v]], LAMBDA sel : sel.view = v)

\* Records for those of the rows that match, at the end of what the view has
\* selected already.
Select(s, v, rows, matches) ==
  LET t == Home[v]
      listed == IF SelectionOf(s, v) # 0 THEN s
                ELSE [s EXCEPT !.selected[t] = Append(@, [view |-> v, recs |-> <<>>])]
      i == SelectionOf(listed, v)
  IN FoldLeft(LAMBDA acc, c :
                IF acc.cell[c].value \notin matches THEN acc
                ELSE [RecordOf(acc, c) EXCEPT !.selected[t][i].recs = Append(@, Fresh(acc.rec))],
              listed, rows)

\* The list of a view that has selected before is looked for, and lost again as
\* the search goes on: a null pointer is followed.
RecordsSelect(s, v, first, last) ==
  IF SelectionOf(s, v) # 0 \/ last > Len(s.rows[Home[v]]) THEN Stop(s)
  ELSE Select(s, v, SubSeq(s.rows[Home[v]], first, last), Values)

\* RecordsSelect(Query*): the temporary Record gives up, as it is destroyed, a
\* reference to the last row, which it has not taken.
RecordsSelectMatching(s, v, matches) ==
  LET rows == s.rows[Home[v]]
      picked == Select(s, v, rows, matches)
  IN IF rows = <<>> THEN picked
     ELSE IF picked.cell[Last(rows)].count = 0 THEN Stop(picked)
          ELSE CountBy(picked, Last(rows), 0 - 1)

Importable(v) == \E right \in Permission[v] : right[2] \in {"Delete", "Modify", "Read"}

\* Record::ViewSet
ViewSet(record, v) == IF record.view = None THEN [record EXCEPT !.view = v] ELSE record

\* It is the last list of the table that is imported, whichever view has made it,
\* and the reference that the constructor counted is counted again.
RecordsImportSelected(s, v) ==
  LET t == Home[v]
      recs == Last(s.selected[t]).recs
  IN IF v \notin s.infos[t] \/ SelectionOf(s, v) = 0 \/ recs = <<>> \/ ~Importable(v) THEN s
     ELSE [FoldLeft(LAMBDA acc, r : [CountBy(acc, acc.rec[r].cell, 1) EXCEPT
                                       !.rec[r] = ViewSet(@, v), !.list[v] = Append(@, r)],
                    s, recs) EXCEPT !.selected[t] = Front(@)]

\* The Record is unlinked and stays allocated.
RecordsUnselect(s, v, r) ==
  LET unlinked == [s EXCEPT !.list[v] = RemoveFirst(@, r)]
  IN IF s.cell[s.rec[r].cell].count = 0 THEN Stop(unlinked)
     ELSE CountBy(unlinked, s.rec[r].cell, 0 - 1)

RecordAddDynamic(s, v) ==
  [s EXCEPT !.triggers[Home[v]] = Append(@, [view |-> v, rec |-> None])]

\* TriggerActionFN_ForRecAdd.  A view that was enabled is not found any more.
RecordImportFromTrigger(s, t, i) ==
  LET trigger == s.triggers[t][i]
      r == trigger.rec
  IN IF trigger.view \notin s.infos[t] \/ ~Importable(trigger.view) THEN s
     ELSE [CountBy(s, s.rec[r].cell, 1) EXCEPT
             !.rec[r] = ViewSet(@, s.owner[t]), !.list[trigger.view] = Append(@, r)]

\* StepE of Scheduler::SimulationStart.
ExecuteTriggers(s) ==
  [FoldLeft(LAMBDA acc, ready : RecordImportFromTrigger(acc, ready[1], ready[2]), s, s.ready)
     EXCEPT !.ready = <<>>]
=============================================================================
