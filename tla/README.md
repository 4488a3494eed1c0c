# Condor, verified

Condor is an event-driven hardware simulator: C++ processes written by users
call into a kernel that blocks them on semaphores, mailboxes, events and
timers, runs them in delta cycles and advances simulation time along a sorted
list of records. Around the kernel are interfaces whose signals connect
processes, a database in memory that keeps their values, the containers all of
it is made of, and bit vectors. This directory holds TLA+ models of these
parts, the TLC runs that check them and TLAPS proofs about most of them.

## Inventory

The simulator is one thread. Its concurrency is that of coroutines without
stacks: a process is an object whose `ProcessExecute(reason)` is called once
for each reason queued on its record, and a `Wait` in it is only a mark that
takes effect when the delta cycle ends.

| Component | State | Operations | What makes it correct |
|---|---|---|---|
| Process (`src/Process.cc`, `SimulationUtilities.cc`) | what it is blocked on, `mUnblockedInCurrentDeltaCycle`, queue of execute reasons | `Wait`, `ProcessExecute` | only the agent it waits for wakes it; once unblocked it runs |
| Semaphore (`src/Semaphore.cc`) | keys left, pending gets, pending puts, allocated entries | `Get`, `Put`, `FlushGets`, `FlushPuts` | keys neither lost nor lent twice, under three policies |
| Mailbox (`src/Mailbox.cc`, `MailboxBase.cc`) | parallel lists of putters and elements, list of getters | `Put`, `Get`, `FlushPutsAndGets` | every element delivered once, in order, within the limit |
| Event (`src/Event.cc`) | waiting processes | `Get`, `Set`, `Flush` | a set event reaches its listeners |
| Timer (`src/Timer.cc`) | state, scheduled flag, watchers | `Start`, `Stop`, `Restart`, `ProcessAdd`, `Wait`, `FlushTimer` | a started timer fires once, and wakes its watchers |
| Scheduler (`src/Scheduler.cc`) | sorted process list with a cursor, time, lists of agents to flush | Step7 to StepE of `Start`, `ScheduleTheEntry`, the five flush functions | order by time, forward progress, every delta cycle ends, no wake-up lost |
| Clock (`src/Clock.cc`) | phase, edge, bit, suspend flag | `Start`, `ProcessExecute`, `ProcessStateModify` | edges alternate, synchronous processes see each edge once |
| Interface, Signal (`src/Interface.cc`, `Signal.cc`) | signal values, modified flags, connections | `Connect`, `Update`, `PropagateInterfaceSignals`, `Commit` | one driver per input, values visible after the edge only |
| Elaboration (`src/Simulator.cc`, `Module.cc`) | module tree | connect, sanity check | processes scheduled by the edges they are sensitive to; those of every module (not so, below) |
| Database (`src/Database.cc`, `Table.cc`, `View.cc`, `Record.cc`, `Trigger.cc`) | tables, views, references, triggers, pending transactions | add, delete, modify, select, import, commit, sort | a row lives as long as a view refers to it, a record is in one view, edits take effect at the end of the delta cycle |
| Query (`src/Query.cc`, `Condition.cc`, `Attribute.cc`, `Aggregate.cc`) | conditions in sums of products | compare, `&&`, `\|\|`, assign, copy, edit, match | matches what was written, each condition has one owner |
| Containers (`inc/List.h`, `Stack.h`, `BucketList.h`, `src/HashTable.cc`) | links, cursors | link, unlink, relink, push, pop, find | cursors survive removals |
| Data types (`src/Bit.cc`, `Value.cc`, `String.cc`, `SimulatorTime.cc`, `PRNG.cc`) | bits, numbers | arithmetic, conversion | agrees with modular arithmetic |

How they interact: a process calls an agent, which records the request and
puts itself in a list of the scheduler. When no record is left to run at this
time, the scheduler flushes timers, events, semaphore gets, semaphore puts and
mailboxes, in this order. A flush function unblocks a process, queues a reason
on its record and relinks the record at the current time
(`ScheduleProcessImpl`, `ScheduleTheEntry`). Then the processes that called
`Wait` are blocked, and the loop runs again if anything was flushed. Otherwise
time moves to the next record of the list. Clocks are records too, and lie
before the synchronous processes of the same time: a clock that is run changes
its bit, and both it and the processes that run after it are relinked at the
next edge they are sensitive to (Step8).

Processes read and assign the signals of their interfaces while they run. A
clock propagates its signal at once (StepA); the interfaces of the processes
that ran propagate at the end of the delta cycle, in the order of the processes
(StepC), and commit their values to views of their own. Then the database
commits what all views asked for (StepD), and the triggers of tables that got
records start their events (StepE).

The hard parts: requests of several processes are settled in bulk, long after
they were made; an agent may hold a process that is by then blocked on another
one; a `Wait` takes effect late; the list is relinked while it is walked; the
cursor, not the time of a record, decides whether it runs; subscripts of
interfaces and vectors are state that one operation sets and another uses;
conditions and rows of tables are shared by pointers that someone has to delete
once. `PROJECT.json` lists them as hazards, each at its line.

## Modules

| Module | Models |
|---|---|
| `ProcessSync` | blocking, unblocking, reasons, running a process, the end of a delta cycle |
| `Semaphore`, `Mailbox`, `Event`, `Timer` | one agent each, with the scheduler's flush loop for it |
| `SyncKernel` | their composition: the inner loop of Step7, and Step8 |
| `SyncProperties` | what `SyncKernel` guarantees |
| `KeyPool` | the abstract specification of a semaphore |
| `ProcessList` | the cursor and the relinking of `List` and `View`, as the scheduler uses them |
| `Clock` | a clock's bit, edge and suspension, and the time to the next edge |
| `Scheduler` | `SyncKernel` driven by the process list, the cursor, time and clocks |
| `SchedulerProperties` | what the list guarantees, and what it is said to guarantee |
| `LinkedList` | `List` and `ListIterator` link by link: cursors, saved positions, iterators |
| `ListContents` | the abstract specification of lists, as sequences |
| `LinkedListProperties` | what the links keep, and that they implement `ListContents` |
| `ViewSort` | `View::Sort` on those links |
| `Conditions` | comparisons and the bucket lists that hold sums of products of them |
| `Query` | expressions of conditions, queries, and who deletes what |
| `Store` | tables, views, records, references, triggers and transactions: every operation from one state of the store to the next |
| `History` | the clients of `Store`: interfaces that keep their last values, the scheduler that commits, views that observe and views that edit |
| `Signals` | construction, connection, elaboration and propagation of interfaces and their signals |
| `Bits` | bit vectors in words, with their subscripts |
| `MCSyncKernel`, `MCScheduler`, `MCLinkedList`, `MCQuery`, `MCHistory`, `MCSignals`, `MCBits` | small instances for TLC |
| `KernelProofs`, `SchedulerProofs`, `LinkedListProofs`, `BitsProofs`, `SignalsProofs`, `QueryProofs`, `HistoryProofs` | theorems |
| `DataLemmas` | lemmas about sequences, folds and sums that the proofs cite |

`SyncKernel` leaves open which record runs next: `Dispatch` picks any record and
`RunEnds` may leave some behind. What it guarantees holds however the list
behaves, and that matters, because the list does lose wake-ups (below).
`Scheduler` conjoins each action of `SyncKernel` with what it does to the list,
so a behaviour of `SchedSpec` is one of `Spec` (proved) and every theorem about
the kernel holds of it.

`LinkedList`, `Conditions` and `Store` write an operation of the code as an
operator from a state to a state, because the code composes them: a relink is
an unlink and an add, `&&` copies, adds and attaches bucket lists, a commit
makes records, changes views and tells triggers. The actions of
`LinkedList`, `Query` and `History` are the calls clients make.

### State of the kernel

| Variable | Code |
|---|---|
| `sync[r]` | `mpAttrSyncObj`, `mpAttrSyncArg` of the record of r |
| `unblocked[r]` | `mUnblockedInCurrentDeltaCycle` |
| `reasons[r]` | the queue `mpAttrExecReason` (class `Stack`, used first in first out) |
| `toBlock` | `mProcessesToBlockList` and the pending agent of each process |
| `current`, `waited`, `calls` | `mpProcessCurrent`; the process has made its last call; bound |
| `phase`, `flushing`, `deltaEvents` | where the loop of Step7 is, or Step8; what the flush loop has left to visit; `delta_events > 0` |
| `fault` | the assert, null dereference or endless loop that ended the simulation |
| `keysRemaining`, `getPending`, `putPending`, `held` | `mKeysRemaining`, the two pending lists, the allocated entries summed by process |
| `putters`, `elms`, `getters` | the three lists of `MailboxBase` and `Mailbox` |
| `sent`, `delivered` | history variables: what Put accepted, what was handed over |
| `waiting`, `eventSetList` | `mProcessesWaitingForEventList`, `mEventSetList` |
| `timerState`, `timerScheduled`, `watchers`, `timerDoneList` | `mProcessState`, `mTimerScheduled`, `mProcessList`, `mTimerList` |
| `list` | `mpProcessesView`: order, cursor, the attempt flag of the iterator |
| `clock[c]` | `mProcessState`, `mClockScheduleSuspend`, `mClockPhase`, `mClockEdge`, `mBit`, `mTimeHasAdvanced` |
| `simTime`, `now`, `timeout` | `mpAttrSimTime`, `mSimulationTime`, `mTimeout` |
| `advanced`, `abort` | `mIsFirstSyncProcessExecuted`; the assert of the scheduler or of the list that failed |

A step is one API call of the running process or one iteration of a flush
loop. Each assert that a client can reach is a value of `fault` (agents) or `abort`
(scheduler and list), after which nothing happens. Undefined behaviour is a
choice: `MailboxNoPair` may read `found_get` either way when it was never set.

What clients do is in the guards of the calls: `Wait` is the last call of an
execution (the process is a callback, nothing can follow), a semaphore is
given back only keys that are held and by one Put at a time, a timer is
started only when it is not scheduled. The first is how every test under
`tests/` is written; the other two are asserted by the code. A synchronous
process makes the same calls as a software process: `Wait` and the agents do not
ask which kind calls. It is sensitive to one edge or level of one clock: with
two, the code makes two records for a process that can refer to one.

### State of the other models

| Variable | Code |
|---|---|
| `LinkedList`: `next`, `prev` | `mpNext`, `mpPrev` of every link |
| `list[l]`, `iter[i]` | first, last, current link, size, attempt flags and the saved position of a `List`; list, link, flags and validity of a `ListIterator` |
| `unseen` | history: elements in a list since First that its cursor has not reached |
| `Query`: `conds`, `list` | the `Condition`s that are allocated; `mConditionBktList` of every condition and query, as buckets in order, `mpBktLast`, `mBucketTotal` |
| `held`, `live`, `meaning` | conditions that clients refer to; queries that exist; history: the sum of products that was written |
| `History`: `db` | the store: TableRecords with their counts, Records, `mTableRecordList`, owner and permissions, `mViewInfoList`, triggers, `mpRecordPtrList`, `mRecordNewPtrList`, selections, `mDBTransactionList`, `mTriggerList` |
| `depth`, `count`, `at` | `mSignalSaveCount`, `mSignalCommitCount`, `mpSignalsViewIter` of an interface |
| `past`, `read`, `asked` | history: values committed, value read back, value last assigned to a record in this delta cycle |
| `Signals`: `signals` | value, modified flag, type, and what each `Signal` is connected to |
| `access` | `mpSignalAttr`, `mSignalPos`: the subscript of each interface |
| `synchronous`, `sensitive`, `scheduled`, `notified` | `mIsSynchronous`, `mSensitiveInfoList`, the records made by elaboration, `mSensitiveProcessList` |
| `edge`, `running`, `ran`, `assigned` | the clock of this delta cycle, `mpProcessCurrent`, the owners of `intf_to_commit`; history: what was assigned last |
| `Bits`: `bits[v]`, `freed` | `mNumBits`, the places that are 1, `mMsbBit`, `mLsbBit`, `mBitRangeState`; the vectors whose `mpWords` points to deleted words |

In these models an action that would fail an assert is not enabled, except in
`Query` and `History`, which stop. A program statement is one action of `Bits`:
the subscripts it sets and the operation that uses them.

### Uses that are gated

Where the code does something plainly wrong with a call, everything after that
call would only show the same thing again. The call is modelled and put behind a
constant, which the run sets to FALSE or keeps small; given its other value,
TLC shows the property that breaks. "Known disagreements" says what each does.

| Constant | In | Call | Breaks |
|---|---|---|---|
| `CursorlessAdds`, `UnlinksSaved` | `LinkedList` | adding at a cursor that is 0; unlinking a link whose position is saved | `WellFormedLists` |
| `Asserts` | `Query` | `&&`, `\|\|` and copies in a build with assertions | stops the program |
| `ReusesProducts`, `SharesTerms`, `EmptyOperands` | `Query` | going on with a product of sums; copying a list with products that outlives the copy; combining a query without conditions | `MatchMeans`, `OwnedOnce` |
| `LateDepths`, `SelectsMatching`, `Shares`, `ObserversWrite` | `History` | changing the depth after commits; selecting by a query; importing into a view that was never enabled; writing to another's records | `HistoryReadable`, `ReferencesHeld`, `OwnedByOneView`, `HistoryReadable` |
| `ComparedByName`, `ByPosition`, `UnorderedPassThru` | `Signals` | interfaces accessed by position after a comparison by name; interfaces passed through while processes change places | `WellConnected`; `HoldsWhatWasAssigned` |
| `Uses` | `Bits` | the eleven uses named there | `WellFormed`, `AssignsThePart`, `ComparesValues`, `ShiftsAndCombines` |

## Runs

| Run | Shows |
|---|---|
| `KernelAgents` | a one-key and a two-key semaphore and a mailbox at its limit, any order of execution: `BinaryMutex`, `PutsCovered`, `NoStrandedRequest`, refinement of `KeyPool`, `MailboxFIFO`, `UnblockedWillRun` |
| `KernelMixed` | all four kinds of agent, a synchronous process beside a software process: `TypeOK`, `ScheduledTimerFires`, `ExclusiveWait`, `DeltaCycleEnds` |
| `Clocked` | a clock that may be suspended, a process on each of its edges, a software process, a lock and a timer that fires on edges: `AheadInOrder`, `OnItsEdge`, `NoEdgeMissed` |
| `ListMixed` | all agents, a timer that is stopped and restarted: `SchedTypeOK`, `RunsAtCursor`, `OrderAsserted`, `SimulationEnds` |
| `Links` | lists and iterators under every call: `WellFormedLists`, `NothingSkipped`, `CursorGivenBack`, and refinement of `ListContents` |
| `Queries` | expressions of four comparisons, assigned, edited, copied and destroyed: `QueryTypeOK`, `MatchMeans`, `OwnedOnce` |
| `Store` | an interface that keeps its values, an observer, a table that is edited and a view of it: `StoreConsistent`, `HistoryReadable`, `ReferencesHeld`, `OwnedByOneView`, `EditsTakeEffect` |
| `Signals` | a clock, a master, an inverted slave, a module in the slave, a monitor in the top module and a second submodule, in eight designs: `WellConnected`, `HoldsWhatWasAssigned`, `Delivered`, `SeesItsClock`, `ScheduledAsElaborated`, `SensitiveNoticed` |
| `Bits` | every statement on vectors of one and two words, from every value they reach: `WellFormed`, `AssignsThePart`, `ComparesValues`, `ShiftsAndCombines` |
| `SortLoses` | violated: a list of three records has two after `View::Sort` |
| `LostWakeup` | violated: a woken process is left behind while time advances |
| `StaleRead` | violated: `GetCommittedValue` returns a value that is not the one committed last |

Bounds of the kernel. `MaxCalls` (3 to 5) is the number of API calls made by all
processes together: five are enough for one process to hold a key, another one to
ask and wait, and both to give back. Two processes are enough for contention, for a
putter and a getter, and for a process that is busy elsewhere. `MaxReasons` is 3
where the code has 50; with the calls bounded, a longer queue is not reached by a
fault-free client. `TimeMax` is beyond every timeout that can be reached in `ListMixed`, and
four edges in `Clocked`. There the timer lasts one or two half periods, because
one that fires between edges breaks `OnItsEdge`, and the properties of edges are
about clocks that nobody suspends, because a suspended one does not come back
(both below). Timers are stopped and restarted in `ListMixed` and not in
`Clocked`, for its size: with them it has 1.5 million states and the same result.
Processes sensitive to a level are in the model but in no run:
from the first edge on they differ from those sensitive to an edge only in that
they run after them.

Bounds of the others. `Links` starts from every list of up to three elements, so
that a link has two neighbours, and makes five calls: two iterators are placed,
one of them unlinks or moves what the other stands on, and both go on. A second
list is empty until `Split` fills it. Elements are interchangeable there, as are
processes and mailbox entries in `KernelAgents`: these two runs use symmetry.
`Queries` starts with four comparisons and a query made, and makes five calls: two to build a sum and a
product, an assignment, a copy or an edit, and a destruction. `Store` keeps one
or two values, commits four times, so that records are written over from the
start again, and lets the views make four calls between. `Signals` runs without
bound in calls: its designs are finite. The eight designs are the choices of
`Optional`; together they have connections by interface, by group and by signal,
peers and passing through, inverted and monitoring interfaces. `Bits` is
unbounded too: a word has four bits instead of 32, a narrow vector fits in one
word and leaves part of it, a wide one straddles two, a third takes its width
from what it is assigned; a subscript can then begin, end or cross at every
place of a word. The third is empty at first, so it meets the others as an empty
operand too. In `Signals` the walk of elaboration ends in the first of two
submodules, so there are processes that it reaches, one of the top module and one
of the second submodule that it does not (`MCElaborates`).

Deadlock is checked in `Bits`, which never ends. The others may stop: the
simulation is finished or has failed an assert, or the calls are used up.

Fairness. `FairSpec` assumes weak fairness of the flush steps alone: they are
iterations of one loop in one thread. A step that does not return, the retry of
`Event::Flush` (`eventHang`), is no end of a delta cycle for `DeltaCycleEnds`, which
is instead about behaviours in which whoever listens to an event is listed once,
waits for nothing else and is not marked as unblocked (`ListenersWait`): without any
one of these TLC finds a cycle that does not end. `FairSchedSpec` assumes it of the whole
next-state relation, for the same reason; it says nothing of a process that
never returns, as each call is a step and calls are bounded. The other modules
state safety only: their operations are calls that return.

## Proofs

Checked by TLAPS for every set of processes and agents, every list, element and
iterator, every vector, width and word size, every design of interfaces and
modules, every test, record and query, every table, view, permission and depth, every
capacity, policy and bound:

| Theorem | States |
|---|---|
| `KernelProofs!Typing` | `Spec => [](TypeOK /\ PairedLists)` |
| `KernelProofs!MutualExclusion` | `Spec => []BinaryMutex` |
| `KernelProofs!PutsAreCovered` | `Spec => []PutsCovered` |
| `KernelProofs!SemaphoresAreKeyPools` | `Spec => KeyPoolSpec`, a refinement |
| `KernelProofs!NoRequestIsStranded` | `Spec => []NoStrandedRequest`, if no process is synchronous |
| `KernelProofs!MailboxDeliversInOrder` | `Spec => []MailboxFIFO` |
| `KernelProofs!TimersFire` | `Spec => []ScheduledTimerFires` |
| `KernelProofs!WaitIsExclusive` | `Spec => ExclusiveWait`, an action property |
| `KernelProofs!UnblockedHaveReasons` | `Spec => []UnblockedWillRun`, if there are no events |
| `SchedulerProofs!SchedulerImplementsKernel` | `SchedSpec => Spec` |
| `SchedulerProofs!SchedulerTyped`, `ScheduledMutualExclusion`, `ScheduledDelivery`, `ScheduledTimersFire`, `ScheduledRequests` | the above, of `SchedSpec`, under the same hypotheses |
| `SchedulerProofs!ProcessRunsAtCursor` | `SchedSpec => []RunsAtCursor` |
| `SchedulerProofs!SchedulerListTyped` | `SchedSpec => []SchedTypeOK` |
| `SchedulerProofs!OrderIsKept` | `SchedSpec => []OrderAsserted`, if no clock is suspended |
| `SchedulerProofs!AheadIsInOrder` | `SchedSpec => []AheadInOrder`, if no clock is suspended and no timer stopped |
| `SchedulerProofs!ProcessesRunAtTheirEdge` | `SchedSpec => []OnItsEdge`, if no clock is suspended and `OneBeat(h)` |
| `SchedulerProofs!NoEdgeIsMissed` | `SchedSpec => []NoEdgeMissed`, if besides there are software processes and no events |
| `LinkedListProofs!ListsAreWellFormed` | `Spec => []WellFormedLists`, if `CarefulClients` |
| `LinkedListProofs!WalksSkipNothing` | `Spec => []NothingSkipped`, if `CarefulClients` |
| `LinkedListProofs!ListsAreSequences` | `Spec => ContentsSpec`, a refinement, if `CarefulClients` |
| `LinkedListProofs!CursorsAreGivenBack` | `Spec => CursorGivenBack`, an action property, if `CarefulClients` |
| `BitsProofs!VectorsAreInOrder` | `Spec => []WellFormed`, if `Careful` |
| `BitsProofs!AssignmentsAreOfParts` | `Spec => []AssignsThePart`, if `Careful` |
| `BitsProofs!ShiftsAreArithmetic` | `Spec => []ShiftsAndCombines`, if `CarefulWithAll` |
| `BitsProofs!ComparisonsAreOfValues` | `Spec => []ComparesValues`, if `CarefulWithOrder` |
| `SignalsProofs!SignalsStayConnected` | `Spec => []WellConnected`, if `NotToItself`, `OneInput` and `AccessedOneWay` |
| `SignalsProofs!AssignmentsAreHeld` | `Spec => []HoldsWhatWasAssigned`, if besides `Peers` |
| `SignalsProofs!AssignmentsAreDelivered` | `Spec => []Delivered`, under the same hypotheses |
| `SignalsProofs!ClocksAreSeen` | `Spec => []SeesItsClock`, under the same hypotheses |
| `SignalsProofs!ChangesAreNoticed` | `Spec => SensitiveNoticed`, an action property, if `NotToItself` |
| `SignalsProofs!ElaboratedAreScheduled` | `Spec => []ScheduledAsElaborated`, if `NotToItself` |
| `QueryProofs!QueriesMatchWhatIsWritten` | `Spec => []MatchMeans`, if `CarefulQueries` |
| `QueryProofs!QueriesOwnTheirConditions` | `Spec => []OwnedOnce`, if `CarefulQueries` |
| `QueryProofs!QueriesTyped` | `Spec => []QueryTypeOK`, if `CarefulQueries` |
| `HistoryProofs!LastValuesAreKept` | `Spec => []HistoryReadable`, if `CarefulClients` |
| `HistoryProofs!ReferencesStayHeld` | `Spec => []ReferencesHeld`, if `CarefulClients` |
| `HistoryProofs!RecordsHaveOneView` | `Spec => []OwnedByOneView`, if `CarefulClients` |
| `HistoryProofs!TablesAndViewsAgree` | `Spec => []StoreConsistent`, if `CarefulClients` |
| `HistoryProofs!EditsAreCarriedOut` | `Spec => EditsTakeEffect`, an action property of the delta cycles in which no interface adds a record, if `CarefulClients` |

They rest on the named assumptions of the component modules: capacities and key
totals are positive, every mailbox is in the order of construction, there are
finitely many processes, links and cells for conditions, the null values are not agents,
processes, lists or links, the size of a word is a power of two, an interface has
at most ten signals and a clock the one output of `InterfaceDesc_Clock`, and
a process has the name of its interface.

- `TypeOK` is not inductive without `PairedLists`: a transfer takes the head of
  the element list because the list of putters is not empty.
- `PutsCovered` is inductive only with `OnePutEach` (two queued puts of one
  process could each be covered and not both) and `HeldNatural`; the
  conjunction is `KeysInv`.
- `KeyPoolSpec` asks of every step that the keys given out to all processes and
  the keys left are as many as there are. A grant changes one summand, so what
  is needed of the sum is `SumOfChange`: it is proved from the definition of the
  fold by well-founded recursion (`RankedRecursion`), without induction over an
  operator.
- `MailboxFIFO` is inductive given types; its proof is about `Paired`, the
  sequence of putter and element pairs, which is never built in the code.
- `NoStrandedRequest` speaks of states at rest. Its invariant, `QueueInv`, says
  what the flush loop leaves behind it: of the semaphores it has visited in this
  delta cycle, that nothing more could be granted, unless something happened
  that makes the loop run again. That some request is the first that could be
  granted is `LeastNatural`, by well-foundedness of the naturals. It needs software
  processes only, because the mark that a process was unblocked is never
  cleared for a synchronous one, so that its requests are passed over from then
  on; with one, TLC finds a stranded request in six calls.
- `UnblockedWillRun` is inductive with `SoftwareRunsInStep7`: outside the running
  phase no software process is current. It needs `Events = {}` because
  `Event::Flush` unblocks all listeners and gives one a reason (below).
- `RunsAtCursor` is inductive with what the cursor does when the running record
  itself is relinked, and with where the loop is (`CursorInv`).
- The order of the process list. The code never looks for the record that is
  due: it runs the next one, and asserts afterwards that time has moved forward.
  The proof first says of each list operation what becomes of the order of
  positions (`InsertedPlaces`, `RelinkGives`, `RescheduleCurrentGives`: r stays, or
  goes last, or right before the first later record ahead of the cursor, and
  no other two change places). Then each step of `SchedNext` is shown to be one of
  twelve kinds by what it does to list, times and clocks (`StepKinds`), and each
  kind to keep the order (`CalmStays` to `WakesStays`). Sortedness alone is not
  inductive, for six reasons that are the parts of `Orderly`: what is at hand
  when a process runs includes the record at the cursor (`Sorted`, `NotPast`); time
  may only move on when nothing of now is left (`EdgesToCome`); software has times
  that are long past and must still come before the timers (`SoftwareFirst`);
  nothing that could restart an expired timer may run before it is flushed
  (`TimersDone`); the next edge of a clock is ahead, and no edge of its processes
  sooner (`ClocksAhead`); and a cursor beyond the end is at the last record
  (`LastIfPast`). All of it holds until an assert fails, after which the scheduler
  takes no step (`FailedIsOver`). A timer that has been stopped or restarted before
  it ran has two reasons: its record lies at its new time or its old one, and the
  simulation fails when it is run (`Doomed`). `OrderIsKept` allows for such
  timers; for `AheadIsInOrder` there must be none. A clock that is suspended is
  passed by the cursor and stays behind, which no part of `Orderly` allows: with
  it both properties are only model-checked (`Clocked`).
- The edges. A process keeps no link to the edge it waits for: it has a time,
  counted from now when it has run and again when it is woken. The invariant
  (`EdgesKept`) is that its time is that of the next edge of its clock, or half a
  period more if it does not see that one (`EdgeAhead`), but for the processes of
  an edge whose clock has ticked and who have yet to run (`EdgeNow`); the latter
  run before time moves on because what is at hand is in order (`Orderly`).
  `OneBeat(h)`, which `Clocked` has with h = 2, says that all clocks have the half
  period h and timers last multiples of it. It is needed: time then never stands
  between two edges, so the edge that is half a period from now is the next of
  the clock (`ClockIsNext`). With a timer off the beat TLC breaks `OnItsEdge`. That
  none is missed is that no process that waits for nothing is behind the cursor
  (`NoneBehind`). A step that frees a process is one that schedules it
  (`FreedAreScheduled`); with events it is not, since `Event::Flush` frees all
  listeners and one is scheduled. With no software process at all the cursor
  steps off the start of the list, and the simulation ends there (below).
- The lists. The invariant is that there are sequences c, one of each list,
  that the pointers spell (`Good(c)`): every `next` and `prev` in the list is the
  neighbour in c (`Chain`), no element is in two of them, the cursor of each list
  and of each valid iterator is on it, and what a walk has not seen is ahead of
  the cursor (`Unskipped`). Existence is what makes it inductive: an operation
  is shown to take c to a d that is c with an element inserted, taken out, moved, or
  with a tail split off or cleared (`Changes`), and this is the abstract step of
  `ListContents`. So one invariant gives three of the four theorems, and the
  walk over `next`, which the other properties use, has to be computed only once
  (`WalkOfChain`). `CarefulClients` says that a client adds next to no cursor that
  is 0 and unlinks no link whose position is saved: without either TLC breaks
  `WellFormedLists` (see "Uses that are gated"), so the hypothesis cannot be
  dropped. `ViewSort`'s step is not in `Spec` and not proved about.
- The bit vectors. Between statements a vector has no subscripts set and no 1 outside
  its width (`BitsInv`); within one it is a part of such a vector (`PartAt`), and the
  code's words, masks and shifts are described by what becomes of the set of places
  that are 1. `BitsInv` is enough for all four theorems, since what an assignment, a
  shift or a comparison does is decided by the state it starts from. The loops over
  bits (`Combined`) are folds, of which each step is looked at (`CombinedSteps`). That
  these sets are numbers is proved from the sum of their powers of two: it decides
  the set (`BinaryInjective`), the highest place where two sets differ decides the
  order (`BinaryLess`), taking away the low places divides (`BinaryQuotient`), moving
  all up multiplies (`BinaryShift`). An induction over numbers is a least exception.
  A shift is three assignments, as in the code: a part to a copy, the copy back, 0 to
  what is left; the last clears too little of some parts in two words (`Cut`; below).
  `Careful` says that `Uses` has none of `straddling`, `low`, `explicit`, `high`,
  `still`, `kept` and `emptied`; `CarefulWithAll` and `CarefulWithOrder` exclude besides
  `xor` and `filled`, `layouts` and `parts`. The run excludes all eleven. Without
  `kept` or `emptied` in `Careful` the theorem `VectorsAreInOrder` would be false: TLC
  then breaks `WellFormed`.

- The signals. The argument has three parts. What construction has built, and the
  order of its calls, is summed up in `Built`: connections go both ways, an input is
  at one end of each, and among peers an input has one driver and does not
  propagate. What propagation does, and its order, is summed up in `SentBy`: each
  signal that is reached has the value of one that reaches it, no other changes,
  and asynchronous processes are told. From the two follows the invariant, that
  the only inputs that differ from their driver are those of the processes that
  have run and have yet to propagate (`UndeliveredByRan`); so when none is left, at
  the end of the delta cycle, there are no such inputs. The hypotheses say what a
  design is like, and TLC evaluates them for the eight of the run (`MCDesigns`).
  `NotToItself` and `OneInput` are conditions on the calls of `Connect`, which
  asserts neither and decides from the modifiers of both interfaces what becomes an
  input. Without `AccessedOneWay` a comparison leaves a subscript that the next
  assignment goes to, and TLC breaks `WellConnected` and `HoldsWhatWasAssigned`. With signals passed through, an
  input drives others and what arrives depends on the order of the processes:
  there `HoldsWhatWasAssigned`, `Delivered` and `SeesItsClock` are only model-checked.
- The queries. `MatchMeans` and `OwnedOnce` have one invariant, `QueryInv`: each
  condition that a client holds and each query owns a list; its cells are allocated,
  differ, and are in no other list (`Apart`); the first cell of a condition's list is that
  condition (`Heads`); and what the list says is what was written. The four parts need
  each other. `&&` and `||` delete the right operand while cells of its list may
  live on in the left one, which is safe because the cell deleted is its head, and
  the result has a copy of that (`SumIs`) or of all (`ProductIs`); a query deletes every
  cell it links, which is safe because lists are apart; and lists stay apart because
  an operation takes only cells that no list refers to (`Allocated`). `ProductIs`
  is where the work is: the product is made in place, a row of the left operand at a
  time, each row against every bucket of the right one, with the row itself used
  first and a copy of it kept for the last (`RowFirst`, `RowNext`, `RowLast`). That what a
  product takes is `ProductSize` comes out of the same proof. The folds are followed
  step by step. `CarefulQueries` is that the three constants above are FALSE, as in
  the run; with any of them TLC breaks a property (see "Uses that are gated"). A
  build with assertions is included: it stops at the first copy.

- The database. The five properties of `History` have one invariant, `Settled`. Of the
  store it says (`Whole`): each Record is in one place at most, which a function names
  (listed by a view, new, selected, waiting to be added; `Placed`); the TableRecord it refers
  to exists, is a row of the table of its view if it is listed or selected, and is
  its own if it is new (`RecordSound`); a row is in one table, once (`RowsApart`); a
  row of an interface counts its Records, and those that observers list once more
  (`Counted`), since an import counts twice and its deletion once; owners stay owners,
  so that a trigger of a view that was enabled imports nothing (`Governed`); and the
  transactions that wait are those of editors (`PendingSound`). Each operation is shown
  to lead from a whole store to a whole one, and to leave what owners list and what
  interfaces show (`Kept`); the loops over rows, selections, lists, transactions and
  interfaces are folds that are followed one element at a time. Of an interface the
  invariant says where its iterator is (`Places`: as many records as commits up to the depth,
  and from then on around) and that the list, read from there, is what was committed
  (`Ring`). Of the editors it says (`Promises`): unless a deletion waits, the last of the
  changes to a record that wait is the one that was asked for, and a record that no change
  waits for has that value already; and a change waits only for a record that may not be
  changed at once (`Later`), so that none is overtaken. `EditsTakeEffect` follows
  by going through the transactions as `CommitAll` does: each keeps the promise for what
  is left (`Due`), and at the end none is left. `CarefulClients` has two parts.
  `OwnedTables` says that each table has one
  owner, an interface or an editor, which lets everyone add to it, as the view of an
  interface does (`Interface.cc:63`): without, `CommitAll` would list what is no row. The
  rest is that the four constants of `History` above have the values of the run; with
  any other value TLC breaks a property. Observers may ask for any rights, come, select,
  import, let go and leave at any time.

Only model-checked. Liveness (`DeltaCycleEnds`, `SimulationEnds`), which the
prover does not handle. `AheadInOrder`, `OnItsEdge` and `NoEdgeMissed` with a clock
that is suspended. Designs with signals passed through (`Signals`, three properties).

## Known disagreements

The models show these; most were confirmed by small programs linked against the
library. Three are runs: `LostWakeup`, `SortLoses` and `StaleRead`.

### Kernel

Values of `fault` and `abort` that clients who keep to the rules above reach:

- `pendingAgent` (`Scheduler.cc:802`): a process with two queued reasons waits
  in each of its executions before the first wait has taken effect.
- `timerNotRunning` (`Timer.cc:47`): `Stop` leaves the reason of `Start` on the
  record, so the timer runs twice after it is started again.
- `nullPutter` (`Scheduler.cc:1209`): a putter that is blocked elsewhere when its
  element is handed over is null, and dereferenced before it is tested.
- `reasonsFull` (`Stack.h:72`): the reasons that agents queue for a synchronous
  process are never popped, so enough wake-ups fill their queue (more than the
  runs make).
- `eventHang` (`Event.cc:41`): a process that registers for an event and then
  waits for something else makes `Flush` loop for ever.
- `unlinkCurrent` (`List.h:604-605`): a flush that wakes the record at the cursor
  unlinks, through the scheduler's iterator, the link another one stands on.
- `noRecordAhead` (`Scheduler.cc:986`): a clock with nothing ahead of it, as when
  its only synchronous process is blocked, cannot be scheduled.
- `notLater` (`Scheduler.cc:897`, `1139`): a clock that starts just before an edge
  is scheduled no time ahead; and a wake-up on an edge passes
  `mSimulationTime` by reference to a function that advances it.

Besides: of several listeners of an event one gets a reason, the others neither
run nor block (`Event.cc:53`, `Scheduler.cc:1259`). A synchronous process that is
woken between edges runs beside the edges from then on (`Scheduler.cc:896`). A
clock that is suspended and set running again has no edge ahead (`Clock.cc:116`).
A simulation of synchronous processes only is finished before its first edge
(`Scheduler.cc:544`, `588`): stepping back from the first record leaves no next.
`FlushMailboxPuts` hands over one pair per mailbox and then clears
`mMailboxEvaluate` (`Scheduler.cc:1250`): a second element and a second getter
stay unpaired until an unrelated Put or Get. `Semaphore.h:26-27` says the
blocking policy holds later requests until the current one is satisfied;
`Semaphore.cc:93` passes over one whose process is blocked elsewhere. The mark
of having been unblocked is cleared for software processes only
(`Scheduler.cc:536`), so a synchronous process that was woken once is, to every
agent it does not wait for, blocked for good.

### Lists and sorting

`View::Sort` of three records or more loses some (`View.cc:607`, `613`): the relink out of
`list_unsorted` moves the cursor that its loop goes on with, so every other record is
passed over and is lost with that list. `SortLoses` shows it, against the comment at
`594-595`.

### Queries

- The copy constructor of `Condition` assigns a `Value` of unknown type
  (`Condition.cc:206`), which `Value.cc:495` asserts against: every `&&`, every `||`
  and every copy of a query stops a build with assertions. `Queries` is
  about builds without.
- `&&` leaves `mpBktLast` and `mBucketTotal` of its result stale, so `(a && (b || c)) || d`
  loses a product (`ReusesProducts`).
- A copied list shares its conditions, and both lists delete them
  (`BucketList.h:409-413`, `Trigger.cc:27`; `SharesTerms`).
- `operator<(const Value&)` does not say that its right side is a value
  (`Condition.cc:365-373`), comparisons of two attributes are made and never added
  (`Condition.cc:951-1003`), and one case of `Evaluate` falls through
  (`Condition.cc:265-272`).

### Database

- Committing the deletion of a record deletes it twice (`Database.cc:237`, `248`); the
  model stops there. `Table.cc:645-649` describes what was meant.
- Committing one view drops the transactions that other views have pending
  (`Database.cc:125`, `151`, `205`, `263`): in the delta cycles in which an interface
  adds a record edits are lost, so `EditsTakeEffect` is about the others.
- Selecting by a query drops a reference of the last row that matches
  (`Table.cc:302-320`; `SelectsMatching`); a second selection by range follows a null
  pointer (`211-245`), though `448` says that selections may be repeated.
- An import takes the last selection of the table, whichever view made it
  (`468-476`), and counts its references again (`517`); a view that was never enabled
  can import through a trigger records that then are in two views (`Shares`).
- Enabling a view takes it out of the list of views (`355-356`, `564-567`), its
  masks of permissions are combined with the wrong precedence (`415`, `426`), and
  an owner is installed even where permission is refused (`438-441`).
- `CommitAll` puts a row into its table only if others may read it, and takes
  it from its view in any case (`Database.cc:155-156`).
- `HistoryDepth`, called after commits, breaks the order of the values an
  interface keeps (`LateDepths`).

### Interfaces and signals

- A signal that an interface passes through is written back while
  `mIsModified` is never reset (`Interface.cc:563-567`; `UnorderedPassThru`), and an
  interface whose process does not run passes nothing through.
- Of two `InOut` peers only the left one propagates (`Interface.cc:634-668`); an
  interface that is passed through before it gets a peer fails an assert.
- Comparing or reading by name leaves the subscript of the interface set
  (`Interface.cc:333-425`; `ComparedByName`, `ByPosition`).
- The list of processes to notify of a value is never emptied
  (`Scheduler.cc:556-563`), and an asynchronous process that is scheduled from it
  fails `assert(0)` (`Scheduler.cc:502`).
- `ElaborateModuleRecursive` returns after the first submodule (`Simulator.cc:79-104`,
  against the comment at `74-78`): of the processes of other submodules, and of modules
  that have any, none is scheduled. `ScheduledAsElaborated` says what it comes to.
- A process sensitive to two edges of a clock is scheduled twice; one sensitive
  to a signal that is not connected dereferences null.

### Bit vectors

Each is a member of `Uses`, or left out of the model where noted. Reading a part
that begins at bit 0 copies the whole word and leaves the part selected
(`low`). `a ^ b` is wrong, `1 ^ 0` is 0 (`xor`). `a << 0` clears a, `a >> 0` asserts
(`still`). `&`, `|`, `^` and `~` take places modulo the logarithm of the word size:
`0x40 & 0x40` is `0x42` (`high`). `>` and `<` of different widths or of several words
start from the wrong end (`layouts`). `BitSetAll` and `BitClearAll` skip the last word
of a vector that fills its words (`filled`). Parts compared with numbers compare
whole words (`parts`); numbers assigned to parts that lie in two words are cut,
and of the upper word as many places are cleared as the part has in the lower,
and one more, past the end of the masks if the part begins a word
(`Bit.cc:413-420`), which shifts do too when they assign 0 to what they leave
(`straddling`). A part that is all of its vector, `x[msb][0]`, is taken for no part,
and the subscripts stay set (`explicit`). So they do where an operation returns
without `ResetBitRange`: a part compared by `==` with an empty vector
(`Bit.cc:614-617`), tested by `!` (`1008-1014`) or copied by the copy constructor
(`93-113`, which copies the words from the first on) (`kept`). An empty vector may be
assigned, says the comment at `285-288`; of a vector that has words, or of the part
`x[3]`, all words are deleted, `mpWords` goes on pointing to them, so that a later
assignment is not sized and writes to them, and subscripts stay (`289-295`;
`emptied`). Results of `&`, `|`, `^` and `~` are assigned by `operator=(const Bit&)`,
which does not pad (`378-388`); in the model only to vectors of their width or of
none, since to a wider one it would read beyond the words. Not modelled: `+`, `-`
and `++` work on a fresh vector of zeros, so that `7++` is 1; `--` writes past the array; `Concatenate` always asserts.

## Plan

1. Done: the kernel of processes, its list, clocks; theorems.
2. Done: interfaces and signals, elaboration, the database, queries, lists and
   sorting, bit vectors.
3. Next: a composition of `Scheduler` with the propagation of `Signals`, so that
   StepA and StepC happen at the edges of `Clock`; the links of `LinkedList` as the
   `ProcessList` of the scheduler.

## Not modelled

- `Value` but for copies and assignments, `String`, `Enum`: conversion and formatting.
- `SimulatorTime`, `PRNG`: a time with a unit, scaled once at the start; a stream
  of numbers of which the models use any.
- The sums and averages of `Aggregate`: they dereference null pointers, and
  `Maximum` compares addresses.
- `HashTable`, `ObjectReuse`: no callers. `ViewJoin`: its constructor asserts the
  pointer it has just set to 0.
- The definition of attributes, printing, the reading and saving of tables
  (file formats), and the cursor functions of views, which forward to `List`.
- Sub-interfaces, which nothing can use, and the delays of `Flop.h`.
- Adjustment of the time scale, and records added while the simulation runs.
- `Vcd`, `MemoryUsage`, statistics, `Condor.cc` (output and start-up), the AXI and RW
  examples and the tests, which are clients.
