---------------------------- MODULE SchedulerProofs ----------------------------
(***************************************************************************)
(* The scheduler with its process list, Scheduler.tla, implements the      *)
(* delta cycle that leaves open which record runs, SyncKernel.tla: what is *)
(* proved of SyncKernel.tla for every choice holds for the choices of the  *)
(* list.  The cursor of the list stays on the process that runs, and each  *)
(* operation on the list is described by what becomes of the order.        *)
(***************************************************************************)
EXTENDS SchedulerProperties, KernelProofs

-----------------------------------------------------------------------------
(* The groups of steps of the scheduler, as steps of SyncKernel.tla.       *)

LEMMA RunningImplements ==
  ASSUME RunRecord \/ ProcessCalls \/ StartTimer \/ RunSynchronous \/ EdgeDone
  PROVE  RunStep
<1>1. CASE RunRecord
  <2>1. ASSUME NEW p \in Software, Dispatch(p), UNCHANGED <<agentVars, schedVars>>
        PROVE  RunStep
    BY <2>1 DEF RunStep, ProcessStep, Software
  <2>2. CASE (Return \/ \E r \in Records : AtCursor(r) /\ DispatchIdle(r)) /\ UNCHANGED agentVars
    BY <2>2 DEF RunStep, ProcessStep
  <2>3. CASE (\E t \in Timers : AtCursor(t) /\ TimerExecute(t)) /\ TimersOnly
    BY <2>3 DEF RunStep, TimersOnly
  <2> QED
    BY <1>1, <2>1, <2>2, <2>3 DEF RunRecord
<1>2. CASE ProcessCalls
  <2>1. CASE NextReason /\ UNCHANGED <<agentVars, schedVars>>
    BY <2>1 DEF RunStep, ProcessStep
  <2>2. CASE (\E w \in ClientWaits : Wait(w)) /\ UNCHANGED <<agentVars, schedVars>>
    BY <2>2 DEF RunStep, ProcessStep
  <2>3. CASE SemaphoreCall /\ SemaphoresOnly
    BY <2>3 DEF RunStep, SemaphoresOnly
  <2>4. CASE MailboxCall /\ MailboxesOnly
    BY <2>4 DEF RunStep, MailboxesOnly
  <2>5. CASE EventCall /\ EventsOnly
    BY <2>5 DEF RunStep, EventsOnly
  <2>6. ASSUME NEW t \in Timers, TimerWatch(t) \/ TimerWait(t) \/ TimerStop(t), TimersOnly
        PROVE  RunStep
    BY <2>6 DEF RunStep, TimerCall, TimersOnly
  <2> QED
    BY <1>2, <2>1, <2>2, <2>3, <2>4, <2>5, <2>6 DEF ProcessCalls
<1>3. CASE StartTimer
  <2>1. PICK t \in Timers :
          /\ (\E w \in Processes \cup {NoProcess} : TimerStart(t, w)) \/ TimerRestart(t)
          /\ TimersOnly
    BY <1>3 DEF StartTimer
  <2> QED
    BY <2>1 DEF RunStep, TimerCall, TimersOnly
<1>4. CASE RunSynchronous
  BY <1>4 DEF RunSynchronous, RunStep, ProcessStep
<1>5. CASE EdgeDone
  BY <1>5 DEF EdgeDone, RunStep, ProcessStep
<1> QED
  BY <1>1, <1>2, <1>3, <1>4, <1>5

LEMMA FlushingImplements ==
  ASSUME WakeProcesses \/ FlushOn \/ EndDeltaCycle \/ AdvanceTime
  PROVE  FlushStep
<1>1. CASE WakeProcesses
  <2>1. ASSUME NEW s \in Semaphores, SemaphoresOnly,
               (\E i \in DOMAIN getPending[s] : SemaphoreFlushGet(s, i)) \/ SemaphoreFlushPut(s)
        PROVE  FlushStep
    BY <2>1 DEF FlushStep, SemaphoreFlush, SemaphoresOnly
  <2>2. ASSUME NEW m \in Mailboxes, NEW i \in DOMAIN getters[m], MailboxTransfer(m, i), MailboxesOnly
        PROVE  FlushStep
    BY <2>2 DEF FlushStep, MailboxFlush, MailboxesOnly
  <2>3. ASSUME NEW e \in Events, EventFlush(e), EventsOnly
        PROVE  FlushStep
    BY <2>3 DEF FlushStep, EventFlushNext, EventsOnly
  <2>4. ASSUME NEW t \in Timers, NEW i \in DOMAIN watchers[t], TimerFlush(t, i), TimersOnly
        PROVE  FlushStep
    BY <2>4 DEF FlushStep, TimerFlushNext, TimersOnly
  <2> QED
    BY <1>1, <2>1, <2>2, <2>3, <2>4 DEF WakeProcesses
<1>2. CASE FlushOn
  <2>1. CASE (\E s \in Semaphores : SemaphoreFlushGetDone(s) \/ SemaphoreFlushPutDone(s)) /\ SemaphoresOnly
    BY <2>1 DEF FlushStep, SemaphoreFlush, SemaphoresOnly
  <2>2. CASE (\E m \in Mailboxes : MailboxNoPair(m)) /\ MailboxesOnly
    BY <2>2 DEF FlushStep, MailboxFlush, MailboxesOnly
  <2>3. CASE (\E e \in Events : EventFlushUnheard(e)) /\ EventsOnly
    BY <2>3 DEF FlushStep, EventFlushNext, EventsOnly
  <2>4. CASE (\E t \in Timers : TimerFlushDone(t)) /\ TimersOnly
    BY <2>4 DEF FlushStep, TimerFlushNext, TimersOnly
  <2>5. CASE TimersEnd \/ EventsEnd \/ SemGetsEnd \/ SemPutsEnd \/ MailboxesEnd
    BY <2>5 DEF FlushStep
  <2> QED
    BY <1>2, <2>1, <2>2, <2>3, <2>4, <2>5 DEF FlushOn
<1>3. CASE EndDeltaCycle
  BY <1>3 DEF EndDeltaCycle, FlushStep
<1>4. CASE AdvanceTime
  BY <1>4 DEF AdvanceTime, FlushStep
<1> QED
  BY <1>1, <1>2, <1>3, <1>4

\* What happens to the list, the times and the clocks is invisible to the
\* agents: each step is a step of SyncKernel.tla or leaves its variables alone.
LEMMA SchedulerStep == [SchedNext]_allVars => [Next]_vars
<1>1. CASE RunRecord \/ ProcessCalls \/ StartTimer \/ RunSynchronous \/ EdgeDone
  BY <1>1, RunningImplements DEF Next
<1>2. CASE WakeProcesses \/ FlushOn \/ EndDeltaCycle \/ AdvanceTime
  BY <1>2, FlushingImplements DEF Next
<1>3. CASE StopRunning
  BY <1>3 DEF StopRunning, Next
<1>4. CASE ClockCalls \/ ClockTicks \/ PassOver
  BY <1>4 DEF ClockCalls, ClockTicks, PassOver
<1>5. CASE UNCHANGED allVars
  BY <1>5 DEF allVars
<1> QED
  BY <1>1, <1>2, <1>3, <1>4, <1>5 DEF SchedNext

\* The scheduler implements the delta cycle (Scheduler::Start, Step7 and Step8,
\* with the process list).
THEOREM SchedulerImplementsKernel == SchedSpec => Spec
<1>1. SchedInit => Init
  BY DEF SchedInit
<1> QED
  BY <1>1, SchedulerStep, PTL DEF SchedSpec, Spec

\* The kernel keeps its types when the process list of the scheduler drives it
\* (Scheduler::Start).
THEOREM SchedulerTyped == SchedSpec => [](TypeOK /\ PairedLists)
BY SchedulerImplementsKernel, Typing

\* A semaphore of one key is a lock under the scheduler too, whatever the
\* durations, the clocks and the order of the records (Semaphore::FlushGets).
THEOREM ScheduledMutualExclusion == SchedSpec => []BinaryMutex
BY SchedulerImplementsKernel, MutualExclusion

\* A mailbox delivers once and in order under the scheduler too
\* (MailboxBase::Flush, called by FlushMailboxPuts).
THEOREM ScheduledDelivery == SchedSpec => []MailboxFIFO
BY SchedulerImplementsKernel, MailboxDeliversInOrder

\* A scheduled timer still has its reason to complete when its record is
\* relinked in the process list (Scheduler::ScheduleTimer).
THEOREM ScheduledTimersFire == SchedSpec => []ScheduledTimerFires
BY SchedulerImplementsKernel, TimersFire

\* The scheduler moves on to a later time only when no semaphore could grant a
\* queued request (Scheduler::Step7 and FlushSemaphoreGets).
THEOREM ScheduledRequests ==
  ASSUME Synchronous = {}
  PROVE  SchedSpec => []NoStrandedRequest
BY SchedulerImplementsKernel, NoRequestIsStranded

-----------------------------------------------------------------------------
(* The cursor of the list.                                                 *)

\* RunsAtCursor, and that no process runs while the agents are flushed; a list
\* keeps its three parts.
CursorInv ==
  /\ DOMAIN list = {"order", "cursor", "past"}
  /\ RunsAtCursor
  /\ phase \notin {"Run", "Step8"} => current = NoProcess

\* The cursor and the list around it, of every operation on lists.
LEMMA ListKeepsParts ==
  ASSUME NEW l, DOMAIN l = {"order", "cursor", "past"}, NEW later, NEW r
  PROVE  /\ DOMAIN RecordSearchNext(l) = DOMAIN l
         /\ DOMAIN RecordSearchPrev(l) = DOMAIN l
         /\ DOMAIN Relink(l, later, r) = DOMAIN l
         /\ DOMAIN RelinkCurrent(l, later) = DOMAIN l
         /\ Relink(l, later, r).cursor = l.cursor
         /\ l.past = "none" => Relink(l, later, r).past = "none"
BY DEF RecordSearchNext, RecordSearchPrev, Relink, RelinkCurrent

\* Scheduling a record leaves the cursor where it is.
LEMMA ScheduleKeepsCursor ==
  ASSUME NEW s, DOMAIN s = {"list", "times", "abort"},
         DOMAIN s.list = {"order", "cursor", "past"}, NEW r, NEW t
  PROVE  LET after == ScheduleAt(s, r, t)
         IN /\ DOMAIN after = DOMAIN s
            /\ DOMAIN after.list = DOMAIN s.list
            /\ after.list.cursor = s.list.cursor
            /\ s.list.past = "none" => after.list.past = "none"
<1> DEFINE timed == [s EXCEPT !.times[r] = t]
           later == LaterAhead(timed, r)
<1>1. DOMAIN timed = DOMAIN s /\ timed.list = s.list
  OBVIOUS
<1>2. ScheduleAt(s, r, t) \in
        {s, timed, [timed EXCEPT !.abort = "unlinkCurrent"],
         [timed EXCEPT !.list = Relink(timed.list, later, r)]}
  BY DEF ScheduleAt, Reschedule
<1> HIDE DEF timed, later
<1>3. /\ DOMAIN Relink(timed.list, later, r) = DOMAIN s.list
      /\ Relink(timed.list, later, r).cursor = s.list.cursor
      /\ s.list.past = "none" => Relink(timed.list, later, r).past = "none"
  BY <1>1, ListKeepsParts
<1> QED
  BY <1>1, <1>2, <1>3

LEMMA ScheduleWokenKeepsParts ==
  ASSUME DOMAIN list = {"order", "cursor", "past"}, NEW ps, ScheduleWoken(ps)
  PROVE  DOMAIN list' = DOMAIN list
<1>1. CASE fault' = "none"
  <2> DEFINE first == ScheduleAt(Entries, ps[1], WakeTime(ps[1]))
             second == ScheduleAt(first, ps[2], WakeTime(ps[2]))
  <2>1. DOMAIN Entries = {"list", "times", "abort"} /\ Entries.list = list
    BY DEF Entries
  <2>2. DOMAIN first = {"list", "times", "abort"} /\ DOMAIN first.list = DOMAIN list
    BY <2>1, ScheduleKeepsCursor
  <2> HIDE DEF first
  <2>3. DOMAIN second.list = DOMAIN list
    BY <2>2, ScheduleKeepsCursor
  <2>4. list' = first.list \/ list' = second.list
    BY <1>1 DEF ScheduleWoken, Take, first
  <2> QED
    BY <2>2, <2>3, <2>4
<1>2. CASE fault' # "none"
  BY <1>2 DEF ScheduleWoken
<1> QED
  BY <1>1, <1>2

LEMMA CursorInit == SchedInit => CursorInv
<1> SUFFICES ASSUME SchedInit PROVE CursorInv
  OBVIOUS
<1>1. PICK o : list = ListOf(o)
  BY DEF SchedInit
<1>2. current = NoProcess
  BY DEF SchedInit, Init, ProcessSyncInit
<1> QED
  BY <1>1, <1>2 DEF CursorInv, RunsAtCursor, ListOf

LEMMA CursorRun ==
  ASSUME CursorInv, RunRecord \/ RunSynchronous \/ StopRunning \/ EdgeDone
  PROVE  CursorInv'
<1>1. ASSUME NEW p \in Software, AtCursor(p), Dispatch(p), UNCHANGED schedVars
      PROVE  CursorInv'
  BY <1>1 DEF CursorInv, RunsAtCursor, AtCursor, Dispatch, Running, loopVars, schedVars
<1>2. ASSUME Return \/ \E r \in Records : DispatchIdle(r), MoveOn(RecordSearchNext(list))
      PROVE  CursorInv'
  BY <1>2, ListKeepsParts DEF CursorInv, RunsAtCursor, Return, DispatchIdle, runVars, loopVars, MoveOn
<1>3. ASSUME NEW t \in Timers, TimerExecute(t), MoveOn(RecordSearchNext(list))
      PROVE  CursorInv'
  BY <1>3, ListKeepsParts DEF CursorInv, RunsAtCursor, TimerExecute, runVars, loopVars, MoveOn
<1>4. ASSUME NEW p \in Synchronous, DueOnEdge(p), ExecuteOnEdge(p), UNCHANGED schedVars
      PROVE  CursorInv'
  BY <1>4 DEF CursorInv, RunsAtCursor, DueOnEdge, ExecuteOnEdge, OnClock, loopVars, schedVars
<1>5. ASSUME ReturnOnEdge, ToNextEdge(current, clock)
      PROVE  CursorInv'
  <2>1. DOMAIN list' = DOMAIN list
    <3> DEFINE s == [Entries EXCEPT !.times[current] = now + EdgeIncr(clock, current)]
               later == LaterAhead(s, current)
    <3>1. DOMAIN s = {"list", "times", "abort"} /\ s.list = list
      BY DEF Entries
    <3> HIDE DEF s
    <3>2. list' = RescheduleCurrent(s, current).list
      BY <1>5 DEF ToNextEdge, Take, s
    <3>3. RescheduleCurrent(s, current).list \in {list, RelinkCurrent(list, later)}
      BY <3>1 DEF RescheduleCurrent
    <3> QED
      BY <3>2, <3>3, ListKeepsParts DEF CursorInv
  <2> QED
    BY <1>5, <2>1 DEF CursorInv, RunsAtCursor, ReturnOnEdge, loopVars
<1>6. CASE StopRunning
  BY <1>6, ListKeepsParts
     DEF StopRunning, RunEnds, Enter, CursorInv, RunsAtCursor, runVars, MoveOn, schedVars
<1>7. CASE EdgeDone
  BY <1>7 DEF EdgeDone, EdgeEnds, CursorInv, RunsAtCursor, runVars, schedVars
<1> QED
  BY <1>1, <1>2, <1>3, <1>4, <1>5, <1>6, <1>7 DEF RunRecord, RunSynchronous

\* The calls of a process leave the list alone, except those that start a timer:
\* its record moves, the cursor does not.
LEMMA CursorCalls ==
  ASSUME CursorInv, ProcessCalls \/ StartTimer
  PROVE  CursorInv'
<1>1. CASE ProcessCalls
  <2>1. /\ UNCHANGED <<list, current, phase>>
    <3>1. CASE NextReason /\ UNCHANGED <<agentVars, schedVars>>
      BY <3>1 DEF NextReason, loopVars, schedVars
    <3>2. ASSUME NEW w \in ClientWaits, Wait(w), UNCHANGED <<agentVars, schedVars>>
          PROVE  UNCHANGED <<list, current, phase>>
      BY <3>2 DEF Wait, loopVars, schedVars
    <3>3. CASE SemaphoreCall /\ UNCHANGED schedVars
      BY <3>3 DEF SemaphoreCall, SemaphoreGet, SemaphorePut, loopVars, schedVars
    <3>4. CASE MailboxCall /\ UNCHANGED schedVars
      BY <3>4 DEF MailboxCall, MailboxGet, MailboxPut, loopVars, schedVars
    <3>5. CASE EventCall /\ UNCHANGED schedVars
      BY <3>5 DEF EventCall, EventGet, EventSet, loopVars, schedVars
    <3>6. ASSUME NEW t \in Timers, TimerWatch(t) \/ TimerWait(t) \/ TimerStop(t),
                 UNCHANGED schedVars
          PROVE  UNCHANGED <<list, current, phase>>
      BY <3>6 DEF TimerWatch, TimerWait, TimerStop, loopVars, schedVars
    <3> QED
      BY <1>1, <3>1, <3>2, <3>3, <3>4, <3>5, <3>6 DEF ProcessCalls
  <2> QED
    BY <2>1 DEF CursorInv, RunsAtCursor
<1>2. CASE StartTimer
  <2>1. PICK t \in Timers :
          /\ (\E w \in Processes \cup {NoProcess} : TimerStart(t, w)) \/ TimerRestart(t)
          /\ Take(ScheduleAt(Entries, t, now + timeout'[t]))
    BY <1>2 DEF StartTimer
  <2>2. UNCHANGED <<current, phase>>
    BY <2>1 DEF TimerStart, TimerRestart, loopVars
  <2>3. /\ DOMAIN list' = DOMAIN list
        /\ list'.cursor = list.cursor
        /\ list.past = "none" => list'.past = "none"
    <3>1. DOMAIN Entries = {"list", "times", "abort"} /\ Entries.list = list
      BY DEF Entries
    <3> QED
      BY <2>1, <3>1, ScheduleKeepsCursor DEF Take, CursorInv
  <2> QED
    BY <2>2, <2>3 DEF CursorInv, RunsAtCursor
<1> QED
  BY <1>1, <1>2

LEMMA CursorFlush ==
  ASSUME CursorInv, WakeProcesses \/ FlushOn \/ EndDeltaCycle \/ AdvanceTime
  PROVE  CursorInv'
<1>1. ASSUME phase \notin {"Run", "Step8"}, current' = current, DOMAIN list' = DOMAIN list
      PROVE  CursorInv'
  BY <1>1 DEF CursorInv, RunsAtCursor
<1>2. CASE WakeProcesses
  <2>1. DOMAIN list' = DOMAIN list
    BY <1>2, ScheduleWokenKeepsParts DEF WakeProcesses, ScheduleWokenByPut, CursorInv
  <2>2. phase \notin {"Run", "Step8"} /\ current' = current
    BY <1>2 DEF WakeProcesses, SemaphoreFlushGet, SemaphoreFlushPut, MailboxTransfer,
       EventFlush, TimerFlush, AtTimer, Flushing, runVars
  <2> QED
    BY <1>1, <2>1, <2>2
<1>3. CASE FlushOn
  <2>1. phase \notin {"Run", "Step8"} /\ current' = current
    BY <1>3 DEF FlushOn, SemaphoreFlushGetDone, SemaphoreFlushPutDone, MailboxNoPair,
       EventFlushUnheard, TimerFlushDone, AtTimer, Flushing, runVars,
       TimersEnd, EventsEnd, SemGetsEnd, SemPutsEnd, MailboxesEnd, Enter
  <2>2. list' = list
    BY <1>3 DEF FlushOn, schedVars
  <2> QED
    BY <1>1, <2>1, <2>2
<1>4. CASE EndDeltaCycle
  BY <1>1, <1>4, ListKeepsParts
     DEF EndDeltaCycle, FlushProcessesToBlock, Abort, runVars, MoveOn, CursorInv
<1>5. CASE AdvanceTime
  BY <1>1, <1>5, ListKeepsParts DEF AdvanceTime, Advance, runVars, CursorInv
<1> QED
  BY <1>2, <1>3, <1>4, <1>5

LEMMA CursorStep ==
  ASSUME CursorInv, [SchedNext]_allVars
  PROVE  CursorInv'
<1>1. CASE RunRecord \/ RunSynchronous \/ StopRunning \/ EdgeDone
  BY <1>1, CursorRun
<1>2. CASE ProcessCalls \/ StartTimer
  BY <1>2, CursorCalls
<1>3. CASE WakeProcesses \/ FlushOn \/ EndDeltaCycle \/ AdvanceTime
  BY <1>3, CursorFlush
<1>4. CASE ClockCalls
  BY <1>4 DEF ClockCalls, CursorInv, RunsAtCursor, vars, baseVars, runVars, loopVars
<1>5. CASE PassOver
  BY <1>5, ListKeepsParts
     DEF PassOver, MoveOn, CursorInv, RunsAtCursor, DueOnEdge, vars, baseVars, runVars, loopVars
<1>6. CASE ClockTicks
  <2>1. PICK c \in Clocks : DueOnEdge(c) /\ ToNextEdge(c, clock')
    BY <1>6 DEF ClockTicks
  <2>2. current = NoProcess /\ UNCHANGED <<current, phase>>
    BY <1>6, <2>1 DEF ClockTicks, DueOnEdge, vars, baseVars, runVars, loopVars
  <2>3. DOMAIN list' = DOMAIN list
    <3> DEFINE s == [Entries EXCEPT !.times[c] = now + EdgeIncr(clock', c)]
               later == LaterAhead(s, c)
    <3>1. DOMAIN s = {"list", "times", "abort"} /\ s.list = list
      BY DEF Entries
    <3> HIDE DEF s
    <3>2. list' = RescheduleCurrent(s, c).list
      BY <2>1 DEF ToNextEdge, Take, s
    <3>3. RescheduleCurrent(s, c).list \in {list, RelinkCurrent(list, later)}
      BY <3>1 DEF RescheduleCurrent
    <3> QED
      BY <3>2, <3>3, ListKeepsParts DEF CursorInv
  <2> QED
    BY <2>2, <2>3 DEF CursorInv, RunsAtCursor
<1>7. CASE UNCHANGED allVars
  BY <1>7 DEF allVars, schedVars, CursorInv, RunsAtCursor, vars, baseVars, runVars, loopVars
<1> QED
  BY <1>1, <1>2, <1>3, <1>4, <1>5, <1>6, <1>7 DEF SchedNext

\* The record that runs is the one at the cursor, however the timers it starts
\* and the records woken after it are relinked (Scheduler::Start, Step7).
THEOREM ProcessRunsAtCursor == SchedSpec => []RunsAtCursor
<1>1. CursorInv /\ [SchedNext]_allVars => CursorInv'
  BY CursorStep
<1>2. CursorInv => RunsAtCursor
  BY DEF CursorInv
<1> QED
  BY <1>1, <1>2, CursorInit, PTL DEF SchedSpec

-----------------------------------------------------------------------------
(* The order of the list.                                                  *)

\* A list of every record, once.
ListOfAll(l) ==
  /\ l \in [order : Seq(AllRecords), cursor : AllRecords, past : {"none", "prev", "next"}]
  /\ \A i, j \in 1..Len(l.order) : l.order[i] = l.order[j] => i = j
  /\ \A r \in AllRecords : \E i \in 1..Len(l.order) : l.order[i] = r

\* x is in the list before y.
Before(l, x, y) == Position(l, x) < Position(l, y)

\* x is the element that follows the cursor.
IsNext(l, x) == Position(l, x) = Position(l, l.cursor) + 1

\* SetToSeqs, by which Scheduler.tla states the initial list, gives such lists.
LEMMA PermutationsAreLists ==
  ASSUME NEW o
  PROVE  o \in SetToSeqs(AllRecords) <=>
           /\ o \in Seq(AllRecords)
           /\ \A i, j \in 1..Len(o) : o[i] = o[j] => i = j
           /\ \A r \in AllRecords : \E i \in 1..Len(o) : o[i] = r
<1> DEFINE S == AllRecords
           n == Cardinality(S)
           D == 1..n
<1>1. IsFiniteSet(S) /\ n \in Nat
  BY SchedulerAssumption, FS_CardinalityType
<1>2. o \in SetToSeqs(AllRecords) <=> o \in [D -> S] /\ \A i, j \in D : i # j => o[i] # o[j]
  BY DEF SetToSeqs
<1> HIDE DEF S
<1>3. IsFiniteSet(D) /\ Cardinality(D) = n
  BY <1>1, FS_Interval
<1>4. ASSUME o \in [D -> S], \A i, j \in D : i # j => o[i] # o[j]
      PROVE  /\ o \in Seq(S) /\ Len(o) = n
             /\ \A r \in S : \E i \in D : o[i] = r
  <2>1. o \in Seq(S) /\ Len(o) = n
    BY <1>1, <1>4
  <2> HIDE DEF n, D
  <2>2. o \in Injection(D, S)
    BY <1>4 DEF Injection, IsInjective
  <2>3. o \in Surjection(D, S)
    BY <1>1, <1>3, <2>2, FS_Injection DEF n
  <2> QED
    BY <2>1, <2>3 DEF Surjection
<1>5. ASSUME o \in Seq(S), \A i, j \in 1..Len(o) : o[i] = o[j] => i = j,
             \A r \in S : \E i \in 1..Len(o) : o[i] = r
      PROVE  Len(o) = n /\ o \in [1..Len(o) -> S]
  <2> DEFINE m == Len(o)
             M == 1..m
  <2>1. m \in Nat /\ o \in [M -> S]
    BY <1>5, LenProperties
  <2>2. IsFiniteSet(M) /\ Cardinality(M) = m
    BY <2>1, FS_Interval
  <2>3. o \in Bijection(M, S)
    BY <1>5, <2>1 DEF Bijection, Injection, Surjection, IsInjective
  <2> HIDE DEF m, M, n, D
  <2>4. Cardinality(S) = Cardinality(M)
    BY <2>2, <2>3, FS_Bijection DEF ExistsBijection
  <2> QED
    BY <2>1, <2>2, <2>4 DEF m, M, n
<1> QED
  BY <1>2, <1>4, <1>5 DEF S

\* Position finds the place of a record, one for each.
LEMMA PositionIs ==
  ASSUME NEW l, ListOfAll(l)
  PROVE  /\ Len(l.order) \in Nat
         /\ \A r \in AllRecords : Position(l, r) \in 1..Len(l.order) /\ l.order[Position(l, r)] = r
         /\ \A i \in 1..Len(l.order) : l.order[i] \in AllRecords /\ Position(l, l.order[i]) = i
<1>1. /\ l.order \in Seq(AllRecords) /\ Len(l.order) \in Nat /\ DOMAIN l.order = 1..Len(l.order)
      /\ \A i \in 1..Len(l.order) : l.order[i] \in AllRecords
  BY LenProperties, ElementOfSeq DEF ListOfAll
<1>2. ASSUME NEW r \in AllRecords
      PROVE  Position(l, r) \in 1..Len(l.order) /\ l.order[Position(l, r)] = r
  BY <1>1 DEF ListOfAll, Position
<1> QED
  BY <1>1, <1>2 DEF ListOfAll

\* Positions order the records.
LEMMA BeforeIsOrder ==
  ASSUME NEW l, ListOfAll(l)
  PROVE  \A x, y, z \in AllRecords :
           /\ ~ Before(l, x, x)
           /\ Before(l, x, y) => ~ Before(l, y, x)
           /\ Before(l, x, y) /\ Before(l, y, z) => Before(l, x, z)
           /\ x # y => Before(l, x, y) \/ Before(l, y, x)
<1>1. \A r \in AllRecords : Position(l, r) \in Int /\ l.order[Position(l, r)] = r
  BY PositionIs
<1> QED
  BY <1>1 DEF Before

\* Between the cursor and the one that follows it there is nothing.
LEMMA NextIsFirst ==
  ASSUME NEW l, ListOfAll(l), NEW n \in AllRecords
  PROVE  IsNext(l, n) <=> /\ Before(l, l.cursor, n)
                          /\ \A x \in AllRecords : Before(l, l.cursor, x) => x = n \/ Before(l, n, x)
<1>1. /\ \A r \in AllRecords : Position(l, r) \in 1..Len(l.order) /\ l.order[Position(l, r)] = r
      /\ \A i \in 1..Len(l.order) : l.order[i] \in AllRecords /\ Position(l, l.order[i]) = i
      /\ Len(l.order) \in Nat
  BY PositionIs
<1>2. l.cursor \in AllRecords
  BY DEF ListOfAll
<1> DEFINE P(r) == Position(l, r)
           c == l.cursor
<1>3. ASSUME P(n) = P(c) + 1, NEW x \in AllRecords, P(c) < P(x) PROVE x = n \/ P(n) < P(x)
  BY <1>1, <1>2, <1>3
<1>4. ASSUME P(c) < P(n), \A x \in AllRecords : P(c) < P(x) => x = n \/ P(n) < P(x)
      PROVE  P(n) = P(c) + 1
  <2>1. P(c) + 1 \in 1..Len(l.order)
    BY <1>1, <1>2, <1>4
  <2>2. l.order[P(c) + 1] \in AllRecords /\ P(l.order[P(c) + 1]) = P(c) + 1
    BY <1>1, <2>1
  <2> QED
    BY <1>1, <1>2, <1>4, <2>2
<1>5. P(n) = P(c) + 1 => P(c) < P(n)
  BY <1>1, <1>2
<1> QED
  BY <1>3, <1>4, <1>5 DEF IsNext, Before

\* Where the others are when r is taken out.
LEMMA WithoutIt ==
  ASSUME NEW l, ListOfAll(l), NEW r \in AllRecords
  PROVE  LET rest == RemoveAt(l.order, Position(l, r))
             R(x) == IF Before(l, x, r) THEN Position(l, x) ELSE Position(l, x) - 1
         IN /\ rest \in Seq(AllRecords) /\ Len(rest) = Len(l.order) - 1 /\ DOMAIN rest = 1..Len(rest)
            /\ \A x \in AllRecords \ {r} : R(x) \in 1..Len(rest) /\ rest[R(x)] = x
            /\ \A i \in 1..Len(rest) : rest[i] \in AllRecords \ {r} /\ R(rest[i]) = i
<1> DEFINE o == l.order
           k == Position(l, r)
           P(x) == Position(l, x)
           rest == RemoveAt(o, k)
           R(x) == IF P(x) < k THEN P(x) ELSE P(x) - 1
<1>1. /\ Len(o) \in Nat
      /\ \A x \in AllRecords : P(x) \in 1..Len(o) /\ o[P(x)] = x
      /\ \A i \in 1..Len(o) : o[i] \in AllRecords /\ P(o[i]) = i
  BY PositionIs
<1>2. o \in Seq(AllRecords) /\ k \in DOMAIN o /\ k \in 1..Len(o)
  BY <1>1, LenProperties DEF ListOfAll
<1>3. /\ rest \in Seq(AllRecords) /\ Len(rest) = Len(o) - 1
      /\ \A j \in 1..Len(o) - 1 : rest[j] = IF j < k THEN o[j] ELSE o[j+1]
  BY <1>2, RemoveAtProperties
<1>4. DOMAIN rest = 1..Len(rest)
  BY <1>3, LenProperties
<1> HIDE DEF rest
<1>5. ASSUME NEW x \in AllRecords \ {r} PROVE R(x) \in 1..Len(rest) /\ rest[R(x)] = x
  <2>1. P(x) # k
    BY <1>1
  <2>2. P(x) \in 1..Len(o)
    BY <1>1
  <2>3. CASE P(x) < k
    <3>1. P(x) \in 1..Len(o) - 1
      BY <1>1, <1>2, <2>2, <2>3
    <3>2. rest[P(x)] = o[P(x)]
      BY <1>3, <2>3, <3>1
    <3> QED
      BY <1>1, <1>3, <2>3, <3>1, <3>2
  <2>4. CASE ~ (P(x) < k)
    <3>1. P(x) - 1 \in 1..Len(o) - 1 /\ ~ (P(x) - 1 < k) /\ P(x) - 1 + 1 = P(x)
      BY <1>1, <1>2, <2>1, <2>2, <2>4
    <3>2. rest[P(x) - 1] = o[P(x)]
      BY <1>3, <3>1
    <3> QED
      BY <1>1, <1>3, <2>4, <3>1, <3>2
  <2> QED
    BY <2>3, <2>4
<1>6. ASSUME NEW i \in 1..Len(rest) PROVE rest[i] \in AllRecords \ {r} /\ R(rest[i]) = i
  <2>1. CASE i < k
    <3>1. i \in 1..Len(o) /\ i \in 1..Len(o) - 1
      BY <1>1, <1>3
    <3>2. rest[i] = o[i] /\ P(o[i]) = i
      BY <1>1, <1>3, <2>1, <3>1
    <3> QED
      BY <1>1, <2>1, <3>1, <3>2
  <2>2. CASE ~ (i < k)
    <3>1. i + 1 \in 1..Len(o) /\ i \in 1..Len(o) - 1
      BY <1>1, <1>3
    <3>2. rest[i] = o[i + 1] /\ P(o[i + 1]) = i + 1
      BY <1>1, <1>3, <2>2, <3>1
    <3> QED
      BY <1>1, <1>2, <2>2, <3>1, <3>2, SMTT(40)
  <2> QED
    BY <2>1, <2>2
<1> QED
  BY <1>3, <1>4, <1>5, <1>6 DEF rest, Before

\* A list of this order.
Ordered(m, o) ==
  /\ m = [order |-> o, cursor |-> m.cursor, past |-> m.past]
  /\ m.cursor \in AllRecords /\ m.past \in {"none", "prev", "next"}

\* The others keep their order.
SameOthers(l, m, r) == \A x, y \in AllRecords \ {r} : Before(m, x, y) <=> Before(l, x, y)

\* It is the last one, or comes before q; the others keep their order.
LEMMA PutAtTheEnd ==
  ASSUME NEW l, ListOfAll(l), NEW r \in AllRecords, NEW m,
         Ordered(m, Append(RemoveAt(l.order, Position(l, r)), r))
  PROVE  /\ ListOfAll(m) /\ SameOthers(l, m, r)
         /\ \A x \in AllRecords \ {r} : Before(m, x, r)
<1> DEFINE rest == RemoveAt(l.order, Position(l, r))
           R(x) == IF Before(l, x, r) THEN Position(l, x) ELSE Position(l, x) - 1
           n == Len(rest)
<1>1. /\ rest \in Seq(AllRecords) /\ DOMAIN rest = 1..Len(rest)
      /\ \A x \in AllRecords \ {r} : R(x) \in 1..Len(rest) /\ rest[R(x)] = x
      /\ \A i \in 1..Len(rest) : rest[i] \in AllRecords \ {r} /\ R(rest[i]) = i
  BY WithoutIt
<1>2. /\ m.order \in Seq(AllRecords) /\ Len(m.order) = n + 1 /\ n \in Nat
      /\ \A i \in 1..n : m.order[i] = rest[i]
      /\ m.order[n + 1] = r
  BY <1>1, AppendProperties DEF Ordered
<1>3. \A x \in AllRecords : Position(l, x) \in Int
  BY PositionIs
<1> HIDE DEF rest, R, n
<1>4. ListOfAll(m)
  <2>1. \A i, j \in 1..n + 1 : m.order[i] = m.order[j] => i = j
    BY <1>1, <1>2 DEF n
  <2>2. \A x \in AllRecords : \E i \in 1..n + 1 : m.order[i] = x
    BY <1>1, <1>2 DEF n
  <2> QED
    BY <1>2, <2>1, <2>2 DEF ListOfAll, Ordered
<1>5. /\ \A x \in AllRecords \ {r} : Position(m, x) = R(x) /\ R(x) \in 1..n
      /\ Position(m, r) = n + 1
  <2>1. \A i \in 1..Len(m.order) : Position(m, m.order[i]) = i
    BY <1>4, PositionIs
  <2> QED
    BY <1>1, <1>2, <2>1 DEF n
<1>6. ASSUME NEW x \in AllRecords \ {r}, NEW y \in AllRecords \ {r}
      PROVE  Before(m, x, y) <=> Before(l, x, y)
  <2>1. Position(l, x) # Position(l, r) /\ Position(l, y) # Position(l, r)
    BY PositionIs
  <2> QED
    BY <1>3, <1>5, <2>1 DEF Before, R
<1> QED
  BY <1>2, <1>4, <1>5, <1>6 DEF Before, SameOthers

\* The order with r taken out and put in before q (Inserted).
MovedBefore(l, q, r) ==
  LET rest == RemoveAt(l.order, Position(l, r))
  IN InsertAt(rest, CHOOSE i \in DOMAIN rest : rest[i] = q, r)

\* It comes right before q; the others keep their order.
LEMMA PutBefore ==
  ASSUME NEW l, ListOfAll(l), NEW r \in AllRecords, NEW q \in AllRecords \ {r}, NEW m,
         Ordered(m, MovedBefore(l, q, r))
  PROVE  /\ ListOfAll(m) /\ SameOthers(l, m, r)
         /\ \A x \in AllRecords \ {r} : /\ Before(m, x, r) <=> Before(l, x, q)
                                        /\ Before(m, r, x) <=> ~ Before(l, x, q)
<1> DEFINE rest == RemoveAt(l.order, Position(l, r))
           R(x) == IF Before(l, x, r) THEN Position(l, x) ELSE Position(l, x) - 1
           n == Len(rest)
           at == CHOOSE i \in DOMAIN rest : rest[i] = q
           N(x) == IF R(x) < at THEN R(x) ELSE R(x) + 1
<1>1. /\ rest \in Seq(AllRecords) /\ DOMAIN rest = 1..Len(rest)
      /\ \A x \in AllRecords \ {r} : R(x) \in 1..Len(rest) /\ rest[R(x)] = x
      /\ \A i \in 1..Len(rest) : rest[i] \in AllRecords \ {r} /\ R(rest[i]) = i
  BY WithoutIt
<1> HIDE DEF rest, R
<1>2. n \in Nat /\ at \in 1..n /\ rest[at] = q /\ R(q) = at
  <2>1. \E i \in DOMAIN rest : rest[i] = q
    BY <1>1
  <2>2. n \in Nat
    BY <1>1, LenProperties
  <2> QED
    BY <1>1, <2>1, <2>2
<1> HIDE DEF at
<1>3. at \in 1..Len(rest) + 1
  BY <1>2
<1>4. /\ m.order \in Seq(AllRecords) /\ Len(m.order) = n + 1
      /\ \A i \in 1..n + 1 : m.order[i] = IF i < at THEN rest[i] ELSE IF i = at THEN r ELSE rest[i-1]
  <2>1. m.order = InsertAt(rest, at, r)
    BY DEF at, rest, MovedBefore, Ordered
  <2>2. rest \in Seq(AllRecords) /\ r \in AllRecords /\ at \in 1..Len(rest) + 1
    BY <1>1, <1>3
  <2> QED
    BY <2>1, <2>2, InsertAtProperties
<1> HIDE DEF n
<1>5. \A x \in AllRecords \ {r} : N(x) \in 1..n + 1 /\ m.order[N(x)] = x /\ N(x) # at
  BY <1>1, <1>2, <1>4 DEF n
<1>6. m.order[at] = r /\ at \in 1..n + 1
  BY <1>2, <1>4
<1>7. ASSUME NEW i \in 1..n + 1, i # at
      PROVE  m.order[i] \in AllRecords \ {r} /\ N(m.order[i]) = i
  <2>1. CASE i < at
    <3>1. i \in 1..n /\ m.order[i] = rest[i]
      BY <1>2, <1>4, <2>1
    <3> QED
      BY <1>1, <2>1, <3>1 DEF n
  <2>2. CASE ~ (i < at)
    <3>1. i - 1 \in 1..n /\ m.order[i] = rest[i-1] /\ ~ (i - 1 < at)
      BY <1>2, <1>4, <1>7, <2>2
    <3> QED
      BY <1>1, <3>1 DEF n
  <2> QED
    BY <2>1, <2>2
<1>8. ListOfAll(m)
  <2>1. \A i, j \in 1..n + 1 : m.order[i] = m.order[j] => i = j
    BY <1>6, <1>7
  <2>2. \A x \in AllRecords : \E i \in 1..n + 1 : m.order[i] = x
    BY <1>5, <1>6
  <2> QED
    BY <1>4, <2>1, <2>2 DEF ListOfAll, Ordered
<1>9. /\ \A x \in AllRecords \ {r} : Position(m, x) = N(x) /\ R(x) \in Nat
      /\ Position(m, r) = at
  <2>1. \A i \in 1..Len(m.order) : Position(m, m.order[i]) = i
    BY <1>8, PositionIs
  <2> QED
    <3>1. \A x \in AllRecords \ {r} : Position(m, m.order[N(x)]) = N(x)
      BY <1>4, <1>5, <2>1
    <3>2. Position(m, m.order[at]) = at
      BY <1>4, <1>6, <2>1
    <3>3. \A x \in AllRecords \ {r} : R(x) \in Nat
      BY <1>1
    <3> QED
      BY <1>5, <1>6, <3>1, <3>2, <3>3
<1>10. \A x \in AllRecords : Position(l, x) \in Int /\ l.order[Position(l, x)] = x
  BY PositionIs
<1>11. ASSUME NEW x \in AllRecords \ {r}, NEW y \in AllRecords \ {r}
       PROVE  R(x) < R(y) <=> Before(l, x, y)
  <2>1. Position(l, x) # Position(l, r) /\ Position(l, y) # Position(l, r)
    BY <1>10
  <2> QED
    BY <1>10, <2>1 DEF Before, R
<1>12. ASSUME NEW x \in AllRecords \ {r}, NEW y \in AllRecords \ {r}
       PROVE  Before(m, x, y) <=> Before(l, x, y)
  BY <1>2, <1>9, <1>11 DEF Before
<1>13. ASSUME NEW x \in AllRecords \ {r}
       PROVE  /\ Before(m, x, r) <=> Before(l, x, q)
              /\ Before(m, r, x) <=> ~ Before(l, x, q)
  <2>1. R(x) < at <=> Before(l, x, q)
    BY <1>2, <1>11
  <2>2. Position(m, x) = N(x) /\ Position(m, r) = at /\ R(x) \in Nat /\ at \in Nat
    BY <1>2, <1>9
  <2> QED
    BY <2>1, <2>2 DEF Before
<1> QED
  BY <1>8, <1>12, <1>13 DEF SameOthers

-----------------------------------------------------------------------------
(* The operations on the list, as what becomes of the order.               *)

\* x comes after the cursor, which has not left the list.
Upcoming(l, x) == l.past = "none" /\ Before(l, l.cursor, x)

\* q is the first that is later than r, or there is none.
FirstLater(l, times, r, q) ==
  /\ q \in AllRecords /\ Upcoming(l, q) /\ Later(times, q, r)
  /\ \A x \in AllRecords : Upcoming(l, x) /\ Before(l, x, q) => ~ Later(times, x, r)
NoneLater(l, times, r) == \A x \in AllRecords : Upcoming(l, x) => ~ Later(times, x, r)

\* m is l with r put at the end, or right before q.
PlacedLast(l, m, r) ==
  ListOfAll(m) /\ SameOthers(l, m, r) /\ \A x \in AllRecords \ {r} : Before(m, x, r)
PlacedBefore(l, m, r, q) ==
  /\ ListOfAll(m) /\ SameOthers(l, m, r)
  /\ \A x \in AllRecords \ {r} : /\ Before(m, x, r) <=> Before(l, x, q)
                                 /\ Before(m, r, x) <=> ~ Before(l, x, q)

\* Min, of a set of positions.
LEMMA LeastOfPositions ==
  ASSUME NEW n \in Nat, NEW S \in SUBSET (1..n), S # {}
  PROVE  Min(S) \in S /\ \A i \in S : Min(S) <= i
<1>0. S \in SUBSET Nat
  OBVIOUS
<1>1. \E i \in S : \A j \in S : i <= j
  BY <1>0, LeastNatural
<1> QED
  BY <1>1 DEF Min

\* Ahead, the positions after the cursor, holds those of the upcoming records.
LEMMA UpcomingIsAhead ==
  ASSUME NEW l, ListOfAll(l)
  PROVE  /\ \A i \in Ahead(l) : i \in 1..Len(l.order) /\ Upcoming(l, l.order[i])
         /\ \A x \in AllRecords : Upcoming(l, x) => Position(l, x) \in Ahead(l)
         /\ Ahead(l) \in SUBSET (1..Len(l.order))
<1>1. /\ Len(l.order) \in Nat /\ l.cursor \in AllRecords
      /\ \A r \in AllRecords : Position(l, r) \in 1..Len(l.order) /\ l.order[Position(l, r)] = r
      /\ \A i \in 1..Len(l.order) : l.order[i] \in AllRecords /\ Position(l, l.order[i]) = i
  BY PositionIs DEF ListOfAll
<1> DEFINE c == Position(l, l.cursor)
           n == Len(l.order)
<1>2. c \in 1..n /\ n \in Nat
  BY <1>1
<1>3. Ahead(l) = IF l.past = "none" THEN c + 1 .. n ELSE {}
  BY DEF Ahead
<1> HIDE DEF c, n
<1>4. ASSUME NEW i \in Ahead(l) PROVE i \in 1..n /\ c < i /\ l.past = "none"
  BY <1>2, <1>3, <1>4
<1>5. ASSUME NEW x \in AllRecords, Upcoming(l, x) PROVE Position(l, x) \in Ahead(l)
  <2>1. c < Position(l, x) /\ l.past = "none" /\ Position(l, x) \in 1..n
    BY <1>1, <1>5 DEF Upcoming, Before, c, n
  <2> QED
    BY <1>2, <1>3, <2>1
<1> QED
  BY <1>1, <1>4, <1>5 DEF Upcoming, Before, c, n

\* LaterAhead holds the positions of the upcoming records that are later than r.
LEMMA LaterPositions ==
  ASSUME NEW s, ListOfAll(s.list), NEW r
  PROVE  LET later == LaterAhead(s, r)
             l == s.list
         IN \/ later = {} /\ NoneLater(l, s.times, r)
            \/ /\ later # {}
               /\ \E q \in AllRecords : /\ FirstLater(l, s.times, r, q)
                                        /\ Min(later) = Position(l, q) /\ l.order[Min(later)] = q
<1> DEFINE later == LaterAhead(s, r)
           l == s.list
<1>1. /\ \A i \in Ahead(l) : i \in 1..Len(l.order) /\ Upcoming(l, l.order[i])
      /\ \A x \in AllRecords : Upcoming(l, x) => Position(l, x) \in Ahead(l)
      /\ Ahead(l) \in SUBSET (1..Len(l.order))
  BY UpcomingIsAhead
<1>2. /\ Len(l.order) \in Nat
      /\ \A x \in AllRecords : Position(l, x) \in 1..Len(l.order) /\ l.order[Position(l, x)] = x
      /\ \A i \in 1..Len(l.order) : l.order[i] \in AllRecords /\ Position(l, l.order[i]) = i
  BY PositionIs
<1>3. \A i : i \in later <=> i \in Ahead(l) /\ Later(s.times, l.order[i], r)
  BY DEF LaterAhead
<1> HIDE DEF later
<1>4. CASE later = {}
  BY <1>1, <1>2, <1>3, <1>4 DEF NoneLater, later
<1>5. CASE later # {}
  <2>1. later \in SUBSET (1..Len(l.order))
    BY <1>1, <1>3
  <2>2. Min(later) \in later /\ \A i \in later : Min(later) <= i
    BY <1>2, <1>5, <2>1, LeastOfPositions
  <2> DEFINE k == Min(later)
             q == l.order[k]
  <2>3. q \in AllRecords /\ Position(l, q) = k /\ Upcoming(l, q) /\ Later(s.times, q, r)
    BY <1>1, <1>2, <1>3, <2>2
  <2>4. ASSUME NEW x \in AllRecords, Upcoming(l, x), Before(l, x, q), Later(s.times, x, r)
        PROVE  FALSE
    <3>1. Position(l, x) \in later
      BY <1>1, <1>2, <1>3, <2>4
    <3>2. k <= Position(l, x) /\ Position(l, x) < k /\ k \in Int /\ Position(l, x) \in Int
      BY <1>2, <2>1, <2>2, <2>3, <2>4, <3>1 DEF Before
    <3> QED
      BY <3>2
  <2> QED
    BY <1>5, <2>3, <2>4 DEF FirstLater, later
<1> QED
  BY <1>4, <1>5

\* Relink, by an iterator.
Relinked(l, m, times, r) ==
  /\ m.cursor = l.cursor
  /\ \/ /\ NoneLater(l, times, r) /\ PlacedLast(l, m, r)
        /\ m.past = IF l.past = "next" THEN "none" ELSE l.past
     \/ /\ \E q \in AllRecords \ {r} : FirstLater(l, times, r, q) /\ PlacedBefore(l, m, r, q)
        /\ m.past = l.past

\* A record is not later than itself, so its own place is never where it goes.
LEMMA NotLaterThanItself ==
  ASSUME NEW times \in [AllRecords -> Int], NEW r \in AllRecords
  PROVE  ~ Later(times, r, r)
<1>1. times[r] \in Int /\ (r \in Clocked => Region(r) \in Int)
  BY DEF Region
<1> QED
  BY <1>1 DEF Later

\* Inserting r puts it last, or before the first upcoming record that is later.
LEMMA InsertedPlaces ==
  ASSUME NEW s, ListOfAll(s.list), s.times \in [AllRecords -> Int], NEW r \in AllRecords,
         NEW m, Ordered(m, Inserted(s.list, LaterAhead(s, r), r))
  PROVE  \/ /\ NoneLater(s.list, s.times, r) /\ PlacedLast(s.list, m, r)
            /\ LaterAhead(s, r) = {}
         \/ /\ LaterAhead(s, r) # {}
            /\ \E q \in AllRecords \ {r} : /\ FirstLater(s.list, s.times, r, q)
                                           /\ PlacedBefore(s.list, m, r, q)
                                           /\ Min(LaterAhead(s, r)) = Position(s.list, q)
<1> DEFINE l == s.list
           later == LaterAhead(s, r)
<1>1. CASE later = {}
  <2>1. Ordered(m, Append(RemoveAt(l.order, Position(l, r)), r))
    BY <1>1 DEF Inserted
  <2>2. PlacedLast(l, m, r)
    BY <2>1, PutAtTheEnd DEF PlacedLast
  <2> QED
    BY <1>1, <2>2, LaterPositions
<1>2. CASE later # {}
  <2>1. PICK q \in AllRecords : /\ FirstLater(l, s.times, r, q)
                                /\ Min(later) = Position(l, q) /\ l.order[Min(later)] = q
    BY <1>2, LaterPositions
  <2>2. q # r
    BY <2>1, NotLaterThanItself DEF FirstLater
  <2>3. Ordered(m, MovedBefore(l, q, r))
    BY <1>2, <2>1 DEF Inserted, MovedBefore
  <2>4. PlacedBefore(l, m, r, q)
    BY <2>2, <2>3, PutBefore DEF PlacedBefore
  <2> QED
    BY <1>2, <2>1, <2>2, <2>4
<1> QED
  BY <1>1, <1>2

\* The records as ScheduleTheEntry finds them.
EntriesOK(s) ==
  /\ DOMAIN s = {"list", "times", "abort"}
  /\ ListOfAll(s.list) /\ s.times \in [AllRecords -> Nat] /\ s.abort \in Aborts

\* r is taken to be in position: it is the last, or the next is later.
Stays(l, times, r) ==
  \/ NoneLater(l, times, r) /\ \A x \in AllRecords \ {r} : Before(l, x, r)
  \/ \E q \in AllRecords : FirstLater(l, times, r, q) /\ IsNext(l, q)

\* Reschedule of a record: it stays where it is, or is relinked.
Rescheduled(l, m, times, r) ==
  \/ m = l /\ Stays(l, times, r)
  \/ r # l.cursor /\ Relinked(l, m, times, r)

\* What ScheduleTheEntry takes for "in position" is Stays.
LEMMA InPositionStays ==
  ASSUME NEW s, EntriesOK(s), NEW r \in AllRecords,
         InPosition(s.list, LaterAhead(s, r), r)
  PROVE  Stays(s.list, s.times, r)
<1> DEFINE l == s.list
           later == LaterAhead(s, r)
<1>1. ListOfAll(l)
  BY DEF EntriesOK
<1>2. /\ Len(l.order) \in Nat
      /\ \A x \in AllRecords : Position(l, x) \in 1..Len(l.order) /\ l.order[Position(l, x)] = x
      /\ \A i \in 1..Len(l.order) : l.order[i] \in AllRecords /\ Position(l, l.order[i]) = i
  BY <1>1, PositionIs
<1>3. CASE later = {}
  <2>1. l.order[Len(l.order)] = r
    BY <1>3 DEF InPosition, Last
  <2>2. Position(l, r) = Len(l.order)
    BY <1>2, <2>1
  <2>3. \A x \in AllRecords \ {r} : Position(l, x) \in 1..Len(l.order) /\ Position(l, x) # Len(l.order)
    BY <1>2, <2>1
  <2>4. \A x \in AllRecords \ {r} : Before(l, x, r)
    BY <1>2, <2>2, <2>3 DEF Before
  <2>5. NoneLater(l, s.times, r)
    BY <1>1, <1>3, LaterPositions
  <2> QED
    BY <2>4, <2>5 DEF Stays
<1>4. CASE later # {}
  <2>1. PICK q \in AllRecords : FirstLater(l, s.times, r, q) /\ Min(later) = Position(l, q)
    BY <1>1, <1>4, LaterPositions
  <2>2. IsNext(l, q)
    BY <1>4, <2>1 DEF InPosition, IsNext
  <2> QED
    BY <2>1, <2>2 DEF Stays
<1> QED
  BY <1>3, <1>4

\* Relink by an iterator keeps the cursor and inserts.
LEMMA RelinkOrdered ==
  ASSUME NEW l, ListOfAll(l), NEW later, NEW r
  PROVE  Ordered(Relink(l, later, r), Inserted(l, later, r))
<1> DEFINE m == Relink(l, later, r)
           o == Inserted(l, later, r)
<1>1. l \in [order : Seq(AllRecords), cursor : AllRecords, past : {"none", "prev", "next"}]
  BY DEF ListOfAll
<1>2. m = [l EXCEPT !.order = o, !.past = IF @ = "next" /\ later = {} THEN "none" ELSE @]
  BY DEF Relink
<1> HIDE DEF m, o
<1>3. m = [order |-> o, cursor |-> m.cursor, past |-> m.past]
  BY <1>1, <1>2
<1>4. m.cursor \in AllRecords /\ m.past \in {"none", "prev", "next"}
  BY <1>1, <1>2
<1> QED
  BY <1>3, <1>4 DEF Ordered, m, o

\* Relink puts r last, or before the first upcoming record that is later.
LEMMA RelinkGives ==
  ASSUME NEW s, EntriesOK(s), NEW r \in AllRecords
  PROVE  /\ Relinked(s.list, Relink(s.list, LaterAhead(s, r), r), s.times, r)
         /\ ListOfAll(Relink(s.list, LaterAhead(s, r), r))
<1> DEFINE l == s.list
           later == LaterAhead(s, r)
           m == Relink(l, later, r)
<1>1. ListOfAll(l) /\ s.times \in [AllRecords -> Int]
  BY DEF EntriesOK
<1>2. Ordered(m, Inserted(l, later, r))
  BY <1>1, RelinkOrdered
<1>3. m.cursor = l.cursor /\ m.past = IF l.past = "next" /\ later = {} THEN "none" ELSE l.past
  BY <1>1 DEF Relink, ListOfAll
<1> HIDE DEF m
<1>4. \/ NoneLater(l, s.times, r) /\ PlacedLast(l, m, r) /\ later = {}
      \/ /\ later # {}
         /\ \E q \in AllRecords \ {r} : FirstLater(l, s.times, r, q) /\ PlacedBefore(l, m, r, q)
  BY <1>1, <1>2, InsertedPlaces
<1>5. ListOfAll(m)
  BY <1>4 DEF PlacedLast, PlacedBefore
<1>6. Relinked(l, m, s.times, r)
  BY <1>3, <1>4 DEF Relinked
<1> QED
  BY <1>5, <1>6 DEF m

\* Reschedule leaves r or relinks it.
LEMMA RescheduleGives ==
  ASSUME NEW s, EntriesOK(s), NEW r \in AllRecords
  PROVE  LET e == Reschedule(s, r)
         IN /\ EntriesOK(e) /\ e.times = s.times
            /\ \/ e.abort = "unlinkCurrent" /\ e.list = s.list /\ r = s.list.cursor
               \/ e.abort = s.abort /\ Rescheduled(s.list, e.list, s.times, r)
<1> DEFINE later == LaterAhead(s, r)
           m == Relink(s.list, later, r)
<1>1. ListOfAll(s.list) /\ Relinked(s.list, m, s.times, r) /\ ListOfAll(m)
  BY RelinkGives DEF EntriesOK
<1>2. \/ Reschedule(s, r) = s /\ InPosition(s.list, later, r)
      \/ Reschedule(s, r) = [s EXCEPT !.abort = "unlinkCurrent"] /\ r = s.list.cursor
      \/ Reschedule(s, r) = [s EXCEPT !.list = m] /\ r # s.list.cursor
  BY DEF Reschedule
<1> HIDE DEF m
<1>3. CASE Reschedule(s, r) = s /\ InPosition(s.list, later, r)
  BY <1>3, InPositionStays DEF Rescheduled
<1>4. CASE Reschedule(s, r) = [s EXCEPT !.abort = "unlinkCurrent"] /\ r = s.list.cursor
  BY <1>4 DEF EntriesOK, Aborts
<1>5. CASE Reschedule(s, r) = [s EXCEPT !.list = m] /\ r # s.list.cursor
  BY <1>1, <1>5 DEF EntriesOK, Rescheduled
<1> QED
  BY <1>2, <1>3, <1>4, <1>5

\* Of the record at the cursor.
MovedOn(l, m, times, r) ==
  /\ IsNext(l, m.cursor) /\ m.past = l.past
  /\ \/ NoneLater(l, times, r) /\ PlacedLast(l, m, r)
     \/ \E q \in AllRecords \ {r} :
          FirstLater(l, times, r, q) /\ ~ IsNext(l, q) /\ PlacedBefore(l, m, r, q)

\* Relinking the record at the cursor leaves the cursor on the one that followed.
LEMMA RelinkCurrentGives ==
  ASSUME NEW s, EntriesOK(s), Ahead(s.list) # {},
         ~ InPosition(s.list, LaterAhead(s, s.list.cursor), s.list.cursor)
  PROVE  LET m == RelinkCurrent(s.list, LaterAhead(s, s.list.cursor))
         IN MovedOn(s.list, m, s.times, s.list.cursor) /\ ListOfAll(m)
<1> DEFINE l == s.list
           r == s.list.cursor
           later == LaterAhead(s, r)
           m == RelinkCurrent(l, later)
           n == l.order[Position(l, r) + 1]
<1>1. ListOfAll(l) /\ s.times \in [AllRecords -> Int] /\ r \in AllRecords
  BY DEF EntriesOK, ListOfAll
<1>2. /\ Len(l.order) \in Nat
      /\ \A x \in AllRecords : Position(l, x) \in 1..Len(l.order) /\ l.order[Position(l, x)] = x
      /\ \A i \in 1..Len(l.order) : l.order[i] \in AllRecords /\ Position(l, l.order[i]) = i
  BY <1>1, PositionIs
<1>3. Position(l, r) + 1 \in 1..Len(l.order)
  <2>1. Ahead(l) = Position(l, r) + 1 .. Len(l.order)
    BY DEF Ahead
  <2> QED
    BY <1>1, <1>2, <2>1
<1>4. n \in AllRecords /\ IsNext(l, n)
  BY <1>2, <1>3 DEF IsNext
<1>5. m.cursor = n /\ m.past = l.past /\ m.order = Inserted(l, later, r)
  BY <1>1 DEF RelinkCurrent, ListOfAll
<1>6. Ordered(m, Inserted(l, later, r))
  <2> DEFINE o == Inserted(l, later, r)
  <2>1. l \in [order : Seq(AllRecords), cursor : AllRecords, past : {"none", "prev", "next"}]
    BY <1>1 DEF ListOfAll
  <2>2. m = [l EXCEPT !.order = o, !.cursor = n]
    BY DEF RelinkCurrent
  <2> HIDE DEF m, n, o
  <2>3. m = [order |-> o, cursor |-> m.cursor, past |-> m.past]
    BY <2>1, <2>2
  <2>4. m.cursor \in AllRecords /\ m.past \in {"none", "prev", "next"}
    BY <1>4, <2>1, <2>2
  <2> QED
    BY <2>3, <2>4 DEF Ordered, o
<1> HIDE DEF m, n
<1>7. \/ NoneLater(l, s.times, r) /\ PlacedLast(l, m, r) /\ later = {}
      \/ /\ later # {}
         /\ \E q \in AllRecords \ {r} : /\ FirstLater(l, s.times, r, q) /\ PlacedBefore(l, m, r, q)
                                        /\ Min(later) = Position(l, q)
  BY <1>1, <1>6, InsertedPlaces
<1>8. later # {} => Min(later) # Position(l, l.cursor) + 1
  BY DEF InPosition
<1>9. ListOfAll(m)
  BY <1>7 DEF PlacedLast, PlacedBefore
<1>10. MovedOn(l, m, s.times, r)
  BY <1>4, <1>5, <1>7, <1>8 DEF MovedOn, IsNext
<1> QED
  BY <1>9, <1>10 DEF m

\* Rescheduling the record at the cursor leaves it or moves the cursor on.
LEMMA RescheduleCurrentGives ==
  ASSUME NEW s, EntriesOK(s), NEW r, r = s.list.cursor
  PROVE  LET e == RescheduleCurrent(s, r)
         IN /\ EntriesOK(e) /\ e.times = s.times
            /\ \/ /\ e.abort = "noRecordAhead" /\ e.list = s.list
                  /\ \A x \in AllRecords : ~ Upcoming(s.list, x)
               \/ /\ e.abort = s.abort
                  /\ \/ e.list = s.list /\ Stays(s.list, s.times, r)
                     \/ MovedOn(s.list, e.list, s.times, r)
<1> DEFINE later == LaterAhead(s, r)
           m == RelinkCurrent(s.list, later)
<1>1. r \in AllRecords
  BY DEF EntriesOK, ListOfAll
<1>2. \/ RescheduleCurrent(s, r) = [s EXCEPT !.abort = "noRecordAhead"] /\ Ahead(s.list) = {}
      \/ RescheduleCurrent(s, r) = s /\ InPosition(s.list, later, r)
      \/ /\ RescheduleCurrent(s, r) = [s EXCEPT !.list = m]
         /\ Ahead(s.list) # {} /\ ~ InPosition(s.list, later, r)
  BY DEF RescheduleCurrent
<1> HIDE DEF m
<1>3. CASE RescheduleCurrent(s, r) = [s EXCEPT !.abort = "noRecordAhead"] /\ Ahead(s.list) = {}
  <2>1. \A x \in AllRecords : ~ Upcoming(s.list, x)
    BY <1>3, UpcomingIsAhead DEF EntriesOK
  <2> QED
    BY <1>3, <2>1 DEF EntriesOK, Aborts
<1>4. CASE RescheduleCurrent(s, r) = s /\ InPosition(s.list, later, r)
  BY <1>1, <1>4, InPositionStays
<1>5. CASE /\ RescheduleCurrent(s, r) = [s EXCEPT !.list = m]
           /\ Ahead(s.list) # {} /\ ~ InPosition(s.list, later, r)
  <2>1. MovedOn(s.list, m, s.times, r) /\ ListOfAll(m)
    BY <1>5, RelinkCurrentGives DEF m
  <2> QED
    BY <1>5, <2>1 DEF EntriesOK
<1> QED
  BY <1>2, <1>3, <1>4, <1>5

\* Scheduling an existing record at time t.
LEMMA ScheduleGives ==
  ASSUME NEW s, EntriesOK(s), s.abort = "none", NEW r \in AllRecords, NEW t \in Nat
  PROVE  LET e == ScheduleAt(s, r, t)
         IN /\ EntriesOK(e) /\ e.times = [s.times EXCEPT ![r] = t]
            /\ \/ e.abort = "unlinkCurrent" /\ e.list = s.list /\ r = s.list.cursor
               \/ e.abort = "none" /\ Rescheduled(s.list, e.list, e.times, r)
<1> DEFINE timed == [s EXCEPT !.times[r] = t]
<1>1. EntriesOK(timed) /\ timed.times = [s.times EXCEPT ![r] = t]
      /\ timed.list = s.list /\ timed.abort = "none"
  BY DEF EntriesOK
<1>2. ScheduleAt(s, r, t) = Reschedule(timed, r)
  BY DEF ScheduleAt
<1> HIDE DEF timed
<1> QED
  BY <1>1, <1>2, RescheduleGives

\* Searching for the next or the previous element moves the cursor by one, or
\* flags that it would leave the list.
LEMMA NextGives ==
  ASSUME NEW l, ListOfAll(l)
  PROVE  LET m == RecordSearchNext(l)
         IN /\ ListOfAll(m) /\ m.order = l.order
            /\ \/ m = l /\ l.past # "none"
               \/ /\ m.cursor = l.cursor /\ l.past = "none" /\ m.past = "next"
                  /\ \A x \in AllRecords \ {l.cursor} : Before(l, x, l.cursor)
               \/ l.past = "none" /\ m.past = "none" /\ IsNext(l, m.cursor)
<1>1. /\ Len(l.order) \in Nat /\ l.cursor \in AllRecords
      /\ \A x \in AllRecords : Position(l, x) \in 1..Len(l.order) /\ l.order[Position(l, x)] = x
      /\ \A i \in 1..Len(l.order) : l.order[i] \in AllRecords /\ Position(l, l.order[i]) = i
  BY PositionIs DEF ListOfAll
<1> DEFINE c == Position(l, l.cursor)
<1>2. CASE l.past # "none"
  BY <1>2 DEF RecordSearchNext
<1>3. CASE l.past = "none" /\ l.cursor = Last(l.order)
  <2>1. RecordSearchNext(l) = [l EXCEPT !.past = "next"]
    BY <1>3 DEF RecordSearchNext
  <2>2. c = Len(l.order)
    BY <1>1, <1>3 DEF Last
  <2>3. \A x \in AllRecords \ {l.cursor} : Position(l, x) \in 1..Len(l.order) /\ Position(l, x) # c
    BY <1>1
  <2>4. \A x \in AllRecords \ {l.cursor} : Before(l, x, l.cursor)
    BY <1>1, <2>2, <2>3 DEF Before
  <2> QED
    BY <1>3, <2>1, <2>4 DEF ListOfAll
<1>4. CASE l.past = "none" /\ l.cursor # Last(l.order)
  <2>1. RecordSearchNext(l) = [l EXCEPT !.cursor = l.order[c + 1]]
    BY <1>4 DEF RecordSearchNext
  <2>2. c \in 1..Len(l.order) /\ c # Len(l.order)
    BY <1>1, <1>4 DEF Last
  <2>3. c + 1 \in 1..Len(l.order)
    BY <1>1, <2>2
  <2>4. l.order[c + 1] \in AllRecords /\ IsNext(l, l.order[c + 1])
    BY <1>1, <2>3 DEF IsNext
  <2> QED
    BY <1>4, <2>1, <2>4 DEF ListOfAll
<1> QED
  BY <1>2, <1>3, <1>4

\* The same for the previous element.
LEMMA PrevGives ==
  ASSUME NEW l, ListOfAll(l), l.past = "none"
  PROVE  LET m == RecordSearchPrev(l)
         IN /\ ListOfAll(m) /\ m.order = l.order
            /\ \/ m.cursor = l.cursor /\ m.past = "prev"
               \/ m.past = "none" /\ Position(l, m.cursor) + 1 = Position(l, l.cursor)
<1>1. /\ Len(l.order) \in Nat /\ l.cursor \in AllRecords
      /\ \A x \in AllRecords : Position(l, x) \in 1..Len(l.order) /\ l.order[Position(l, x)] = x
      /\ \A i \in 1..Len(l.order) : l.order[i] \in AllRecords /\ Position(l, l.order[i]) = i
  BY PositionIs DEF ListOfAll
<1> DEFINE c == Position(l, l.cursor)
<1>3. CASE l.cursor = Head(l.order)
  <2>1. RecordSearchPrev(l) = [l EXCEPT !.past = "prev"]
    BY <1>3 DEF RecordSearchPrev
  <2> QED
    BY <1>3, <2>1 DEF ListOfAll
<1>4. CASE l.cursor # Head(l.order)
  <2>1. RecordSearchPrev(l) = [l EXCEPT !.cursor = l.order[c - 1]]
    BY <1>4 DEF RecordSearchPrev
  <2>2. c \in 1..Len(l.order) /\ c # 1
    <3>1. l.order[1] = Head(l.order)
      BY <1>1 DEF ListOfAll
    <3> QED
      BY <1>1, <1>4, <3>1
  <2>3. c - 1 \in 1..Len(l.order)
    BY <1>1, <2>2
  <2>4. l.order[c - 1] \in AllRecords /\ Position(l, l.order[c - 1]) + 1 = c
    BY <1>1, <2>2, <2>3
  <2> QED
    BY <2>1, <2>4 DEF ListOfAll
<1> QED
  BY <1>3, <1>4

-----------------------------------------------------------------------------
(* The types of the list, the times and the clocks.                        *)

\* The list holds every record once, and times and clocks are of their types.
ListTyped ==
  /\ ListOfAll(list)
  /\ simTime \in [AllRecords -> Nat]
  /\ now \in Nat
  /\ timeout \in [Timers -> Durations \cup {0}]
  /\ advanced \in BOOLEAN
  /\ abort \in Aborts
  /\ clock \in [Clocks -> ClockStates]

\* Step7 runs processes without an interface, Step8 those with one.
Runners ==
  /\ phase = "Run" /\ current # NoProcess => current \in Software
  /\ phase = "Step8" /\ current # NoProcess => current \in Synchronous

\* The time to the next edge is a number.
LEMMA EdgeIncrTyped ==
  ASSUME NEW clocks \in [Clocks -> ClockStates], NEW r \in Clocked
  PROVE  EdgeIncr(clocks, r) \in Nat
<1>1. ASSUME NEW c \in Clocks, NEW sens
      PROVE  SimTimeIncrForNextClockEdge(clocks[c], c, sens) \in Nat
  <2> DEFINE k == clocks[c]
             f == IF k.advanced THEN FromEdge(k.bit, sens) ELSE FromStart(StartPhase[c], sens)
             h == HalfPeriod[c]
  <2>1. h \in Nat
    BY ClockAssumption
  <2>2. f \in {0, 1, 2}
    <3>1. FromEdge(k.bit, sens) \in {0, 1, 2}
      BY DEF FromEdge
    <3>2. FromStart(StartPhase[c], sens) \in {0, 1, 2}
      <4>1. StartPhase[c] \in ClockPhases
        BY ClockAssumption
      <4> QED
        BY <4>1 DEF FromStart, ClockPhases
    <3> QED
      BY <3>1, <3>2
  <2>3. SimTimeIncrForNextClockEdge(k, c, sens) = h * f
    BY DEF SimTimeIncrForNextClockEdge
  <2> HIDE DEF f, h
  <2>4. h * f \in Nat
    BY <2>1, <2>2
  <2> QED
    BY <2>3, <2>4
<1>2. r \notin Clocks => r \in Synchronous /\ ClockOf[r] \in Clocks
  BY SchedulerAssumption DEF Clocked
<1> QED
  BY <1>1, <1>2 DEF EdgeIncr

\* A woken process gets a time that is a number.
LEMMA WakeTimeTyped ==
  ASSUME ListTyped, NEW p \in Processes
  PROVE  WakeTime(p) \in Nat
<1>1. p \in Synchronous => EdgeIncr(clock, p) \in Nat
  BY EdgeIncrTyped DEF ListTyped, Clocked
<1> QED
  BY <1>1 DEF WakeTime, ListTyped

\* Entries is as ScheduleTheEntry finds it.
LEMMA EntriesTyped ==
  ASSUME ListTyped
  PROVE  EntriesOK(Entries) /\ Entries.list = list /\ Entries.times = simTime /\ Entries.abort = abort
BY DEF ListTyped, EntriesOK, Entries

\* Taking over what scheduling has computed keeps the types.
LEMMA TakeTyped ==
  ASSUME NEW s, EntriesOK(s), Take(s)
  PROVE  ListOfAll(list)' /\ simTime' \in [AllRecords -> Nat] /\ abort' \in Aborts
BY DEF EntriesOK, Take, ListOfAll, Aborts, AllRecords

\* Scheduling an entry keeps the types.
LEMMA ScheduleTyped ==
  ASSUME NEW s, EntriesOK(s), NEW r \in AllRecords, NEW t \in Nat
  PROVE  EntriesOK(ScheduleAt(s, r, t))
<1>1. CASE s.abort = "none"
  BY <1>1, ScheduleGives
<1>2. CASE s.abort # "none"
  BY <1>2 DEF ScheduleAt
<1> QED
  BY <1>1, <1>2

\* Waking processes keeps them.
LEMMA WokenTyped ==
  ASSUME ListTyped, NEW ps \in Seq(Processes), Len(ps) \in {1, 2}, ScheduleWoken(ps)
  PROVE  ListTyped'
<1>1. Processes \subseteq AllRecords /\ ps[1] \in Processes /\ (Len(ps) # 1 => ps[2] \in Processes)
  BY LenProperties DEF AllRecords, Records
<1>2. CASE fault' = "none"
  <2> DEFINE first == ScheduleAt(Entries, ps[1], WakeTime(ps[1]))
             second == ScheduleAt(first, ps[2], WakeTime(ps[2]))
  <2>1. EntriesOK(first)
    BY <1>1, EntriesTyped, WakeTimeTyped, ScheduleTyped
  <2> HIDE DEF first
  <2>2. Len(ps) # 1 => EntriesOK(second)
    BY <1>1, <2>1, WakeTimeTyped, ScheduleTyped
  <2> HIDE DEF second
  <2>3. Take(IF Len(ps) = 1 THEN first ELSE second)
    BY <1>2 DEF ScheduleWoken, first, second
  <2>4. ListOfAll(list)' /\ simTime' \in [AllRecords -> Nat] /\ abort' \in Aborts
    BY <2>1, <2>2, <2>3, TakeTyped
  <2> QED
    BY <2>4 DEF ListTyped, ScheduleWoken
<1>3. CASE fault' # "none"
  BY <1>3 DEF ListTyped, ScheduleWoken, ListOfAll, Position
<1> QED
  BY <1>2, <1>3

\* Moving the cursor keeps them.
LEMMA MoveOnTyped ==
  ASSUME ListTyped, NEW l, ListOfAll(l), MoveOn(l)
  PROVE  ListTyped'
BY DEF ListTyped, MoveOn, ListOfAll

\* So does a step that leaves the scheduler alone.
LEMMA SchedUnchangedTyped ==
  ASSUME ListTyped, UNCHANGED schedVars
  PROVE  ListTyped'
BY DEF ListTyped, ListOfAll, schedVars

\* Scheduling a record for its next edge keeps them.
LEMMA ToNextEdgeTyped ==
  ASSUME ListTyped, NEW r \in Clocked, r = list.cursor, NEW clocks \in [Clocks -> ClockStates],
         ToNextEdge(r, clocks), clock' = clocks
  PROVE  ListTyped'
<1> DEFINE s == [Entries EXCEPT !.times[r] = now + EdgeIncr(clocks, r)]
<1>1. now + EdgeIncr(clocks, r) \in Nat /\ r \in AllRecords
  <2>1. EdgeIncr(clocks, r) \in Nat /\ now \in Nat
    BY EdgeIncrTyped DEF ListTyped
  <2>2. r \in AllRecords
    BY ProcessSyncAssumption DEF Clocked, AllRecords, Records
  <2> QED
    BY <2>1, <2>2
<1>2. EntriesOK(s) /\ s.list = list
  BY <1>1, EntriesTyped DEF EntriesOK
<1> HIDE DEF s
<1>3. EntriesOK(RescheduleCurrent(s, r))
  BY <1>2, RescheduleCurrentGives
<1>4. Take(RescheduleCurrent(s, r))
  BY DEF ToNextEdge, s
<1>5. ListOfAll(list)' /\ simTime' \in [AllRecords -> Nat] /\ abort' \in Aborts
  BY <1>3, <1>4, TakeTyped
<1> QED
  BY <1>5 DEF ListTyped, ToNextEdge

\* Clocks that tick, are suspended or set running stay clocks.
LEMMA ClocksTyped ==
  ASSUME clock \in [Clocks -> ClockStates], NEW c \in Clocks, Tick(c) \/ Suspend(c) \/ Resume(c)
  PROVE  clock' \in [Clocks -> ClockStates]
<1> DEFINE k == clock[c]
<1>1. k \in ClockStates
  OBVIOUS
<1>2. ASSUME NEW j \in ClockStates, clock' = [clock EXCEPT ![c] = j]
      PROVE  clock' \in [Clocks -> ClockStates]
  BY <1>2
<1> HIDE DEF k
<1>3. CASE Tick(c)
  <2> DEFINE rises == k.bit = 0
             j == [k EXCEPT !.bit = IF rises THEN 1 ELSE 0,
                     !.phase = IF rises THEN "JustAfterPositiveEdge" ELSE "JustAfterNegativeEdge",
                     !.edge = IF rises THEN "PositiveEdge" ELSE "NegativeEdge",
                     !.advanced = TRUE]
  <2>1. [k EXCEPT !.state = "Suspended"] \in ClockStates
    BY <1>1 DEF ClockStates
  <2>2. j \in ClockStates
    BY <1>1 DEF ClockStates, ClockPhases
  <2>3. \/ clock' = [clock EXCEPT ![c] = [k EXCEPT !.state = "Suspended"]]
        \/ clock' = [clock EXCEPT ![c] = j]
    BY <1>3 DEF Tick, k
  <2> HIDE DEF j
  <2> QED
    BY <1>2, <2>1, <2>2, <2>3
<1>4. CASE Suspend(c)
  <2>1. [k EXCEPT !.suspend = TRUE] \in ClockStates
    BY <1>1 DEF ClockStates
  <2>2. clock' = [clock EXCEPT ![c] = [k EXCEPT !.suspend = TRUE]]
    BY <1>4 DEF Suspend, k
  <2> QED
    BY <1>2, <2>1, <2>2
<1>5. CASE Resume(c)
  <2>1. Started(k.phase, k.suspend) \in ClockStates
    BY <1>1 DEF ClockStates, Started, EdgeAt, BitAt
  <2>2. clock' = [clock EXCEPT ![c] = Started(k.phase, k.suspend)]
    BY <1>5 DEF Resume, k
  <2> QED
    BY <1>2, <2>1, <2>2
<1> QED
  BY <1>3, <1>4, <1>5

\* The types hold at the start.
LEMMA ListTypedInit == SchedInit => ListTyped
<1> SUFFICES ASSUME SchedInit PROVE ListTyped
  OBVIOUS
<1>1. clock \in [Clocks -> ClockStates]
  <2>1. ASSUME NEW c \in Clocks PROVE Started(StartPhase[c], FALSE) \in ClockStates
    BY ClockAssumption DEF ClockStates, Started, EdgeAt, BitAt
  <2> QED
    BY <2>1 DEF SchedInit, ClockInit
<1>2. simTime \in [AllRecords -> Nat]
  <2>1. \A r \in Clocked : EdgeIncr(clock, r) \in Nat
    BY <1>1, EdgeIncrTyped
  <2> QED
    BY <2>1 DEF SchedInit
<1>3. PICK o \in SetToSeqs(AllRecords) : list = ListOf(o)
  BY DEF SchedInit
<1>4. ListOfAll(list)
  <2>1. /\ o \in Seq(AllRecords)
        /\ \A i, j \in 1..Len(o) : o[i] = o[j] => i = j
        /\ \A r \in AllRecords : \E i \in 1..Len(o) : o[i] = r
    BY PermutationsAreLists
  <2>2. PICK r : r \in AllRecords
    BY SchedulerAssumption DEF AllRecords
  <2>3. o # <<>> /\ Head(o) \in AllRecords
    BY <2>1, <2>2, HeadTailProperties, EmptySeq
  <2> QED
    BY <1>3, <2>1, <2>3 DEF ListOf, ListOfAll
<1> QED
  BY <1>1, <1>2, <1>4 DEF SchedInit, ListTyped, Aborts

\* Each step keeps the types.
LEMMA ListTypedStep ==
  ASSUME TypeOK, PairedLists, CursorInv, Runners, ListTyped, [SchedNext]_allVars
  PROVE  ListTyped'
<1>1. ListOfAll(RecordSearchNext(list)) /\ (list.past = "none" => ListOfAll(RecordSearchPrev(list)))
      /\ ListOfAll(list)
  BY NextGives, PrevGives DEF ListTyped
<1>2. Synchronous \subseteq Processes
  BY ProcessSyncAssumption
<1>3. CASE RunRecord \/ ProcessCalls \/ StopRunning \/ FlushOn \/ EndDeltaCycle \/ PassOver \/ EdgeDone
  <2>1. \/ UNCHANGED schedVars
        \/ MoveOn(RecordSearchNext(list))
        \/ list.past = "none" /\ MoveOn(RecordSearchPrev(list))
        \/ MoveOn(list)
    BY <1>3 DEF RunRecord, ProcessCalls, StopRunning, FlushOn, EndDeltaCycle, PassOver, EdgeDone
  <2> QED
    BY <1>1, <2>1, MoveOnTyped, SchedUnchangedTyped
<1>4. CASE ClockCalls
  <2>1. clock' \in [Clocks -> ClockStates]
    BY <1>4, ClocksTyped, SchedulerAssumption DEF ClockCalls, ListTyped
  <2> QED
    BY <1>4, <2>1 DEF ClockCalls, ListTyped, ListOfAll
<1>5. CASE StartTimer
  <2>1. PICK t \in Timers :
          /\ \/ \E d \in Durations : timeout' = [timeout EXCEPT ![t] = d]
             \/ UNCHANGED timeout
          /\ Take(ScheduleAt(Entries, t, now + timeout'[t]))
          /\ UNCHANGED <<now, advanced, clock>>
    BY <1>5 DEF StartTimer
  <2>2. timeout' \in [Timers -> Durations \cup {0}]
    BY <2>1 DEF ListTyped
  <2>3. now + timeout'[t] \in Nat /\ t \in AllRecords
    <3>1. timeout'[t] \in Nat
      <4>1. Durations \subseteq Nat
        BY SchedulerAssumption
      <4>2. timeout'[t] \in Durations \cup {0}
        BY <2>2
      <4>3. Durations \cup {0} \subseteq Nat
        BY <4>1
      <4> QED
        BY <4>2, <4>3, Zenon
    <3>2. now \in Nat /\ t \in AllRecords
      BY DEF ListTyped, AllRecords, Records
    <3> QED
      BY <3>1, <3>2
  <2>4. ListOfAll(list)' /\ simTime' \in [AllRecords -> Nat] /\ abort' \in Aborts
    BY <2>1, <2>3, EntriesTyped, ScheduleTyped, TakeTyped
  <2> QED
    BY <2>1, <2>2, <2>4 DEF ListTyped
<1>6. CASE WakeProcesses
  <2>1. ASSUME NEW p \in Processes, ScheduleWoken(<<p>>) PROVE ListTyped'
    <3>1. <<p>> \in Seq(Processes) /\ Len(<<p>>) \in {1, 2}
      OBVIOUS
    <3> QED
      BY <2>1, <3>1, WokenTyped
  <2>2. ASSUME NEW p \in Processes, NEW q \in Processes, ScheduleWoken(<<p, q>>) PROVE ListTyped'
    <3>1. <<p, q>> \in Seq(Processes) /\ Len(<<p, q>>) \in {1, 2}
      OBVIOUS
    <3> QED
      BY <2>2, <3>1, WokenTyped
  <2>3. ASSUME NEW s \in Semaphores, NEW i \in DOMAIN getPending[s], ScheduleWoken(<<Getter(s, i)>>)
        PROVE  ListTyped'
    BY <2>1, <2>3, PendingEntries DEF Getter, TypeOK
  <2>4. ASSUME NEW s \in Semaphores, SemaphoreFlushPut(s), ScheduleWokenByPut(Head(putPending[s]).proc)
        PROVE  ListTyped'
    <3>1. Head(putPending[s]).proc \in Processes
      BY <2>4, PendingEntries DEF TypeOK, SemaphoreFlushPut
    <3>2. ASSUME abort' = "notLater", UNCHANGED <<list, simTime, now, timeout, advanced, clock>>
          PROVE  ListTyped'
      BY <3>2 DEF ListTyped, ListOfAll, Aborts
    <3> QED
      BY <2>1, <2>4, <3>1, <3>2 DEF ScheduleWokenByPut
  <2>5. ASSUME NEW m \in Mailboxes, NEW i \in DOMAIN getters[m], MailboxTransfer(m, i),
               ScheduleWoken(<<Head(putters[m]), getters[m][i]>>)
        PROVE  ListTyped'
    BY <2>2, <2>5, TransferTyped
  <2>6. ASSUME NEW e \in Events, EventFlush(e), ScheduleWoken(<<Last(waiting[e])>>)
        PROVE  ListTyped'
    BY <2>1, <2>6, ListenersTyped DEF EventFlush
  <2>7. ASSUME NEW t \in Timers, NEW i \in DOMAIN watchers[t], ScheduleWoken(<<watchers[t][i]>>)
        PROVE  ListTyped'
    BY <2>1, <2>7, WatcherTyped
  <2> QED
    BY <1>6, <2>3, <2>4, <2>5, <2>6, <2>7 DEF WakeProcesses
<1>7. CASE AdvanceTime
  <2> DEFINE next == RecordSearchNext(list)
  <2>1. list' = next /\ UNCHANGED <<simTime, timeout, clock>>
    BY <1>7 DEF AdvanceTime
  <2>4. \/ UNCHANGED <<now, advanced, abort>>
        \/ /\ now' = simTime[next.cursor] /\ abort' \in {"none", "noProgress"}
           /\ advanced' = (advanced \/ simTime[next.cursor] < TimeMax)
    BY <1>7 DEF AdvanceTime
  <2>2. next.cursor \in AllRecords
    BY <1>1 DEF ListOfAll
  <2>3. now' \in Nat /\ advanced' \in BOOLEAN /\ abort' \in Aborts
    BY <2>2, <2>4 DEF ListTyped, Aborts
  <2> QED
    BY <1>1, <2>1, <2>3 DEF ListTyped, ListOfAll
<1>8. CASE ClockTicks
  <2>1. PICK c \in Clocks : DueOnEdge(c) /\ Tick(c) /\ ToNextEdge(c, clock')
    BY <1>8 DEF ClockTicks
  <2>2. clock' \in [Clocks -> ClockStates]
    BY <2>1, ClocksTyped DEF ListTyped
  <2> QED
    BY <2>1, <2>2, ToNextEdgeTyped DEF DueOnEdge, Clocked
<1>9. CASE RunSynchronous
  <2>1. CASE UNCHANGED schedVars
    BY <2>1, SchedUnchangedTyped
  <2>2. CASE ReturnOnEdge /\ ToNextEdge(current, clock) /\ UNCHANGED <<agentVars, clock>>
    <3>1. current = list.cursor
      BY <2>2 DEF CursorInv, RunsAtCursor, ReturnOnEdge
    <3>2. current \in Clocked
      BY <2>2 DEF Runners, Software, ReturnOnEdge, OnClock, Clocked, TypeOK, SyncTypeOK
    <3> QED
      BY <2>2, <3>1, <3>2, ToNextEdgeTyped DEF ListTyped
  <2> QED
    BY <1>9, <2>1, <2>2 DEF RunSynchronous
<1>10. CASE UNCHANGED allVars
  BY <1>10, SchedUnchangedTyped DEF allVars
<1> QED
  BY <1>3, <1>4, <1>5, <1>6, <1>7, <1>8, <1>9, <1>10 DEF SchedNext

\* Each step keeps what runs where.
LEMMA RunnersStep ==
  ASSUME CursorInv, Runners, [SchedNext]_allVars
  PROVE  Runners'
<1>1. UNCHANGED <<phase, current>> => Runners'
  BY DEF Runners
<1>2. current' = NoProcess => Runners'
  BY DEF Runners
<1>3. CASE RunRecord
  BY <1>2, <1>3 DEF RunRecord, Dispatch, Return, DispatchIdle, TimerExecute, Running, runVars, loopVars, Runners
<1>4. CASE ProcessCalls
  <2>1. CASE NextReason
    BY <1>1, <2>1 DEF NextReason, loopVars
  <2>2. ASSUME NEW w \in ClientWaits, Wait(w) PROVE Runners'
    BY <1>1, <2>2 DEF Wait, loopVars
  <2>3. CASE SemaphoreCall
    BY <1>1, <2>3 DEF SemaphoreCall, SemaphoreGet, SemaphorePut, loopVars
  <2>4. CASE MailboxCall
    BY <1>1, <2>4 DEF MailboxCall, MailboxGet, MailboxPut, loopVars
  <2>5. CASE EventCall
    BY <1>1, <2>5 DEF EventCall, EventGet, EventSet, loopVars
  <2>6. ASSUME NEW t \in Timers, TimerWatch(t) \/ TimerWait(t) \/ TimerStop(t) PROVE Runners'
    BY <1>1, <2>6 DEF TimerWatch, TimerWait, TimerStop, loopVars
  <2> QED
    BY <1>4, <2>1, <2>2, <2>3, <2>4, <2>5, <2>6 DEF ProcessCalls
<1>5. CASE StartTimer
  BY <1>1, <1>5 DEF StartTimer, TimerStart, TimerRestart, loopVars
<1>6. CASE StopRunning \/ EdgeDone
  BY <1>2, <1>6 DEF StopRunning, RunEnds, Enter, EdgeDone, EdgeEnds, runVars
<1>7. CASE RunSynchronous
  BY <1>2, <1>7 DEF RunSynchronous, ExecuteOnEdge, ReturnOnEdge, OnClock, loopVars, Runners
<1>8. CASE ClockCalls \/ ClockTicks \/ PassOver \/ UNCHANGED allVars
  BY <1>1, <1>8 DEF ClockCalls, ClockTicks, PassOver, allVars, vars, baseVars, runVars, loopVars
<1>9. ASSUME phase \notin {"Run", "Step8"}, current' = current PROVE Runners'
  BY <1>2, <1>9, SMTT(40) DEF CursorInv
<1>10. CASE WakeProcesses
  BY <1>9, <1>10, ZenonT(60) DEF WakeProcesses, SemaphoreFlushGet, SemaphoreFlushPut, MailboxTransfer,
     EventFlush, TimerFlush, AtTimer, Flushing, runVars
<1>11. CASE FlushOn
  BY <1>9, <1>11 DEF FlushOn, SemaphoreFlushGetDone, SemaphoreFlushPutDone, MailboxNoPair,
     EventFlushUnheard, TimerFlushDone, AtTimer, Flushing, runVars,
     TimersEnd, EventsEnd, SemGetsEnd, SemPutsEnd, MailboxesEnd, Enter
<1>12. CASE EndDeltaCycle \/ AdvanceTime
  BY <1>9, <1>12 DEF EndDeltaCycle, AdvanceTime, Advance, FlushProcessesToBlock, Abort, runVars
<1> QED
  BY <1>3, <1>4, <1>5, <1>6, <1>7, <1>8, <1>10, <1>11, <1>12 DEF SchedNext

\* The part of the invariant that no order is needed for.
ListInv == TypeOK /\ PairedLists /\ CursorInv /\ Runners /\ ListTyped

\* It holds in every reachable state.
LEMMA ListInvariant == SchedSpec => []ListInv
<1>1. SchedInit => ListInv
  <2>1. SchedInit => Init /\ Runners
    BY DEF SchedInit, Init, ProcessSyncInit, Runners
  <2> QED
    BY <2>1, TypeInit, CursorInit, ListTypedInit DEF ListInv
<1>2. ListInv /\ [SchedNext]_allVars => ListInv'
  BY SchedulerStep, TypeStep, CursorStep, RunnersStep, ListTypedStep DEF ListInv
<1> QED
  BY <1>1, <1>2, PTL DEF SchedSpec

\* The list holds every record once, times are numbers, clocks are clocks.
THEOREM SchedulerListTyped == SchedSpec => []SchedTypeOK
<1>1. ListInv => SchedTypeOK
  BY PermutationsAreLists DEF ListInv, ListTyped, ListOfAll, SchedTypeOK
<1> QED
  BY <1>1, ListInvariant, PTL

-----------------------------------------------------------------------------
(* The process list is in the order of time, and time moves forward.       *)
(* Scheduler::Step7 never looks for the record that is due: it takes the   *)
(* next one of the list, and relies on ScheduleTheEntry having put every   *)
(* record where it belongs.  What is proved is that it has, through every  *)
(* step: each step of Scheduler.tla is first shown to be one of a dozen    *)
(* kinds, by what it does to the list, and each kind to keep the order.    *)

-----------------------------------------------------------------------------
(* The order of the times, and what scheduling a record does to it.        *)

\* The regions: clocks, edges, levels, timers, software.
LEMMA RegionTyped ==
  ASSUME NEW r
  PROVE  /\ Region(r) \in 1..5
         /\ r \in Clocks => Region(r) = 1
         /\ r \in Synchronous => Region(r) <= 3
         /\ r \in Synchronous /\ r \notin Clocks => Region(r) > 1
         /\ r \in Timers \cup Software => Region(r) > 3
<1>1. Region(r) = IF r \in Clocks THEN 1
                  ELSE IF r \in Synchronous
                    THEN IF SensitiveTo[r] \in {"PositiveLevel", "NegativeLevel"} THEN 3 ELSE 2
                  ELSE IF r \in Timers THEN 4 ELSE 5
  <2>1. r \in Clocks => r \notin Synchronous /\ r \notin Timers
    BY SchedulerAssumption, ProcessSyncAssumption DEF Records
  <2>2. r \in Synchronous => r \notin Timers
    BY ProcessSyncAssumption
  <2> QED
    BY <2>1, <2>2 DEF Region
<1>2. r \in Timers \cup Software => r \notin Clocks /\ r \notin Synchronous
  BY SchedulerAssumption, ProcessSyncAssumption DEF Records, Software
<1> QED
  BY <1>1, <1>2

\* If q is later than r, and not later than y, then r is not later than y.
LEMMA LaterIsOrder ==
  ASSUME NEW times \in [AllRecords -> Nat], NEW q \in AllRecords, NEW r \in AllRecords,
         NEW y \in AllRecords, Later(times, q, r), q = y \/ ~ Later(times, q, y)
  PROVE  ~ Later(times, r, y)
<1>1. /\ times[q] \in Nat /\ times[r] \in Nat /\ times[y] \in Nat
      /\ Region(q) \in 1..5 /\ Region(r) \in 1..5 /\ Region(y) \in 1..5
  BY RegionTyped
<1> QED
  BY <1>1 DEF Later

\* A new time of r changes no comparison of two others.
LEMMA OthersCompare ==
  ASSUME NEW times \in [AllRecords -> Nat], NEW r \in AllRecords, NEW t,
         NEW x \in AllRecords \ {r}, NEW y \in AllRecords \ {r}
  PROVE  Later([times EXCEPT ![r] = t], x, y) <=> Later(times, x, y)
BY DEF Later

\* r stays, or is put where it belongs.
InItsPlace(l, m, times, r) ==
  \/ m = l /\ Stays(l, times, r)
  \/ NoneLater(l, times, r) /\ PlacedLast(l, m, r)
  \/ \E q \in AllRecords \ {r} : FirstLater(l, times, r, q) /\ PlacedBefore(l, m, r, q)

\* No x of C is before a y of S and later than it.
SortedOn(l, times, C, S) == \A x \in C, y \in S : Before(l, x, y) => ~ Later(times, x, y)

\* An element that is late at its new place can only be one that stayed.
LEMMA ScheduledInOrder ==
  ASSUME NEW l, ListOfAll(l), NEW m, NEW r \in AllRecords,
         NEW times \in [AllRecords -> Nat], NEW t \in Nat,
         NEW after, after = [times EXCEPT ![r] = t],
         InItsPlace(l, m, after, r),
         NEW C \in SUBSET AllRecords, NEW C2 \in SUBSET AllRecords,
         NEW S \in SUBSET AllRecords, NEW S2 \in SUBSET S,
         SortedOn(l, times, C, S),
         C2 \subseteq C \cup {r},
         \A x \in AllRecords : Upcoming(l, x) => x \in C,
         \A x \in C \ {r} : Upcoming(l, x) \/ (x = l.cursor /\ ~ Later(after, x, r)),
         r \in C2 /\ m = l => Upcoming(l, r) \/ r = l.cursor,
         r \in S2 /\ Upcoming(l, r) => \A q \in AllRecords : IsNext(l, q) => ~ Later(after, q, r)
  PROVE  SortedOn(m, after, C2, S2)
<1>1. after \in [AllRecords -> Nat] /\ after \in [AllRecords -> Int]
  OBVIOUS
<1>2. ASSUME NEW x \in AllRecords \ {r}, NEW y \in AllRecords \ {r}
      PROVE  Later(after, x, y) <=> Later(times, x, y)
  BY OthersCompare
<1>3. ASSUME NEW x \in C2 \ {r}, NEW y \in S2 \ {r}, Before(l, x, y) PROVE ~ Later(after, x, y)
  BY <1>2, <1>3 DEF SortedOn
<1>4. l.cursor \in AllRecords
  BY DEF ListOfAll
\* What comes from q on, q being later than r, is not sooner than r.
<1>5. ASSUME NEW q \in AllRecords \ {r}, Upcoming(l, q), Later(after, q, r),
             NEW y \in S2 \ {r}, y = q \/ Before(l, q, y)
      PROVE  ~ Later(after, r, y)
  <2>1. y # q => ~ Later(after, q, y)
    BY <1>2, <1>5 DEF SortedOn
  <2> QED
    BY <1>1, <1>5, <2>1, LaterIsOrder
<1> DEFINE A(x, y) == Before(l, x, y)
           B(x, y) == Before(m, x, y)
           U(x)    == Upcoming(l, x)
<1>o. \A x, y, z \in AllRecords :
        /\ ~ A(x, x)
        /\ A(x, y) => ~ A(y, x)
        /\ A(x, y) /\ A(y, z) => A(x, z)
        /\ x # y => A(x, y) \/ A(y, x)
  BY BeforeIsOrder
<1>u. \A x \in AllRecords : U(x) <=> l.past = "none" /\ A(l.cursor, x)
  BY DEF Upcoming
<1>n. ASSUME NEW q \in AllRecords
      PROVE  IsNext(l, q) <=> A(l.cursor, q) /\ \A x \in AllRecords : A(l.cursor, x) => x = q \/ A(q, x)
  BY NextIsFirst
<1> HIDE DEF A, B, U
<1>6. CASE m = l /\ NoneLater(l, after, r) /\ \A x \in AllRecords \ {r} : A(x, r)
  <2>1. ASSUME NEW x \in C2 \ {r}, r \in S2 PROVE ~ Later(after, x, r)
    BY <1>6 DEF NoneLater, U
  <2>2. ASSUME NEW x \in C2, NEW y \in S2, A(x, y) PROVE ~ Later(after, x, y)
    <3>1. x # r
      BY <1>6, <1>o, <2>2
    <3> QED
      BY <1>3, <2>1, <2>2, <3>1 DEF A
  <2> QED
    BY <1>6, <2>2 DEF SortedOn, A
<1>7. ASSUME m = l, NEW q \in AllRecords, FirstLater(l, after, r, q), IsNext(l, q)
      PROVE  SortedOn(m, after, C2, S2)
  <2>1. q # r
    BY <1>1, <1>7, NotLaterThanItself DEF FirstLater
  <2>2. /\ Later(after, q, r) /\ U(q) /\ l.past = "none"
        /\ \A x \in AllRecords : A(l.cursor, x) => x = q \/ A(q, x)
    BY <1>7, <1>n, <1>u DEF FirstLater, U
  <2>3. ASSUME NEW x \in C2 \ {r}, r \in S2, A(x, r) PROVE ~ Later(after, x, r)
    <3>1. CASE U(x)
      BY <1>7, <1>o, <1>u, <1>4, <2>2, <2>3, <3>1 DEF U
    <3>2. CASE ~ U(x)
      BY <2>3, <3>2 DEF U
    <3> QED
      BY <3>1, <3>2
  <2>4. ASSUME r \in C2, NEW y \in S2 \ {r}, A(r, y) PROVE ~ Later(after, r, y)
    <3>1. r = l.cursor \/ A(l.cursor, r)
      BY <1>7, <1>u, <2>4 DEF U
    <3>2. y = q \/ A(q, y)
      BY <1>4, <1>o, <2>2, <2>4, <3>1
    <3> QED
      BY <1>5, <2>1, <2>2, <3>2 DEF U, A
  <2>5. ASSUME NEW x \in C2, NEW y \in S2, A(x, y) PROVE ~ Later(after, x, y)
    <3>1. CASE x = r
      BY <1>o, <2>4, <2>5, <3>1
    <3>2. CASE x # r /\ y = r
      BY <2>3, <2>5, <3>2
    <3>3. CASE x # r /\ y # r
      BY <1>3, <2>5, <3>3 DEF A
    <3> QED
      BY <3>1, <3>2, <3>3
  <2> QED
    BY <1>7, <2>5 DEF SortedOn, A
<1>8. ASSUME SameOthers(l, m, r), ListOfAll(m), NoneLater(l, after, r),
             \A x \in AllRecords \ {r} : B(x, r)
      PROVE  SortedOn(m, after, C2, S2)
  <2>o. \A x, y \in AllRecords : ~ B(x, x) /\ (B(x, y) => ~ B(y, x))
    BY <1>8, BeforeIsOrder DEF B
  <2>1. ASSUME NEW x \in C2 \ {r}, r \in S2 PROVE ~ Later(after, x, r)
    BY <1>8 DEF NoneLater, U
  <2>2. ASSUME NEW x \in C2, NEW y \in S2, B(x, y) PROVE ~ Later(after, x, y)
    <3>1. x # r
      BY <1>8, <2>o, <2>2
    <3>2. CASE y = r
      BY <2>1, <3>1, <3>2
    <3>3. CASE y # r
      BY <1>3, <1>8, <2>2, <3>1, <3>3 DEF SameOthers, B
    <3> QED
      BY <3>2, <3>3
  <2> QED
    BY <2>2 DEF SortedOn, B
<1>9. ASSUME NEW q \in AllRecords \ {r}, FirstLater(l, after, r, q), PlacedBefore(l, m, r, q)
      PROVE  SortedOn(m, after, C2, S2)
  <2>o. \A x, y \in AllRecords : ~ B(x, x)
    BY <1>9, BeforeIsOrder DEF B, PlacedBefore
  <2>1. ASSUME NEW x \in C2 \ {r}, r \in S2, B(x, r) PROVE ~ Later(after, x, r)
    <3>1. A(x, q)
      BY <1>9, <2>1 DEF PlacedBefore, A, B
    <3> QED
      BY <1>9, <3>1 DEF FirstLater, A
  <2>2. ASSUME r \in C2, NEW y \in S2 \ {r}, B(r, y) PROVE ~ Later(after, r, y)
    <3>1. y = q \/ A(q, y)
      BY <1>9, <1>o, <2>2 DEF PlacedBefore, A, B
    <3> QED
      BY <1>5, <1>9, <3>1 DEF FirstLater, A
  <2>3. ASSUME NEW x \in C2 \ {r}, NEW y \in S2 \ {r}, B(x, y) PROVE ~ Later(after, x, y)
    BY <1>3, <1>9, <2>3 DEF PlacedBefore, SameOthers, B
  <2>4. ASSUME NEW x \in C2, NEW y \in S2, B(x, y) PROVE ~ Later(after, x, y)
    BY <2>o, <2>1, <2>2, <2>3, <2>4
  <2> QED
    BY <2>4 DEF SortedOn, B
<1> QED
  BY <1>6, <1>7, <1>8, <1>9 DEF InItsPlace, Stays, PlacedLast, A, B

\* A list whose cursor has tried to go past the end is at its last element.
LastIfPast(l) == l.past = "next" => \A x \in AllRecords \ {l.cursor} : Before(l, x, l.cursor)

\* Only r can become upcoming, and the others keep their places.
LEMMA ScheduledAround ==
  ASSUME NEW l, ListOfAll(l), NEW m, ListOfAll(m), NEW r \in AllRecords, NEW times,
         Rescheduled(l, m, times, r), LastIfPast(l)
  PROVE  /\ m.cursor = l.cursor /\ LastIfPast(m)
         /\ \A x \in AllRecords \ {r} : Upcoming(m, x) => Upcoming(l, x)
         /\ SameOthers(l, m, r)
         /\ m.past = "prev" <=> l.past = "prev"
         /\ m.past = "next" => l.past = "next"
         /\ m = l \/ r # l.cursor
<1>1. CASE m = l
  BY <1>1 DEF SameOthers
<1> DEFINE A(x, y) == Before(l, x, y)
           B(x, y) == Before(m, x, y)
<1>o. \A x, y \in AllRecords : ~ A(x, x) /\ (A(x, y) => ~ A(y, x))
  BY BeforeIsOrder
<1>c. l.cursor \in AllRecords /\ l.past \in {"none", "prev", "next"}
  BY DEF ListOfAll
<1>2. CASE r # l.cursor /\ Relinked(l, m, times, r)
  <2>1. m.cursor = l.cursor /\ \A x, y \in AllRecords \ {r} : B(x, y) <=> A(x, y)
    BY <1>2 DEF Relinked, PlacedLast, PlacedBefore, SameOthers
  <2>2. \/ m.past = IF l.past = "next" THEN "none" ELSE l.past
        \/ m.past = l.past /\ l.past = "none"
    BY <1>2 DEF Relinked, FirstLater, Upcoming
  <2>3. l.past = "next" => \A x \in AllRecords \ {l.cursor} : A(x, l.cursor)
    BY DEF LastIfPast
  <2> HIDE DEF A, B
  <2>4. ASSUME NEW x \in AllRecords \ {r}, m.past = "none", B(l.cursor, x)
        PROVE  l.past = "none" /\ A(l.cursor, x)
    BY <1>c, <1>o, <1>2, <2>1, <2>2, <2>3, <2>4
  <2>5. m.past # "next"
    BY <2>2
  <2> QED
    BY <1>2, <2>1, <2>2, <2>4, <2>5 DEF LastIfPast, Upcoming, SameOthers, A, B
<1> QED
  BY <1>1, <1>2 DEF Rescheduled

-----------------------------------------------------------------------------
(* What orders the list while no assert has failed.                        *)

\* No assert has failed and the program has not been aborted.
Healthy == fault = "none" /\ abort = "none"

\* A timer that has been stopped or restarted before it was run has two reasons
\* when it is started again: the simulation fails when its record is run.
Doomed(r) == r \in Timers /\ Len(reasons[r]) > 1

\* The phases of Step7 from Step7b on.
Flushes == {"Timers", "Events", "SemGets", "SemPuts", "Mailboxes", "Block", "Advance"}

\* What the loop may come to before time moves on.
AtHand(x) ==
  \/ Upcoming(list, x)
  \/ phase \in {"Run", "Step8"} /\ list.past = "none" /\ x = list.cursor

\* What is at hand is in the order of time and region.
Sorted == \A x, y \in AllRecords :
  AtHand(x) /\ Before(list, x, y) /\ ~ Doomed(y) => ~ Later(simTime, x, y)

\* What is at hand is not in the past.
NotPast == \A x \in AllRecords :
  AtHand(x) /\ (phase = "Run" => Upcoming(list, x)) /\ ~ Doomed(x) => simTime[x] >= now

\* While software runs no edge of this time is left, and when time is to move on
\* nothing else is due.
EdgesToCome ==
  /\ phase = "Run" =>
       \/ Doomed(list.cursor) /\ simTime[list.cursor] <= now
       \/ \A x \in Clocked : AtHand(x) => simTime[x] > now
  /\ phase \in Flushes =>
       /\ \A x \in AllRecords \ Software : Upcoming(list, x) /\ ~ Doomed(x) => simTime[x] > now
       /\ ~ deltaEvents =>
            \A x \in AllRecords : Upcoming(list, x) /\ IsNext(list, x) => simTime[x] > now
  /\ phase = "Advance" => ~ deltaEvents

\* Software runs now: its times have passed, and no scheduled timer is before it.
SoftwareFirst ==
  /\ \A p \in Software : simTime[p] <= now
  /\ \A t \in Timers : reasons[t] = <<>> => simTime[t] <= now
  /\ current # NoProcess => simTime[current] <= now
  /\ \A t \in Timers, p \in Software :
       AtHand(t) /\ Before(list, t, p) => reasons[t] = <<>> \/ Doomed(t)

\* Timers that are to be flushed are complete, and no process runs that could
\* restart one.
TimersDone ==
  /\ timerDoneList # <<>> => phase \in {"Run", "Timers"}
  /\ \A i \in DOMAIN timerDoneList : timerState[timerDoneList[i]] = "Completed"
  /\ phase = "Run" /\ timerDoneList # <<>> =>
       current = NoProcess /\ \A p \in Software : ~ AtHand(p)

\* Clocks run and are not passed: each has its next edge at most half a period
\* away, no process of it has one sooner.
ClocksAhead ==
  /\ \A c \in Clocks :
       /\ clock[c].state = "Running" /\ ~ clock[c].suspend
       /\ simTime[c] <= now + HalfPeriod[c]
       /\ list.past # "prev" => ~ Before(list, c, list.cursor)
  /\ \A p \in Synchronous : EdgeIncr(clock, p) >= HalfPeriod[ClockOf[p]]
  /\ list.cursor \in Clocks => list.past = "prev" \/ (list.past = "none" /\ phase \notin Flushes)

Orderly ==
  /\ Sorted /\ NotPast /\ EdgesToCome /\ SoftwareFirst /\ TimersDone /\ ClocksAhead
  /\ LastIfPast(list)

-----------------------------------------------------------------------------
(* The steps of the scheduler, as what they do to the list.                *)

SameTimerReasons == \A t \in Timers : reasons'[t] = reasons[t]
SameTimers  == UNCHANGED <<timerState, timerDoneList>> /\ SameTimerReasons

\* A process is run, or calls.
Calm ==
  /\ UNCHANGED <<list, simTime, now, clock, phase, deltaEvents, abort, fault>> /\ SameTimers
  /\ current' = current \/ simTime[current'] <= now

\* The record at the cursor has been run, or is passed over.
Moves ==
  /\ phase \in {"Run", "Step8"} /\ list.past = "none" /\ list.cursor \notin Clocks
  /\ list' = RecordSearchNext(list) /\ current' = NoProcess
  /\ UNCHANGED <<simTime, now, clock, phase, deltaEvents, abort>>

\* It is not a timer that is run.
Passes ==
  /\ Moves /\ ~ Doomed(list.cursor) /\ SameTimers /\ UNCHANGED fault
  /\ list.cursor \in Synchronous => sync[list.cursor] # Free

\* Timer t expires.
Completes(t) ==
  /\ Moves /\ phase = "Run" /\ list.cursor = t /\ simTime[t] <= now /\ Len(reasons[t]) = 1
  /\ timerState' = [timerState EXCEPT ![t] = "Completed"]
  /\ timerDoneList' = Append(timerDoneList, t)
  /\ reasons' = [reasons EXCEPT ![t] = <<>>]
  /\ UNCHANGED fault

\* A process starts timer t, now + d from now.
Starts(t) ==
  /\ current # NoProcess /\ phase \in {"Run", "Step8"}
  /\ \E d \in Durations \cup {0} : Take(ScheduleAt(Entries, t, now + d))
  /\ UNCHANGED <<now, clock, phase, deltaEvents, current, timerDoneList>>
  /\ reasons'[t] # <<>> /\ Len(reasons'[t]) = Len(reasons[t]) + 1
  /\ \A u \in Timers \ {t} : reasons'[u] = reasons[u]
  /\ fault' # "timerNotCompleted"
  /\ StoppableTimers = {} => ~ timerScheduled[t] /\ timerScheduled' = [timerScheduled EXCEPT ![t] = TRUE]

\* The next record is later, or there is none: Step7a ends.
Stops ==
  /\ phase = "Run" /\ phase' = "Timers" /\ current = NoProcess /\ current' = NoProcess
  /\ UNCHANGED <<simTime, now, clock, deltaEvents, abort, fault>> /\ SameTimers
  /\ \/ list.past # "none" /\ UNCHANGED list
     \/ /\ list.past = "none" /\ list' = RecordSearchPrev(list)
        /\ list.cursor \in Clocked \/ simTime[list.cursor] > now

InCycle == phase \in Flushes \ {"Advance"} /\ current' = current

\* Who waited and does not any more is among ps.
FreedOnly(ps) ==
  \A p \in Processes : sync'[p] = Free => sync[p] = Free \/ \E i \in DOMAIN ps : ps[i] = p

\* A flush function wakes the processes ps, one or two of them.
Wakes(ps) ==
  /\ InCycle /\ UNCHANGED <<now, clock, phase, fault>> /\ deltaEvents' /\ SameTimers
  /\ Events = {} => FreedOnly(ps)
  /\ LET first == ScheduleAt(Entries, ps[1], WakeTime(ps[1]))
     IN Take(IF Len(ps) = 1 THEN first ELSE ScheduleAt(first, ps[2], WakeTime(ps[2])))

\* A flush function that wakes nobody, or the next one is due.
FlushesOn ==
  /\ InCycle /\ phase' \in Flushes \ {"Advance"}
  /\ UNCHANGED <<list, simTime, now, clock, abort>>
  /\ deltaEvents => deltaEvents'
  /\ SameTimerReasons /\ UNCHANGED timerState
  /\ timerDoneList' = timerDoneList \/ (timerDoneList # <<>> /\ timerDoneList' = Tail(timerDoneList))
  /\ timerDoneList' # <<>> => phase' = "Timers"
  /\ fault' # "timerNotCompleted"

\* The delta cycle ends: another one, or time moves on.
EndsCycle ==
  /\ phase = "Block" /\ UNCHANGED <<simTime, now, clock, abort, current, fault>> /\ SameTimers
  /\ list' = IF deltaEvents THEN RecordSearchNext(list) ELSE list
  /\ phase' = (IF deltaEvents THEN "Run" ELSE "Advance") /\ ~ deltaEvents'

\* Time moves to that of the next record (Step7a), or the simulation is finished.
Advances ==
  LET next == RecordSearchNext(list)
  IN /\ phase = "Advance" /\ phase' \in {"Step8", "Finished"} /\ UNCHANGED <<simTime, clock, current, deltaEvents, fault>>
     /\ SameTimers /\ list' = next
     /\ \/ next.past # "none" /\ phase' = "Finished" /\ UNCHANGED <<now, abort>>
        \/ /\ next.past = "none" /\ now' = simTime[next.cursor]
           /\ abort' = IF advanced /\ now' <= now THEN "noProgress" ELSE "none"

\* The record r has run at its edge and is scheduled for the next (Step8).
EdgeOf(r) ==
  /\ phase = "Step8" /\ list.past = "none" /\ list.cursor = r /\ r \in Clocked /\ simTime[r] = now
  /\ ToNextEdge(r, clock') /\ current' = NoProcess
  /\ UNCHANGED <<phase, deltaEvents, fault>> /\ SameTimers
  /\ \/ r \in Clocks /\ Tick(r)
     \/ r \in Synchronous /\ UNCHANGED clock

\* The edges of this time are done.
EdgeIsDone ==
  /\ phase = "Step8" /\ phase' = "Run" /\ current = NoProcess /\ current' = NoProcess
  /\ UNCHANGED <<list, simTime, now, clock, deltaEvents, abort, fault>> /\ SameTimers
  /\ list.past = "none" /\ list.cursor \in Clocked => simTime[list.cursor] # now

\* An assert fails, and the list is left alone or the cursor moves on.
Fails ==
  /\ UNCHANGED <<simTime, now, phase, clock, current>> /\ SameTimerReasons /\ phase # "Advance"
  /\ list' = list \/ list' = RecordSearchNext(list)
  /\ \/ abort' = "notLater" /\ UNCHANGED fault
     \/ fault' \notin {"none", "timerNotCompleted"} /\ UNCHANGED abort

\* Every step is one of these.
Kinds ==
  \/ Calm \/ Passes \/ (\E t \in Timers : Completes(t)) \/ (\E t \in Timers : Starts(t))
  \/ Stops \/ FlushesOn \/ EndsCycle \/ Advances
  \/ (\E ps \in Seq(Processes) : Len(ps) \in {1, 2} /\ Wakes(ps))
  \/ (\E r \in Clocked : EdgeOf(r)) \/ EdgeIsDone \/ Fails

\* A process that gets or loses a reason leaves the reasons of the timers alone.
LEMMA ProcessReasons ==
  ASSUME TypeOK, NEW p \in Processes, NEW queue, reasons' = [reasons EXCEPT ![p] = queue]
  PROVE  SameTimerReasons
BY ProcessSyncAssumption DEF SameTimerReasons, TypeOK, SyncTypeOK, Records

\* The same of one that is woken.
LEMMA WakeReasons ==
  ASSUME TypeOK, NEW p \in Processes, NEW why, NEW obj, SetReasons(WithReason(reasons, p, why, obj))
  PROVE  SameTimerReasons /\ fault' \in {"none", "reasonsFull"}
<1>1. reasons' = [reasons EXCEPT ![p] = Append(@, [why |-> why, obj |-> obj])]
  BY DEF SetReasons, WithReason
<1>2. fault' \in {"none", "reasonsFull"}
  BY DEF SetReasons
<1> QED
  BY <1>1, <1>2, ProcessReasons

\* The scheduler is in a state in which no assert has failed.
SchedOK == ListInv /\ Healthy /\ Orderly

\* What a running process calls, other than to start a timer.
LEMMA CallKinds ==
  ASSUME SchedOK, ProcessCalls
  PROVE  Calm
<1>1. TypeOK /\ current \in Processes \cup {NoProcess}
  BY DEF SchedOK, ListInv, TypeOK, SyncTypeOK
<1>2. UNCHANGED schedVars
  BY DEF ProcessCalls
<1>3. UNCHANGED <<current, phase, deltaEvents, fault, timerState, timerDoneList>> /\ SameTimerReasons
  <2>1. CASE NextReason /\ UNCHANGED agentVars
    <3>1. current \in Processes /\ reasons' = [reasons EXCEPT ![current] = Tail(@)]
      BY <1>1, <2>1 DEF NextReason
    <3>2. SameTimerReasons
      BY <1>1, <3>1, ProcessReasons
    <3> QED
      BY <2>1, <3>2 DEF NextReason, loopVars, agentVars, timerVars
  <2>2. ASSUME NEW w \in ClientWaits, Wait(w), UNCHANGED agentVars
        PROVE  UNCHANGED <<current, phase, deltaEvents, fault, timerState, timerDoneList>> /\ SameTimerReasons
    BY <2>2 DEF Wait, loopVars, agentVars, timerVars, SameTimerReasons
  <2>3. CASE SemaphoreCall /\ SemaphoresOnly
    BY <2>3 DEF SemaphoreCall, SemaphoreGet, SemaphorePut, loopVars, SemaphoresOnly, timerVars, SameTimerReasons
  <2>4. CASE MailboxCall /\ MailboxesOnly
    BY <2>4 DEF MailboxCall, MailboxGet, MailboxPut, loopVars, MailboxesOnly, timerVars, SameTimerReasons
  <2>5. CASE EventCall /\ EventsOnly
    BY <2>5 DEF EventCall, EventGet, EventSet, loopVars, EventsOnly, timerVars, SameTimerReasons
  <2>6. ASSUME NEW t \in Timers, TimerWatch(t) \/ TimerWait(t) \/ TimerStop(t)
        PROVE  UNCHANGED <<current, phase, deltaEvents, fault, timerState, timerDoneList>> /\ SameTimerReasons
    BY <2>6 DEF TimerWatch, TimerWait, TimerStop, loopVars, SameTimerReasons
  <2> QED
    BY <2>1, <2>2, <2>3, <2>4, <2>5, <2>6 DEF ProcessCalls
<1> QED
  BY <1>2, <1>3 DEF Calm, SameTimers, schedVars

\* At the cursor is a record: the process that runs, or one that has no reason
\* or not more than one.
LEMMA RunKinds ==
  ASSUME SchedOK, RunRecord
  PROVE  Calm \/ Passes \/ (\E t \in Timers : Completes(t)) \/ Fails
<1>1. TypeOK /\ CursorInv
  BY DEF SchedOK, ListInv
<1>2. Records \cap Clocks = {} /\ Processes \cap Timers = {}
  BY SchedulerAssumption, ProcessSyncAssumption
<1>3. ASSUME NEW p \in Software, AtCursor(p), Dispatch(p), UNCHANGED <<agentVars, schedVars>>
      PROVE  Calm
  <2>1. SameTimerReasons
    BY <1>1, <1>3, ProcessReasons DEF Dispatch, Software
  <2> QED
    BY <1>3, <2>1 DEF Calm, SameTimers, schedVars, agentVars, timerVars, Dispatch, loopVars, AtCursor
<1>4. ASSUME Return, UNCHANGED agentVars, MoveOn(RecordSearchNext(list)) PROVE Passes
  <2>1. list.past = "none" /\ list.cursor = current /\ current \in Processes
    BY <1>1, <1>4 DEF Return, CursorInv, RunsAtCursor, TypeOK, SyncTypeOK
  <2>2. list.cursor \notin Clocks /\ ~ Doomed(list.cursor) /\ list.cursor \notin Synchronous
    <3>1. current \in Software
      BY <1>4, <2>1, ProcessSyncAssumption DEF Return, Running, SchedOK, ListInv, Runners, TypeOK, SyncTypeOK
    <3> QED
      BY <1>2, <2>1, <3>1 DEF Records, Doomed, Software
  <2>3. UNCHANGED <<fault, timerState, timerDoneList>> /\ SameTimerReasons
    BY <1>4 DEF Return, agentVars, timerVars, SameTimerReasons
  <2> QED
    BY <1>4, <2>1, <2>2, <2>3 DEF Passes, Moves, Return, Running, loopVars, MoveOn, SameTimers
<1>5. ASSUME NEW r \in Records, AtCursor(r), DispatchIdle(r), UNCHANGED agentVars,
             MoveOn(RecordSearchNext(list))
      PROVE  Passes
  <2>1. list.past = "none" /\ list.cursor = r
    BY <1>5 DEF AtCursor
  <2>2. Len(reasons[r]) = 0
    BY <1>5 DEF DispatchIdle
  <2>3. list.cursor \notin Clocks /\ ~ Doomed(list.cursor) /\ list.cursor \notin Synchronous
    BY <1>2, <1>5, <2>1, <2>2 DEF Doomed, DispatchIdle
  <2>4. UNCHANGED <<fault, timerState, timerDoneList>> /\ SameTimerReasons
    BY <1>5 DEF DispatchIdle, agentVars, timerVars, SameTimerReasons
  <2> QED
    BY <1>5, <2>1, <2>3, <2>4 DEF Passes, Moves, DispatchIdle, Running, loopVars, runVars, MoveOn, SameTimers
<1>6. ASSUME NEW t \in Timers, AtCursor(t), TimerExecute(t), MoveOn(RecordSearchNext(list))
      PROVE  Completes(t) \/ Fails
  <2>1. CASE timerState[t] = "Running" /\ Len(reasons[t]) = 1
    <3>1. Moves
      BY <1>2, <1>6 DEF Moves, AtCursor, TimerExecute, Running, runVars, loopVars, MoveOn, Records
    <3>2. /\ timerState' = [timerState EXCEPT ![t] = "Completed"]
          /\ timerDoneList' = Append(timerDoneList, t)
          /\ reasons' = [reasons EXCEPT ![t] = <<>>] /\ UNCHANGED fault
      BY <1>6, <2>1 DEF TimerExecute
    <3> QED
      BY <1>6, <2>1, <3>1, <3>2 DEF Completes, AtCursor, TimerExecute, Running
  <2>2. CASE ~ (timerState[t] = "Running" /\ Len(reasons[t]) = 1)
    <3>1. fault' = "timerNotRunning" /\ UNCHANGED <<phase, reasons, current>> /\ phase = "Run"
      BY <1>6, <2>2 DEF TimerExecute, Abort, loopVars, runVars, Running
    <3> QED
      BY <1>6, <3>1 DEF Fails, SameTimerReasons, MoveOn
  <2> QED
    BY <2>1, <2>2
<1> QED
  BY <1>3, <1>4, <1>5, <1>6 DEF RunRecord

\* A process starts a timer.
LEMMA StartKinds ==
  ASSUME SchedOK, StartTimer
  PROVE  \E t \in Timers : Starts(t)
<1>1. PICK t \in Timers :
        /\ (\E w \in Processes \cup {NoProcess} : TimerStart(t, w)) \/ TimerRestart(t)
        /\ \/ \E d \in Durations : timeout' = [timeout EXCEPT ![t] = d]
           \/ UNCHANGED timeout
        /\ Take(ScheduleAt(Entries, t, now + timeout'[t]))
        /\ UNCHANGED <<now, advanced, clock>>
        /\ StoppableTimers = {} => \E w \in Processes \cup {NoProcess} : TimerStart(t, w)
  BY DEF StartTimer
<1>2. TypeOK /\ ListTyped
  BY DEF SchedOK, ListInv
<1>3. timeout'[t] \in Durations \cup {0}
  BY <1>1, <1>2 DEF ListTyped
<1>4. /\ current # NoProcess /\ phase \in {"Run", "Step8"}
      /\ UNCHANGED <<phase, deltaEvents, current, timerDoneList>>
      /\ SetReasons(WithReason(reasons, t, "TimerDone", t))
  BY <1>1 DEF TimerStart, TimerRestart, Call, Running, OnClock, loopVars
<1>5. reasons' = WithReason(reasons, t, "TimerDone", t) /\ fault' # "timerNotCompleted"
  BY <1>4 DEF SetReasons
<1>6. /\ \A q \in Records \ {t} : reasons'[q] = reasons[q]
      /\ reasons'[t] # <<>> /\ Len(reasons'[t]) = Len(reasons[t]) + 1
  <2>1. [why |-> "TimerDone", obj |-> t] \in Reasons /\ t \in Records
    BY DEF Reasons, Agents, Records
  <2>2. reasons \in [Records -> Seq(Reasons)]
    BY <1>2 DEF TypeOK, SyncTypeOK
  <2> QED
    BY <1>5, <2>1, <2>2, WithReasonAdds
<1>7. \A u \in Timers \ {t} : reasons'[u] = reasons[u]
  BY <1>6 DEF Records
<1>8. StoppableTimers = {} => ~ timerScheduled[t] /\ timerScheduled' = [timerScheduled EXCEPT ![t] = TRUE]
  BY <1>1 DEF TimerStart
<1> QED
  BY <1>1, <1>3, <1>4, <1>5, <1>6, <1>7, <1>8 DEF Starts

\* The loop of Step7a ends.
LEMMA StopKinds ==
  ASSUME SchedOK, StopRunning
  PROVE  Stops
<1>1. /\ current = NoProcess /\ current' = NoProcess /\ phase = "Run" /\ phase' = "Timers"
      /\ UNCHANGED <<deltaEvents, fault>> /\ SameTimers
  BY DEF StopRunning, RunEnds, Enter, runVars, SameTimers, SameTimerReasons, timerVars
<1>2. \/ list.past # "none" /\ UNCHANGED schedVars
      \/ /\ list.past = "none"
         /\ list.cursor \in Clocked \/ simTime[list.cursor] > now
         /\ MoveOn(RecordSearchPrev(list))
  BY DEF StopRunning
<1> QED
  BY <1>1, <1>2 DEF Stops, schedVars, MoveOn

\* Step8.
LEMMA EdgeKinds ==
  ASSUME SchedOK, ClockTicks \/ PassOver \/ RunSynchronous \/ EdgeDone
  PROVE  Calm \/ Passes \/ (\E r \in Clocked : EdgeOf(r)) \/ EdgeIsDone
<1>1. TypeOK /\ CursorInv /\ Runners /\ ClocksAhead
  BY DEF SchedOK, ListInv, Orderly
<1>2. Records \cap Clocks = {} /\ Processes \cap Timers = {} /\ Synchronous \subseteq Processes
  BY SchedulerAssumption, ProcessSyncAssumption
<1>3. CASE ClockTicks
  <2>1. PICK c \in Clocks : DueOnEdge(c) /\ Tick(c) /\ ToNextEdge(c, clock')
    BY <1>3 DEF ClockTicks
  <2>2. SameTimers /\ UNCHANGED <<phase, deltaEvents, fault, current>>
    BY <1>3 DEF ClockTicks, vars, baseVars, runVars, loopVars, timerVars, SameTimers, SameTimerReasons
  <2>3. EdgeOf(c)
    BY <2>1, <2>2 DEF EdgeOf, DueOnEdge, OnClock, Clocked
  <2> QED
    BY <2>3 DEF Clocked
<1>4. CASE PassOver
  <2>1. PICK r \in Clocked : DueOnEdge(r) /\ Idle(r)
    BY <1>4 DEF PassOver
  <2>2. SameTimers /\ UNCHANGED <<phase, deltaEvents, fault, current>> /\ MoveOn(RecordSearchNext(list))
    BY <1>4 DEF PassOver, vars, baseVars, runVars, loopVars, timerVars, SameTimers, SameTimerReasons
  <2>3. r \notin Clocks /\ r \in Processes
    <3>1. r \in Clocks => r \notin Synchronous
      BY <1>2 DEF Records
    <3>2. r \in Clocks => clock[r].state = "Running"
      BY <1>1 DEF ClocksAhead
    <3>3. r \notin Clocks
      BY <2>1, <3>1, <3>2 DEF Idle
    <3> QED
      BY <1>2, <3>3 DEF Clocked
  <2>4. ~ Doomed(r)
    BY <1>2, <2>3 DEF Doomed
  <2>5. r \in Synchronous => sync[r] # Free
    BY <1>1, <2>1, <2>3, SchedulerAssumption DEF Idle, ClocksAhead
  <2> QED
    BY <2>1, <2>2, <2>3, <2>4, <2>5 DEF Passes, Moves, DueOnEdge, OnClock, MoveOn
<1>5. CASE RunSynchronous
  <2>1. ASSUME NEW p \in Synchronous, DueOnEdge(p), ExecuteOnEdge(p), UNCHANGED <<agentVars, schedVars>>
        PROVE  Calm
    <3>1. ListTyped
      BY DEF SchedOK, ListInv
    <3> QED
      BY <2>1, <3>1 DEF Calm, SameTimers, SameTimerReasons, schedVars, agentVars, timerVars, ExecuteOnEdge,
         loopVars, DueOnEdge, ListTyped
  <2>2. CASE ReturnOnEdge /\ ToNextEdge(current, clock) /\ UNCHANGED <<agentVars, clock>>
    <3>1. list.past = "none" /\ list.cursor = current /\ current \in Synchronous /\ phase = "Step8"
      BY <1>1, <2>2 DEF ReturnOnEdge, OnClock, CursorInv, RunsAtCursor, Runners
    <3>2. simTime[current] = now
      <4>1. current \in AllRecords /\ ~ Doomed(current) /\ AtHand(current) /\ current # NoProcess
        BY <1>2, <3>1, <2>2, ProcessSyncAssumption DEF AllRecords, Records, Doomed, AtHand
      <4>3. simTime[current] <= now
        BY <4>1 DEF SchedOK, Orderly, SoftwareFirst
      <4>4. simTime[current] >= now
        BY <4>1, <3>1 DEF SchedOK, Orderly, NotPast
      <4>2. simTime[current] \in Nat /\ now \in Nat
        BY <4>1 DEF SchedOK, ListInv, ListTyped
      <4> QED
        BY <4>2, <4>3, <4>4
    <3>3. EdgeOf(current)
      BY <2>2, <3>1, <3>2 DEF EdgeOf, ReturnOnEdge, loopVars, agentVars, timerVars, SameTimers, SameTimerReasons, Clocked
    <3> QED
      BY <3>1, <3>3 DEF Clocked
  <2> QED
    BY <1>5, <2>1, <2>2 DEF RunSynchronous
<1>6. CASE EdgeDone
  <2>1. phase = "Step8" /\ phase' = "Run" /\ current = NoProcess /\ current' = NoProcess
        /\ UNCHANGED <<deltaEvents, fault>> /\ SameTimers
    BY <1>6 DEF EdgeDone, EdgeEnds, OnClock, runVars, agentVars, timerVars, SameTimers, SameTimerReasons
  <2>2. list.past = "none" /\ list.cursor \in Clocked => simTime[list.cursor] # now
    BY <1>6 DEF EdgeDone, EdgeEnds, DueOnEdge
  <2> QED
    BY <1>6, <2>1, <2>2 DEF EdgeIsDone, EdgeDone, schedVars
<1> QED
  BY <1>3, <1>4, <1>5, <1>6

\* Unblocking a process frees that process.
LEMMA FreedIsWoken ==
  ASSUME NEW q, NEW w, Unblock({<<q, w>>})
  PROVE  FreedOnly(<<q>>)
<1>1. ASSUME NEW p \in Processes, sync'[p] = Free PROVE sync[p] = Free \/ <<q>>[1] = p
  BY <1>1 DEF Unblock, Records
<1> QED
  BY <1>1 DEF FreedOnly

\* Unblocking a mailbox pair frees the pair.
LEMMA FreedAreWoken ==
  ASSUME NEW q, NEW w, NEW r, NEW v, Unblock({<<q, w>>, <<r, v>>})
  PROVE  FreedOnly(<<r, q>>)
<1>1. ASSUME NEW p \in Processes, sync'[p] = Free
      PROVE  sync[p] = Free \/ <<r, q>>[1] = p \/ <<r, q>>[2] = p
  BY <1>1 DEF Unblock, Records
<1> QED
  BY <1>1 DEF FreedOnly

\* What the flush functions wake is scheduled, unless an assert fails.
LEMMA WakeKinds ==
  ASSUME SchedOK, WakeProcesses
  PROVE  Fails \/ \E ps \in Seq(Processes) : Len(ps) \in {1, 2} /\ Wakes(ps)
<1>1. TypeOK /\ PairedLists
  BY DEF SchedOK, ListInv
<1> DEFINE WokenUp == \E ps \in Seq(Processes) : Len(ps) \in {1, 2} /\ Wakes(ps)
           Cycled == /\ phase \in Flushes \ {"Advance"} /\ UNCHANGED <<current, phase, timerState, timerDoneList>>
                     /\ SameTimerReasons /\ fault' # "timerNotCompleted"
\* A flush function that wakes ps.
<1>2. ASSUME NEW ps \in Seq(Processes), Len(ps) \in {1, 2}, ScheduleWoken(ps), Cycled,
             fault' = "none" => deltaEvents' /\ (Events = {} => FreedOnly(ps))
      PROVE  Fails \/ WokenUp
  <2>1. CASE fault' = "none"
    <3>1. UNCHANGED fault
      BY <2>1 DEF SchedOK, Healthy
    <3>2. Wakes(ps)
      BY <1>2, <2>1, <3>1 DEF Wakes, InCycle, ScheduleWoken, SameTimers
    <3> QED
      BY <1>2, <3>2
  <2>2. CASE fault' # "none"
    <3>1. UNCHANGED <<list, simTime, abort, now, phase, clock>>
      BY <1>2, <2>2 DEF ScheduleWoken
    <3> QED
      BY <1>2, <2>2, <3>1 DEF Fails
  <2> QED
    BY <2>1, <2>2
<1>3. ASSUME NEW p \in Processes, ScheduleWoken(<<p>>), Cycled,
             fault' = "none" => deltaEvents' /\ (Events = {} => FreedOnly(<<p>>))
      PROVE  Fails \/ WokenUp
  <2>1. <<p>> \in Seq(Processes) /\ Len(<<p>>) \in {1, 2}
    OBVIOUS
  <2> HIDE DEF WokenUp, Cycled
  <2> QED
    BY <1>2, <1>3, <2>1
<1> HIDE DEF WokenUp
<1>4. ASSUME NEW s \in Semaphores, NEW i \in DOMAIN getPending[s], SemaphoreFlushGet(s, i),
             ScheduleWoken(<<Getter(s, i)>>), SemaphoresOnly
      PROVE  Fails \/ WokenUp
  <2>1. Getter(s, i) \in Processes
    BY <1>1, PendingEntries DEF Getter, TypeOK
  <2>2. SameTimerReasons /\ fault' \in {"none", "reasonsFull"}
    BY <1>1, <1>4, <2>1, WakeReasons DEF SemaphoreFlushGet
  <2>3. Cycled /\ deltaEvents'
    BY <1>4, <2>2 DEF SemaphoreFlushGet, Flushing, Flushes, runVars, SemaphoresOnly, timerVars
  <2>4. FreedOnly(<<Getter(s, i)>>)
    BY <1>4, FreedIsWoken DEF SemaphoreFlushGet
  <2> QED
    BY <1>3, <1>4, <2>1, <2>3, <2>4
<1>5. ASSUME NEW s \in Semaphores, SemaphoreFlushPut(s), SemaphoresOnly,
             ScheduleWokenByPut(Head(putPending[s]).proc)
      PROVE  Fails \/ WokenUp
  <2> DEFINE p == Head(putPending[s]).proc
  <2>1. p \in Processes
    BY <1>1, <1>5, PendingEntries DEF SemaphoreFlushPut, TypeOK
  <2>2. SameTimerReasons /\ fault' \in {"none", "reasonsFull", "putWithoutGet"}
    <3>1. CASE SetReasons(WithReason(reasons, p, "SemaphorePut", s))
      BY <1>1, <2>1, <3>1, WakeReasons
    <3>2. CASE fault' = "putWithoutGet" /\ reasons' = reasons
      BY <3>2 DEF SameTimerReasons
    <3> QED
      BY <1>5, <3>1, <3>2 DEF SemaphoreFlushPut, Abort
  <2>3. Cycled /\ deltaEvents'
    BY <1>5, <2>2 DEF SemaphoreFlushPut, Flushing, Flushes, runVars, SemaphoresOnly, timerVars
  <2>4. CASE p \in Synchronous /\ fault' = "none"
    <3>1. abort' = "notLater" /\ UNCHANGED <<list, simTime, now, clock>>
      BY <1>5, <2>4 DEF ScheduleWokenByPut
    <3>2. UNCHANGED fault
      BY <2>4 DEF SchedOK, Healthy
    <3> QED
      BY <2>3, <3>1, <3>2 DEF Fails
  <2>5. CASE ~ (p \in Synchronous /\ fault' = "none")
    <3>1. ScheduleWoken(<<p>>)
      BY <1>5, <2>5 DEF ScheduleWokenByPut
    <3>2. fault' = "none" => FreedOnly(<<p>>)
      BY <1>5 DEF SemaphoreFlushPut, Abort, blockVars, FreedOnly
    <3> HIDE DEF p
    <3> QED
      BY <1>3, <2>1, <2>3, <3>1, <3>2
  <2> QED
    BY <2>4, <2>5
<1>6. ASSUME NEW m \in Mailboxes, NEW i \in DOMAIN getters[m], MailboxTransfer(m, i), MailboxesOnly,
             ScheduleWoken(<<Head(putters[m]), getters[m][i]>>)
      PROVE  Fails \/ WokenUp
  <2> DEFINE put == Head(putters[m])
             get == getters[m][i]
             elm == Head(elms[m])
  <2>1. put \in Processes /\ get \in Processes
    BY <1>1, <1>6, TransferTyped
  <2>2. SameTimerReasons /\ fault' \in {"none", "reasonsFull", "nullPutter"}
    <3>1. CASE SetReasons(WithReason(WithReason(reasons, put, "MailboxPut", m), get, "MailboxGet", elm))
      <4>1. \A t \in Timers : t \in Records /\ t # put /\ t # get
        BY <2>1, ProcessSyncAssumption DEF Records
      <4>2. reasons' = WithReason(WithReason(reasons, put, "MailboxPut", m), get, "MailboxGet", elm)
        BY <3>1 DEF SetReasons
      <4>3. SameTimerReasons
        BY <1>1, <4>1, <4>2 DEF WithReason, SameTimerReasons, TypeOK, SyncTypeOK
      <4> QED
        BY <3>1, <4>3 DEF SetReasons
    <3>2. CASE fault' = "nullPutter" /\ reasons' = reasons
      BY <3>2 DEF SameTimerReasons
    <3> QED
      BY <1>6, <3>1, <3>2 DEF MailboxTransfer, Abort
  <2>3. Cycled /\ deltaEvents'
    BY <1>6, <2>2 DEF MailboxTransfer, Flushing, Flushes, runVars, MailboxesOnly, timerVars
  <2>4. <<put, get>> \in Seq(Processes) /\ Len(<<put, get>>) \in {1, 2}
    BY <2>1
  <2>5. fault' = "none" => FreedOnly(<<put, get>>)
    <3>1. fault' = "none" => Unblock({<<get, WaitOn(m, "get")>>, <<put, WaitOn(m, "put")>>})
      BY <1>6 DEF MailboxTransfer, Abort
    <3> HIDE DEF put, get
    <3> QED
      BY <2>1, <3>1, FreedAreWoken
  <2> HIDE DEF put, get
  <2> QED
    BY <1>2, <1>6, <2>3, <2>4, <2>5 DEF put, get
<1>7. ASSUME NEW e \in Events, EventFlush(e), EventsOnly, ScheduleWoken(<<Last(waiting[e])>>)
      PROVE  Fails \/ WokenUp
  <2> DEFINE p == Last(waiting[e])
  <2>1. p \in Processes
    BY <1>1, <1>7, ListenersTyped DEF EventFlush
  <2>2. SameTimerReasons /\ fault' \in {"none", "reasonsFull", "eventHang"} /\ (fault' # "eventHang" => deltaEvents')
    <3>1. CASE SetReasons(WithReason(reasons, p, "Event", e)) /\ deltaEvents' = TRUE
      BY <1>1, <2>1, <3>1, WakeReasons
    <3>2. CASE fault' = "eventHang" /\ reasons' = reasons
      BY <3>2 DEF SameTimerReasons
    <3> QED
      BY <1>7, <3>1, <3>2 DEF EventFlush, Abort
  <2>3. Cycled
    BY <1>7, <2>2 DEF EventFlush, Flushes, runVars, EventsOnly, timerVars
  <2>4. Events # {}
    OBVIOUS
  <2> QED
    BY <1>3, <1>7, <2>1, <2>2, <2>3, <2>4
<1>8. ASSUME NEW t \in Timers, NEW i \in DOMAIN watchers[t], TimerFlush(t, i), TimersOnly,
             ScheduleWoken(<<watchers[t][i]>>)
      PROVE  Fails \/ WokenUp
  <2>1. watchers[t][i] \in Processes
    BY <1>1, WatcherTyped
  <2>2. SameTimerReasons /\ fault' \in {"none", "reasonsFull"}
    BY <1>1, <1>8, <2>1, WakeReasons DEF TimerFlush
  <2>3. Cycled /\ deltaEvents'
    BY <1>8, <2>2 DEF TimerFlush, AtTimer, Flushes, runVars
  <2>4. FreedOnly(<<watchers[t][i]>>)
    BY <1>8, FreedIsWoken DEF TimerFlush
  <2> QED
    BY <1>3, <1>8, <2>1, <2>3, <2>4
<1> QED
  BY <1>4, <1>5, <1>6, <1>7, <1>8 DEF WakeProcesses, WokenUp

\* Every flush function.
LEMMA FlushKinds ==
  ASSUME SchedOK, FlushOn
  PROVE  FlushesOn
<1>1. TimersDone /\ TypeOK /\ fault = "none"
  BY DEF SchedOK, Orderly, ListInv, Healthy
<1>2. timerDoneList # <<>> => phase \notin {"Events", "SemGets", "SemPuts", "Mailboxes", "Block"}
  BY <1>1 DEF TimersDone
<1> DEFINE Loops == /\ UNCHANGED <<current, reasons, timerState>> /\ phase \in Flushes \ {"Advance"}
                    /\ phase' \in Flushes \ {"Advance"} /\ (deltaEvents => deltaEvents')
                    /\ timerDoneList' = timerDoneList \/ (timerDoneList # <<>> /\ timerDoneList' = Tail(timerDoneList))
                    /\ timerDoneList' # <<>> => phase' = "Timers"
                    /\ fault' # "timerNotCompleted"
<1>3. CASE (\E s \in Semaphores : SemaphoreFlushGetDone(s) \/ SemaphoreFlushPutDone(s)) /\ SemaphoresOnly
  <2>1. Loops
    BY <1>1, <1>2, <1>3 DEF SemaphoreFlushGetDone, SemaphoreFlushPutDone, Flushing, Flushes, runVars,
       SemaphoresOnly, timerVars
  <2> QED
    BY <2>1 DEF FlushesOn, FlushOn, InCycle, schedVars, SameTimerReasons
<1>4. CASE (\E m \in Mailboxes : MailboxNoPair(m)) /\ MailboxesOnly
  <2>1. Loops
    BY <1>1, <1>2, <1>4 DEF MailboxNoPair, Flushing, Flushes, runVars, MailboxesOnly, timerVars
  <2> QED
    BY <2>1 DEF FlushesOn, FlushOn, InCycle, schedVars, SameTimerReasons
<1>5. CASE (\E e \in Events : EventFlushUnheard(e)) /\ EventsOnly
  <2>1. Loops
    BY <1>1, <1>2, <1>5 DEF EventFlushUnheard, Flushes, runVars, loopVars, EventsOnly, timerVars
  <2> QED
    BY <2>1 DEF FlushesOn, FlushOn, InCycle, schedVars, SameTimerReasons
<1>6. CASE (\E t \in Timers : TimerFlushDone(t)) /\ TimersOnly
  <2>1. PICK t \in Timers : TimerFlushDone(t)
    BY <1>6
  <2>2. timerState[t] = "Completed"
    <3>1. timerDoneList \in Seq(Timers) /\ timerDoneList # <<>> /\ t = Head(timerDoneList)
      BY <1>1, <2>1 DEF TimerFlushDone, AtTimer, TypeOK, TimerTypeOK
    <3>2. 1 \in DOMAIN timerDoneList /\ t = timerDoneList[1]
      BY <3>1, EmptySeq, LenProperties
    <3> QED
      BY <1>1, <3>2 DEF TimersDone
  <2>3. Loops
    BY <1>1, <2>1, <2>2 DEF TimerFlushDone, AtTimer, Flushes, runVars, loopVars
  <2> QED
    BY <2>3 DEF FlushesOn, FlushOn, InCycle, schedVars, SameTimerReasons
<1>7. CASE TimersEnd \/ EventsEnd \/ SemGetsEnd \/ SemPutsEnd \/ MailboxesEnd
  <2>1. Loops
    BY <1>1, <1>2, <1>7 DEF TimersEnd, EventsEnd, SemGetsEnd, SemPutsEnd, MailboxesEnd, Enter, Flushes,
       runVars, timerVars
  <2> QED
    BY <2>1 DEF FlushesOn, FlushOn, InCycle, schedVars, SameTimerReasons
<1> QED
  BY <1>3, <1>4, <1>5, <1>6, <1>7 DEF FlushOn

\* The end of the delta cycle.
LEMMA CycleKinds ==
  ASSUME SchedOK, EndDeltaCycle
  PROVE  EndsCycle \/ Fails
<1>1. /\ phase = "Block" /\ UNCHANGED <<current, reasons>> /\ UNCHANGED agentVars
      /\ MoveOn(IF deltaEvents THEN RecordSearchNext(list) ELSE list)
  BY DEF EndDeltaCycle, FlushProcessesToBlock, Abort, runVars
<1>2. \/ fault' = "pendingAgent" /\ UNCHANGED phase
      \/ UNCHANGED fault /\ phase' = (IF deltaEvents THEN "Run" ELSE "Advance") /\ deltaEvents' = FALSE
  BY DEF EndDeltaCycle, FlushProcessesToBlock, Abort, loopVars
<1>3. SameTimers
  BY <1>1 DEF SameTimers, SameTimerReasons, agentVars, timerVars
<1>4. CASE fault' = "pendingAgent" /\ UNCHANGED phase
  BY <1>1, <1>3, <1>4 DEF Fails, MoveOn, SameTimers
<1>5. CASE UNCHANGED fault /\ phase' = (IF deltaEvents THEN "Run" ELSE "Advance") /\ deltaEvents' = FALSE
  BY <1>1, <1>3, <1>5 DEF EndsCycle, MoveOn
<1> QED
  BY <1>2, <1>4, <1>5

\* Time moves on.
LEMMA AdvanceKinds ==
  ASSUME SchedOK, AdvanceTime
  PROVE  Advances
<1> DEFINE next == RecordSearchNext(list)
<1>1. /\ phase = "Advance" /\ UNCHANGED <<current, reasons, deltaEvents, fault, simTime, clock>>
      /\ list' = next /\ UNCHANGED agentVars /\ phase' \in {"Step8", "Finished"}
  BY DEF AdvanceTime, Advance, runVars
<1>2. SameTimers
  BY <1>1 DEF SameTimers, SameTimerReasons, agentVars, timerVars
<1>3. \/ next.past # "none" /\ phase' = "Finished" /\ UNCHANGED <<now, abort>>
      \/ /\ next.past = "none" /\ now' = simTime[next.cursor]
         /\ abort' = IF advanced /\ now' <= now THEN "noProgress" ELSE "none"
  BY DEF AdvanceTime
<1> QED
  BY <1>1, <1>2, <1>3 DEF Advances

\* Every step of the scheduler that starts with no assert failed has its kind.
LEMMA StepKinds ==
  ASSUME SuspendableClocks = {}, SchedOK, SchedNext
  PROVE  Kinds
<1>1. ~ ClockCalls
  BY DEF ClockCalls
<1> QED
  BY <1>1, CallKinds, RunKinds, StartKinds, StopKinds, EdgeKinds, WakeKinds, FlushKinds, CycleKinds,
     AdvanceKinds DEF SchedNext, Kinds

\* In the next state times and list are in order, and what else keeps them so
\* holds unless an assert has failed.
StaysOrderly == Sorted' /\ NotPast' /\ OrderAsserted' /\ (Healthy' => Orderly')

\* Which records are which: nothing is both a timer and on a clock.
LEMMA Kinships ==
  /\ \A r \in Clocked : r \notin Software /\ r \notin Timers /\ ~ Doomed(r) /\ ~ Doomed(r)'
  /\ \A p \in Processes : ~ Doomed(p) /\ ~ Doomed(p)' /\ p \notin Timers /\ p \notin Clocks
  /\ \A t \in Timers : t \notin Clocked /\ t \notin Software /\ t \notin Processes
  /\ Clocked \subseteq AllRecords /\ Processes \subseteq AllRecords /\ Timers \subseteq AllRecords
  /\ Clocks \subseteq Clocked /\ Synchronous \subseteq Clocked /\ Software \subseteq Processes
  /\ Synchronous \subseteq Processes
BY SchedulerAssumption, ProcessSyncAssumption DEF Clocked, Software, Doomed, Records, AllRecords

\* Timers with the reasons they had are doomed if they were.
LEMMA SameDoomed ==
  ASSUME SameTimerReasons
  PROVE  \A x : Doomed(x)' <=> Doomed(x)
BY DEF SameTimerReasons, Doomed

\* The same order has the same positions.
LEMMA SamePositions ==
  ASSUME NEW l, NEW m, m.order = l.order
  PROVE  \A x, y : Position(m, x) = Position(l, x) /\ (Before(m, x, y) <=> Before(l, x, y))
BY DEF Position, Before

\* What is upcoming after the cursor has moved on is what was, without the next.
LEMMA NextUpcoming ==
  ASSUME NEW l, ListOfAll(l), NEW m, m = RecordSearchNext(l), l.past = "none"
  PROVE  /\ \A x, y : Before(m, x, y) <=> Before(l, x, y)
         /\ \A x \in AllRecords : Upcoming(m, x) => Upcoming(l, x)
         /\ LastIfPast(m)
         /\ \/ m.past = "next" /\ m.cursor = l.cursor
            \/ /\ m.past = "none" /\ m.cursor \in AllRecords /\ Upcoming(l, m.cursor) /\ IsNext(l, m.cursor)
               /\ \A x \in AllRecords : Upcoming(l, x) => x = m.cursor \/ Upcoming(m, x)
<1>1. /\ m.order = l.order /\ m.cursor \in AllRecords
      /\ \/ /\ m.cursor = l.cursor /\ m.past = "next"
            /\ \A x \in AllRecords \ {l.cursor} : Before(l, x, l.cursor)
         \/ m.past = "none" /\ IsNext(l, m.cursor)
  BY NextGives DEF ListOfAll
<1>2. \A x, y : Before(m, x, y) <=> Before(l, x, y)
  BY <1>1, SamePositions
<1>3. CASE m.cursor = l.cursor /\ m.past = "next"
  BY <1>1, <1>2, <1>3 DEF Upcoming, LastIfPast
<1>4. CASE m.past = "none" /\ IsNext(l, m.cursor)
  <2> DEFINE n == m.cursor
             A(x, y) == Before(l, x, y)
  <2>1. A(l.cursor, n) /\ \A x \in AllRecords : A(l.cursor, x) => x = n \/ A(n, x)
    BY <1>1, <1>4, NextIsFirst
  <2>2. l.cursor \in AllRecords /\ \A x, y, z \in AllRecords : A(x, y) /\ A(y, z) => A(x, z)
    BY BeforeIsOrder DEF ListOfAll
  <2>3. \A x \in AllRecords : Upcoming(m, x) <=> A(n, x)
    BY <1>2, <1>4 DEF Upcoming
  <2>4. \A x \in AllRecords : Upcoming(l, x) <=> A(l.cursor, x)
    BY DEF Upcoming
  <2> HIDE DEF A, n
  <2>5. /\ \A x \in AllRecords : Upcoming(m, x) => Upcoming(l, x)
        /\ \A x \in AllRecords : Upcoming(l, x) => x = n \/ Upcoming(m, x)
        /\ Upcoming(l, n)
    BY <1>1, <2>1, <2>2, <2>3, <2>4 DEF n
  <2> QED
    BY <1>1, <1>2, <1>4, <2>5 DEF n, LastIfPast
<1> QED
  BY <1>1, <1>3, <1>4

-----------------------------------------------------------------------------
(* Steps that leave the list alone.                                        *)

\* A list left alone has what it had at hand.
LEMMA ListStands ==
  ASSUME Orderly, UNCHANGED <<list, simTime, now, phase>>, SameTimerReasons
  PROVE  /\ Sorted' /\ NotPast' /\ LastIfPast(list)'
         /\ \A x : (AtHand(x)' <=> AtHand(x)) /\ (Doomed(x)' <=> Doomed(x))
<1>1. \A x : (AtHand(x)' <=> AtHand(x)) /\ (Doomed(x)' <=> Doomed(x))
  BY SameDoomed DEF AtHand, Upcoming, Before, Position
<1>2. \A x, y : /\ Before(list, x, y)' <=> Before(list, x, y)
                /\ Upcoming(list, x)' <=> Upcoming(list, x)
                /\ Later(simTime, x, y)' <=> Later(simTime, x, y)
  BY DEF Before, Position, Upcoming, Later
<1>3. LastIfPast(list)'
  BY DEF LastIfPast, Before, Position, Orderly
<1> QED
  BY <1>1, <1>2, <1>3 DEF Orderly, Sorted, NotPast

\* A process that is run or calls keeps the order.
LEMMA CalmStays ==
  ASSUME SchedOK, ListInv', Calm
  PROVE  StaysOrderly
<1>1. /\ Sorted' /\ NotPast' /\ LastIfPast(list)'
      /\ \A x : (AtHand(x)' <=> AtHand(x)) /\ (Doomed(x)' <=> Doomed(x))
  BY ListStands DEF SchedOK, Calm, SameTimers
<1>2. UNCHANGED <<list, simTime, now, clock, phase, deltaEvents, abort, fault, timerState, timerDoneList>>
      /\ (current' = current \/ simTime[current'] <= now) /\ SameTimerReasons
  BY DEF Calm, SameTimers
<1>3. \A x, y : (Before(list, x, y)' <=> Before(list, x, y)) /\ (Upcoming(list, x)' <=> Upcoming(list, x))
                 /\ (IsNext(list, x)' <=> IsNext(list, x))
  BY <1>2 DEF Before, Position, Upcoming, IsNext
<1>4. EdgesToCome'
  BY <1>1, <1>2, <1>3 DEF SchedOK, Orderly, EdgesToCome
<1>5. SoftwareFirst'
  BY <1>1, <1>2, <1>3 DEF SchedOK, Orderly, SoftwareFirst, SameTimerReasons
<1>6. TimersDone'
  <2>1. ASSUME phase' = "Run", timerDoneList' # <<>> PROVE current' = NoProcess /\ \A p \in Software : ~ AtHand(p)'
    <3>1. current = NoProcess /\ \A p \in Software : ~ AtHand(p)
      BY <1>2, <2>1 DEF SchedOK, Orderly, TimersDone
    <3>2. ASSUME current' # NoProcess PROVE FALSE
      <4>1. current' \in Software /\ list'.cursor = current' /\ list'.past = "none"
        BY <2>1, <3>2 DEF ListInv, Runners, CursorInv, RunsAtCursor
      <4>2. AtHand(current')
        BY <1>2, <2>1, <4>1 DEF AtHand
      <4> QED
        BY <3>1, <4>1, <4>2
    <3> QED
      BY <1>1, <3>1, <3>2
  <2> QED
    BY <1>2, <2>1 DEF SchedOK, Orderly, TimersDone
<1>7. ClocksAhead'
  BY <1>2, <1>3 DEF SchedOK, Orderly, ClocksAhead, Before, Position, EdgeIncr
<1>8. OrderAsserted'
  BY <1>2 DEF SchedOK, Healthy, OrderAsserted, ForwardProgress, FlushedTimerCompleted
<1> QED
  BY <1>1, <1>4, <1>5, <1>6, <1>7, <1>8 DEF StaysOrderly, Orderly

\* A flush function that wakes nobody keeps the order.
LEMMA FlushesOnStays ==
  ASSUME SchedOK, ListInv', FlushesOn
  PROVE  StaysOrderly
<1>1. /\ UNCHANGED <<list, simTime, now, clock, abort, current, timerState>> /\ SameTimerReasons
      /\ phase \in Flushes \ {"Advance"} /\ phase' \in Flushes \ {"Advance"}
      /\ deltaEvents => deltaEvents'
  BY DEF FlushesOn, InCycle
<1>2. \A x, y : /\ Before(list, x, y)' <=> Before(list, x, y)
                /\ Upcoming(list, x)' <=> Upcoming(list, x)
                /\ IsNext(list, x)' <=> IsNext(list, x)
                /\ Later(simTime, x, y)' <=> Later(simTime, x, y)
  BY <1>1 DEF Before, Position, Upcoming, Later, IsNext
<1>3. \A x : (AtHand(x)' <=> AtHand(x)) /\ (Doomed(x)' <=> Doomed(x))
  BY <1>1, <1>2, SameDoomed DEF AtHand, Flushes
<1>4. Sorted' /\ LastIfPast(list)'
  BY <1>1, <1>2, <1>3 DEF SchedOK, Orderly, Sorted, LastIfPast, Before, Position
<1>5. NotPast'
  BY <1>1, <1>2, <1>3 DEF SchedOK, Orderly, NotPast, Flushes
<1>6. EdgesToCome'
  BY <1>1, <1>2, <1>3 DEF SchedOK, Orderly, EdgesToCome, Flushes
<1>7. SoftwareFirst'
  BY <1>1, <1>2, <1>3 DEF SchedOK, Orderly, SoftwareFirst, SameTimerReasons
<1>8. TimersDone'
  <2>1. timerDoneList \in Seq(Timers)
    BY DEF SchedOK, ListInv, TypeOK, TimerTypeOK
  <2>2. \A i \in DOMAIN timerDoneList' : \E j \in DOMAIN timerDoneList : timerDoneList'[i] = timerDoneList[j]
    <3>1. CASE timerDoneList' = timerDoneList
      BY <3>1
    <3>2. CASE timerDoneList # <<>> /\ timerDoneList' = Tail(timerDoneList)
      <4> DEFINE q == timerDoneList
      <4>1. Len(q) \in Nat /\ DOMAIN q = 1..Len(q)
        BY <2>1, LenProperties
      <4>2. /\ Tail(q) \in Seq(Timers) /\ Len(Tail(q)) = Len(q) - 1
            /\ \A i \in 1..Len(q) - 1 : Tail(q)[i] = q[i+1]
        BY <2>1, <3>2, <4>1, HeadTailProperties
      <4>3. DOMAIN Tail(q) = 1..Len(q) - 1
        BY <4>2, LenProperties
      <4> HIDE DEF q
      <4>4. \A i \in DOMAIN Tail(q) : i + 1 \in DOMAIN q /\ Tail(q)[i] = q[i + 1]
        BY <4>1, <4>2, <4>3
      <4> QED
        BY <3>2, <4>4 DEF q
    <3> QED
      BY <3>1, <3>2 DEF FlushesOn
  <2>3. \A i \in DOMAIN timerDoneList : timerState[timerDoneList[i]] = "Completed"
    BY DEF SchedOK, Orderly, TimersDone
  <2>4. (timerDoneList # <<>>)' => phase' = "Timers"
    BY DEF FlushesOn
  <2> QED
    BY <1>1, <2>2, <2>3, <2>4 DEF TimersDone, Flushes
<1>9. ClocksAhead'
  BY <1>1, <1>2 DEF SchedOK, Orderly, ClocksAhead, Before, Position, EdgeIncr
<1>10. OrderAsserted'
  BY <1>1 DEF SchedOK, Healthy, OrderAsserted, ForwardProgress, FlushedTimerCompleted, FlushesOn
<1> QED
  BY <1>4, <1>5, <1>6, <1>7, <1>8, <1>9, <1>10 DEF StaysOrderly, Orderly

\* The edges of this time are done when the record at the cursor is none of
\* them: no other clock or process of a clock is due, for it would be sorted
\* before.
LEMMA EdgeIsDoneStays ==
  ASSUME SchedOK, ListInv', EdgeIsDone
  PROVE  StaysOrderly
<1>1. /\ UNCHANGED <<list, simTime, now, clock, deltaEvents, abort, fault, current, timerState, timerDoneList>>
      /\ SameTimerReasons /\ phase = "Step8" /\ phase' = "Run" /\ current = NoProcess
  BY DEF EdgeIsDone, SameTimers
<1>2. \A x, y : /\ Before(list, x, y)' <=> Before(list, x, y)
                /\ Upcoming(list, x)' <=> Upcoming(list, x)
                /\ Later(simTime, x, y)' <=> Later(simTime, x, y)
  BY <1>1 DEF Before, Position, Upcoming, Later
<1>3. \A x : (AtHand(x)' <=> AtHand(x)) /\ (Doomed(x)' <=> Doomed(x))
  BY <1>1, <1>2, SameDoomed DEF AtHand
<1>4. Sorted' /\ LastIfPast(list)'
  BY <1>1, <1>2, <1>3 DEF SchedOK, Orderly, Sorted, LastIfPast, Before, Position
<1>5. NotPast'
  BY <1>1, <1>2, <1>3 DEF SchedOK, Orderly, NotPast
<1>6. EdgesToCome'
  <2>1. ASSUME ~ (Doomed(list.cursor) /\ simTime[list.cursor] <= now), NEW x \in Clocked, AtHand(x)
        PROVE  simTime[x] > now
    <3> DEFINE c == list.cursor
    <3>1. list.past = "none" /\ c \in AllRecords /\ x \in AllRecords /\ (x = c \/ Before(list, c, x)) /\ AtHand(c)
      BY <1>1, <2>1, Kinships DEF AtHand, Upcoming, SchedOK, ListInv, ListTyped, ListOfAll
    <3>2. simTime[x] >= now /\ simTime[x] \in Nat /\ simTime[c] \in Nat /\ now \in Nat /\ ~ Doomed(x)
      BY <1>1, <2>1, <3>1, Kinships DEF SchedOK, Orderly, NotPast, ListInv, ListTyped
    <3>3. ~ Doomed(c) => simTime[c] >= now
      BY <1>1, <3>1 DEF SchedOK, Orderly, NotPast
    <3>4. c \in Clocked => simTime[c] # now
      BY <3>1 DEF EdgeIsDone
    <3>5. ASSUME simTime[x] = now PROVE FALSE
      <4>1. x # c
        BY <2>1, <3>4, <3>5
      <4>2. ~ Later(simTime, c, x)
        BY <3>1, <3>2, <4>1 DEF SchedOK, Orderly, Sorted
      <4>3. simTime[c] <= now /\ (simTime[c] = now => Region(c) <= Region(x))
        BY <2>1, <3>2, <3>5, <4>2, RegionTyped DEF Later
      <4>4. simTime[c] = now /\ ~ Doomed(c)
        BY <2>1, <3>2, <3>3, <4>3
      <4>5. Region(x) <= 3 /\ Region(x) \in 1..5 /\ Region(c) \in 1..5
        BY <2>1, RegionTyped DEF Clocked
      <4>6. c \in Clocked
        BY <3>1, <4>3, <4>4, <4>5, RegionTyped DEF AllRecords, Records, Clocked, Software
      <4> QED
        BY <3>4, <4>4, <4>6
    <3> QED
      BY <3>2, <3>5
  <2> QED
    BY <1>1, <1>3, <2>1 DEF EdgesToCome, Flushes
<1>7. SoftwareFirst'
  BY <1>1, <1>2, <1>3 DEF SchedOK, Orderly, SoftwareFirst, SameTimerReasons
<1>8. TimersDone'
  BY <1>1 DEF SchedOK, Orderly, TimersDone
<1>9. ClocksAhead'
  BY <1>1, <1>2 DEF SchedOK, Orderly, ClocksAhead, Before, Position, EdgeIncr, Flushes
<1>10. OrderAsserted'
  BY <1>1 DEF SchedOK, Healthy, OrderAsserted, ForwardProgress, FlushedTimerCompleted
<1> QED
  BY <1>4, <1>5, <1>6, <1>7, <1>8, <1>9, <1>10 DEF StaysOrderly, Orderly

-----------------------------------------------------------------------------
(* Steps on which the cursor moves on.                                      *)

\* An assert that fails leaves the list as it is, or one further.
LEMMA FailsStays ==
  ASSUME SchedOK, ListInv', Fails
  PROVE  StaysOrderly
<1>1. /\ UNCHANGED <<simTime, now, phase>> /\ SameTimerReasons
      /\ list' = list \/ list' = RecordSearchNext(list)
      /\ ListOfAll(list)
  BY DEF Fails, SchedOK, ListInv, ListTyped
<1>2. OrderAsserted' /\ ~ Healthy'
  BY DEF Fails, SchedOK, Healthy, OrderAsserted, ForwardProgress, FlushedTimerCompleted
<1>3. CASE list' = list
  BY <1>1, <1>2, <1>3, ListStands DEF SchedOK, StaysOrderly
<1>4. CASE list' = RecordSearchNext(list) /\ list' # list
  <2>1. list.past = "none"
    BY <1>1, <1>4, NextGives
  <2>2. /\ \A x, y : Before(list', x, y) <=> Before(list, x, y)
        /\ \A x \in AllRecords : Upcoming(list', x) => Upcoming(list, x)
        /\ \/ list'.past = "next"
           \/ list'.past = "none" /\ Upcoming(list, list'.cursor) /\ list'.cursor \in AllRecords
    BY <1>1, <1>4, <2>1, NextUpcoming
  <2>3. \A x \in AllRecords : AtHand(x)' => Upcoming(list, x)
    BY <1>1, <2>2 DEF AtHand
  <2>4. \A x, y : (Before(list, x, y)' <=> Before(list, x, y)) /\ (Doomed(x)' <=> Doomed(x))
                  /\ (Later(simTime, x, y)' <=> Later(simTime, x, y))
    <3>1. \A x, y : Before(list, x, y)' <=> Before(list, x, y)
      BY <2>2 DEF Before, Position
    <3>2. \A x, y : Later(simTime, x, y)' <=> Later(simTime, x, y)
      BY <1>1 DEF Later
    <3> QED
      BY <1>1, <3>1, <3>2, SameDoomed
  <2>5. Sorted'
    BY <2>3, <2>4 DEF SchedOK, Orderly, Sorted, AtHand
  <2>6. NotPast'
    BY <1>1, <2>3, <2>4 DEF SchedOK, Orderly, NotPast, AtHand
  <2> QED
    BY <1>2, <2>5, <2>6 DEF StaysOrderly
<1> QED
  BY <1>1, <1>3, <1>4

\* Where a step that moves on leaves what is at hand.
MovedOver ==
  /\ \A x \in AllRecords : AtHand(x)' <=> Upcoming(list, x)
  /\ \A x \in AllRecords : Upcoming(list, x)' => Upcoming(list, x)
  /\ \A x, y : Before(list, x, y)' <=> Before(list, x, y)

\* The cursor moves on to the next record, or flags the end.
LEMMA MovesOver ==
  ASSUME SchedOK, ListInv', Moves
  PROVE  MovedOver /\ LastIfPast(list)'
<1>1. ListOfAll(list) /\ list.past = "none" /\ list' = RecordSearchNext(list)
      /\ phase' = phase /\ phase \in {"Run", "Step8"} /\ list.cursor \in AllRecords
  BY DEF Moves, SchedOK, ListInv, ListTyped, ListOfAll
<1>2. /\ \A x, y : Before(list', x, y) <=> Before(list, x, y)
      /\ \A x \in AllRecords : Upcoming(list', x) => Upcoming(list, x)
      /\ LastIfPast(list')
      /\ \/ list'.past = "next" /\ list'.cursor = list.cursor
         \/ /\ list'.past = "none" /\ list'.cursor \in AllRecords /\ Upcoming(list, list'.cursor)
            /\ \A x \in AllRecords : Upcoming(list, x) => x = list'.cursor \/ Upcoming(list', x)
  BY <1>1, NextUpcoming
<1>3. \A x, y : Before(list, x, y)' <=> Before(list, x, y)
  BY <1>2 DEF Before, Position
<1>4. \A x : Upcoming(list, x)' <=> Upcoming(list', x)
  BY DEF Upcoming, Before, Position
<1>5. LastIfPast(list)'
  BY <1>2 DEF LastIfPast, Before, Position
<1>6. CASE list'.past = "next" /\ list'.cursor = list.cursor
  <2>1. \A x \in AllRecords : ~ Upcoming(list, x)
    <3>1. \A x, y \in AllRecords : ~ Before(list, x, x) /\ (Before(list, x, y) => ~ Before(list, y, x))
      BY <1>1, BeforeIsOrder
    <3>2. \A x \in AllRecords \ {list.cursor} : Before(list, x, list.cursor)
      BY <1>2, <1>6 DEF LastIfPast
    <3> QED
      BY <1>1, <3>1, <3>2 DEF Upcoming
  <2> QED
    BY <1>2, <1>3, <1>4, <1>5, <1>6, <2>1 DEF MovedOver, AtHand
<1>7. CASE list'.past = "none"
  BY <1>1, <1>2, <1>3, <1>4, <1>5, <1>7 DEF MovedOver, AtHand
<1> QED
  BY <1>2, <1>6, <1>7

\* A step that moves the cursor on keeps the order of what is left at hand.
LEMMA MovesInOrder ==
  ASSUME SchedOK, ListInv', Moves, ~ Doomed(list.cursor),
         \A x \in AllRecords \ {list.cursor} : Doomed(x)' <=> Doomed(x)
  PROVE  Sorted' /\ NotPast' /\ EdgesToCome' /\ ClocksAhead'
<1>1. /\ UNCHANGED <<simTime, now, clock, phase, deltaEvents>> /\ phase \in {"Run", "Step8"}
      /\ list' = RecordSearchNext(list) /\ list.past = "none" /\ list.cursor \notin Clocks
      /\ list.cursor \in AllRecords /\ ListOfAll(list)
  BY DEF Moves, SchedOK, ListInv, ListTyped, ListOfAll
<1>2. /\ \A x \in AllRecords : AtHand(x)' <=> Upcoming(list, x)
      /\ \A x, y : Before(list, x, y)' <=> Before(list, x, y)
  BY MovesOver DEF MovedOver
<1>3. \A x \in AllRecords : Upcoming(list, x) => AtHand(x) /\ x # list.cursor
  <2>1. ~ Before(list, list.cursor, list.cursor)
    BY <1>1, BeforeIsOrder
  <2> QED
    BY <2>1 DEF AtHand, Upcoming
<1>4. \A x, y : Later(simTime, x, y)' <=> Later(simTime, x, y)
  BY <1>1 DEF Later
<1>5. Sorted'
  <2>1. ASSUME NEW x \in AllRecords, NEW y \in AllRecords, Upcoming(list, x), Before(list, x, y), ~ Doomed(y)'
        PROVE  ~ Later(simTime, x, y)
    <3>1. y # list.cursor
      <4>1. Before(list, list.cursor, x) /\ \A u, v \in AllRecords : Before(list, u, v) => ~ Before(list, v, u)
        BY <1>1, <2>1, BeforeIsOrder DEF Upcoming
      <4> QED
        BY <2>1, <4>1
    <3> QED
      BY <1>3, <2>1, <3>1 DEF SchedOK, Orderly, Sorted
  <2> QED
    BY <1>2, <1>4, <2>1 DEF Sorted
<1>6. NotPast'
  BY <1>1, <1>2, <1>3 DEF SchedOK, Orderly, NotPast
<1>7. EdgesToCome'
  BY <1>1, <1>2, <1>3, Kinships DEF SchedOK, Orderly, EdgesToCome, Flushes
<1>8. ClocksAhead'
  <2>1. /\ \A c \in Clocks : c \in AllRecords /\ ~ Before(list, c, list.cursor)
        /\ \A c \in Clocks : clock[c].state = "Running" /\ ~ clock[c].suspend /\ simTime[c] <= now + HalfPeriod[c]
        /\ \A p \in Synchronous : EdgeIncr(clock, p) >= HalfPeriod[ClockOf[p]]
    BY <1>1 DEF SchedOK, Orderly, ClocksAhead, AllRecords
  <2>2. \/ list'.past = "next" /\ list'.cursor = list.cursor
        \/ /\ list'.past = "none" /\ list'.cursor \in AllRecords /\ IsNext(list, list'.cursor)
    BY <1>1, NextUpcoming
  <2>3. ASSUME NEW c \in Clocks PROVE ~ Before(list, c, list'.cursor)
    <3>1. CASE list'.cursor = list.cursor
      BY <2>1, <3>1
    <3>2. CASE list'.cursor \in AllRecords /\ IsNext(list, list'.cursor)
      <4> DEFINE A(x, y) == Before(list, x, y)
                 n == list'.cursor
      <4>1. \A x \in AllRecords : A(list.cursor, x) => x = n \/ A(n, x)
        BY <1>1, <3>2, NextIsFirst
      <4>2. \A x, y \in AllRecords : ~ A(x, x) /\ (A(x, y) => ~ A(y, x)) /\ (x # y => A(x, y) \/ A(y, x))
        BY <1>1, BeforeIsOrder
      <4>3. c \in AllRecords /\ ~ A(c, list.cursor) /\ c # list.cursor /\ n \in AllRecords
        BY <1>1, <2>1, <3>2
      <4> HIDE DEF A, n
      <4>4. ~ A(c, n)
        BY <1>1, <4>1, <4>2, <4>3
      <4> QED
        BY <4>4 DEF A, n
    <3> QED
      BY <2>2, <3>1, <3>2
  <2>4. \A c \in Clocks : ~ Before(list, c, list.cursor)'
    BY <1>2, <2>3
  <2>5. list'.cursor \in Clocks => list'.past = "none" /\ phase' \notin Flushes
    BY <1>1, <2>2 DEF Flushes
  <2>6. \A p : EdgeIncr(clock, p)' = EdgeIncr(clock, p)
    BY <1>1 DEF EdgeIncr
  <2> QED
    BY <1>1, <2>1, <2>4, <2>5, <2>6 DEF ClocksAhead
<1> QED
  BY <1>5, <1>6, <1>7, <1>8

\* A record that is passed over keeps the order.
LEMMA PassesStays ==
  ASSUME SchedOK, ListInv', Passes
  PROVE  StaysOrderly
<1>1. /\ UNCHANGED <<simTime, now, phase, abort, fault, timerState, timerDoneList>> /\ SameTimerReasons
      /\ current' = NoProcess /\ Moves /\ ~ Doomed(list.cursor)
  BY DEF Passes, Moves, SameTimers
<1>2. Sorted' /\ NotPast' /\ EdgesToCome' /\ ClocksAhead'
  BY <1>1, SameDoomed, MovesInOrder
<1>3. MovedOver /\ LastIfPast(list)' /\ \A x : Doomed(x)' <=> Doomed(x)
  BY <1>1, MovesOver, SameDoomed
<1>4. \A x \in AllRecords : AtHand(x)' => AtHand(x)
  BY <1>3 DEF MovedOver, AtHand
<1>5. SoftwareFirst'
  BY <1>1, <1>3, <1>4, Kinships DEF SchedOK, Orderly, SoftwareFirst, SameTimerReasons, MovedOver
<1>6. TimersDone'
  BY <1>1, <1>4, Kinships DEF SchedOK, Orderly, TimersDone
<1>7. OrderAsserted'
  BY <1>1 DEF SchedOK, Healthy, OrderAsserted, ForwardProgress, FlushedTimerCompleted
<1> QED
  BY <1>2, <1>3, <1>5, <1>6, <1>7 DEF StaysOrderly, Orderly

\* No process that could restart the timer is left to run at this time.
LEMMA CompletesStays ==
  ASSUME SchedOK, ListInv', NEW t \in Timers, Completes(t)
  PROVE  StaysOrderly
<1>1. /\ UNCHANGED <<simTime, now, phase, abort, fault>> /\ phase = "Run" /\ current' = NoProcess /\ Moves
      /\ list.cursor = t /\ list.past = "none" /\ simTime[t] <= now /\ Len(reasons[t]) = 1
      /\ timerDoneList' = Append(timerDoneList, t)
      /\ timerState' = [timerState EXCEPT ![t] = "Completed"]
      /\ reasons' = [reasons EXCEPT ![t] = <<>>]
  BY DEF Completes, Moves
<1>2. timerDoneList \in Seq(Timers) /\ timerState \in [Timers -> TimerStates] /\ reasons \in [Records -> Seq(Reasons)] /\ Timers \subseteq Records
  BY DEF SchedOK, ListInv, TypeOK, TimerTypeOK, SyncTypeOK, Records
<1>3. ~ Doomed(t) /\ reasons[t] # <<>> /\ reasons'[t] = <<>> /\ \A u \in Timers \ {t} : reasons'[u] = reasons[u]
  <2>1. reasons[t] # <<>>
    BY <1>1
  <2>2. ~ (Len(reasons[t]) > 1)
    BY <1>1
  <2> QED
    BY <1>1, <1>2, <2>1, <2>2 DEF Doomed
<1>4. \A x \in AllRecords \ {list.cursor} : Doomed(x)' <=> Doomed(x)
  BY <1>1, <1>3 DEF Doomed
<1>5. Sorted' /\ NotPast' /\ EdgesToCome' /\ ClocksAhead'
  BY <1>1, <1>3, <1>4, MovesInOrder
<1>6. MovedOver /\ LastIfPast(list)'
  BY <1>1, MovesOver
<1>7. \A x \in AllRecords : AtHand(x)' => AtHand(x) /\ x # t
  <2>1. ListOfAll(list) /\ t \in AllRecords
    BY Kinships DEF SchedOK, ListInv, ListTyped
  <2>2. ~ Before(list, t, t)
    BY <2>1, BeforeIsOrder
  <2> QED
    BY <1>1, <1>6, <2>2 DEF MovedOver, AtHand, Upcoming
<1>8. \A p \in Software : ~ AtHand(p)'
  <2>1. AtHand(t)
    BY <1>1 DEF AtHand
  <2>2. ASSUME NEW p \in Software, AtHand(p)' PROVE FALSE
    <3>1. p \in AllRecords /\ Before(list, t, p)
      BY <1>1, <1>6, <2>2, Kinships DEF MovedOver, Upcoming
    <3> QED
      BY <1>3, <2>1, <3>1 DEF SchedOK, Orderly, SoftwareFirst
  <2> QED
    BY <2>2
<1>9. SoftwareFirst'
  <2>1. \A u \in Timers, p \in Software :
           AtHand(u)' /\ Before(list, u, p)' => (reasons[u] = <<>> \/ Doomed(u))'
    <3>1. ASSUME NEW u \in Timers, NEW p \in Software, AtHand(u)', Before(list, u, p)'
          PROVE  (reasons[u] = <<>> \/ Doomed(u))'
      <4>1. AtHand(u) /\ u # t /\ Before(list, u, p) /\ u \in AllRecords
        BY <1>6, <1>7, <3>1, Kinships DEF MovedOver
      <4>2. reasons[u] = <<>> \/ Doomed(u)
        BY <4>1 DEF SchedOK, Orderly, SoftwareFirst
      <4> QED
        BY <1>1, <1>3, <1>4, <4>1, <4>2
    <3> QED
      BY <3>1
  <2>2. \A u \in Timers : reasons'[u] = <<>> => simTime[u] <= now
    BY <1>1, <1>3 DEF SchedOK, Orderly, SoftwareFirst
  <2> QED
    BY <1>1, <2>1, <2>2 DEF SchedOK, Orderly, SoftwareFirst
<1>10. TimersDone'
  <2>1. \A i \in DOMAIN timerDoneList' : timerDoneList'[i] = t \/ \E j \in DOMAIN timerDoneList : timerDoneList'[i] = timerDoneList[j]
    BY <1>1, <1>2, AppendProperties, LenProperties
  <2>2. \A j \in DOMAIN timerDoneList : timerState[timerDoneList[j]] = "Completed" /\ timerDoneList[j] \in Timers
    BY <1>2, ElementOfSeq, LenProperties DEF SchedOK, Orderly, TimersDone
  <2>3. \A i \in DOMAIN timerDoneList' : timerState'[timerDoneList'[i]] = "Completed"
    BY <1>1, <1>2, <2>1, <2>2
  <2> QED
    BY <1>1, <1>8, <2>3 DEF TimersDone
<1>11. OrderAsserted'
  BY <1>1 DEF SchedOK, Healthy, OrderAsserted, ForwardProgress, FlushedTimerCompleted
<1> QED
  BY <1>5, <1>6, <1>9, <1>10, <1>11 DEF StaysOrderly, Orderly

\* A clock that the cursor has not passed is not passed by one step of it.
LEMMA ClockNotPassed ==
  ASSUME NEW l, ListOfAll(l), NEW n \in AllRecords, IsNext(l, n),
         NEW c \in Clocks, c # l.cursor, ~ Before(l, c, l.cursor)
  PROVE  ~ Before(l, c, n)
<1> DEFINE A(x, y) == Before(l, x, y)
<1>1. \A x \in AllRecords : A(l.cursor, x) => x = n \/ A(n, x)
  BY NextIsFirst
<1>2. \A x, y \in AllRecords : ~ A(x, x) /\ (A(x, y) => ~ A(y, x)) /\ (x # y => A(x, y) \/ A(y, x))
  BY BeforeIsOrder
<1>3. c \in AllRecords /\ ~ A(c, l.cursor) /\ c # l.cursor /\ l.cursor \in AllRecords
  BY Kinships DEF ListOfAll
<1> HIDE DEF A
<1>4. ~ A(c, n)
  BY <1>1, <1>2, <1>3
<1> QED
  BY <1>4 DEF A

\* What a search for the next element leaves at hand.
LEMMA SearchedOn ==
  ASSUME SchedOK, ListInv', list' = RecordSearchNext(list), phase \in Flushes
  PROVE  /\ \A x \in AllRecords : AtHand(x)' => Upcoming(list, x) /\ AtHand(x)
         /\ \A x, y : Before(list, x, y)' <=> Before(list, x, y)
         /\ LastIfPast(list)'
         /\ list'.past # "prev" => \A c \in Clocks : ~ Before(list, c, list.cursor)'
         /\ list'.cursor \in Clocks => list'.past \in {"none", "prev"}
<1>1. ListOfAll(list) /\ LastIfPast(list)
  BY DEF SchedOK, ListInv, ListTyped, Orderly
<1>2. /\ list.cursor \in Clocks => list.past = "prev"
      /\ list.past # "prev" => \A c \in Clocks : ~ Before(list, c, list.cursor)
  BY DEF SchedOK, Orderly, ClocksAhead
<1>3. CASE list.past # "none"
  <2>1. list' = list
    BY <1>1, <1>3, NextGives
  <2>2. \A x, y : Before(list, x, y)' <=> Before(list, x, y)
    BY <2>1 DEF Before, Position
  <2>3. LastIfPast(list)'
    BY <1>1, <2>1, <2>2 DEF LastIfPast
  <2> QED
    BY <1>2, <1>3, <2>1, <2>2, <2>3 DEF AtHand, Upcoming
<1>4. CASE list.past = "none"
  <2>1. /\ \A x, y : Before(list', x, y) <=> Before(list, x, y)
        /\ \A x \in AllRecords : Upcoming(list', x) => Upcoming(list, x)
        /\ LastIfPast(list')
        /\ \/ list'.past = "next" /\ list'.cursor = list.cursor
           \/ /\ list'.past = "none" /\ list'.cursor \in AllRecords /\ Upcoming(list, list'.cursor)
              /\ IsNext(list, list'.cursor)
    BY <1>1, <1>4, NextUpcoming
  <2>2. \A x, y : (Before(list, x, y)' <=> Before(list, x, y))
    BY <2>1 DEF Before, Position
  <2>3. LastIfPast(list)' /\ \A x : Upcoming(list, x)' <=> Upcoming(list', x)
    BY <2>1 DEF LastIfPast, Upcoming, Before, Position
  <2>4. \A x \in AllRecords : AtHand(x)' => Upcoming(list, x) /\ AtHand(x)
    BY <2>1, <2>3 DEF AtHand
  <2>5. \A c \in Clocks : ~ Before(list, c, list'.cursor)
    BY <1>1, <1>2, <1>4, <2>1, ClockNotPassed
  <2>6. list'.cursor \in Clocks => list'.past \in {"none", "prev"}
    BY <1>2, <1>4, <2>1
  <2> QED
    BY <2>2, <2>3, <2>4, <2>5, <2>6
<1> QED
  BY <1>3, <1>4

\* The next delta cycle continues after the cursor, or time is to move.
LEMMA EndsCycleStays ==
  ASSUME SchedOK, ListInv', EndsCycle
  PROVE  StaysOrderly
<1>1. /\ UNCHANGED <<simTime, now, clock, abort, current, fault, timerState, timerDoneList>> /\ SameTimerReasons
      /\ list' = (IF deltaEvents THEN RecordSearchNext(list) ELSE list)
      /\ phase' = (IF deltaEvents THEN "Run" ELSE "Advance")
      /\ phase = "Block" /\ phase \in Flushes /\ ~ deltaEvents'
  BY DEF EndsCycle, SameTimers, Flushes
<1>2. /\ \A x \in AllRecords : AtHand(x)' => Upcoming(list, x) /\ AtHand(x)
      /\ \A x, y : Before(list, x, y)' <=> Before(list, x, y)
      /\ LastIfPast(list)'
      /\ list'.past # "prev" => \A c \in Clocks : ~ Before(list, c, list.cursor)'
      /\ list'.cursor \in Clocks => \/ list'.past = "prev"
                                    \/ list'.past = "none" /\ phase' \notin Flushes
  <2>1. CASE deltaEvents
    BY <1>1, <2>1, SearchedOn DEF Flushes
  <2>2. CASE ~ deltaEvents
    <3>1. list' = list /\ phase' = "Advance"
      BY <1>1, <2>2
    <3>2. \A x, y : Before(list, x, y)' <=> Before(list, x, y)
      BY <3>1 DEF Before, Position
    <3>3. LastIfPast(list)' /\ \A x : Upcoming(list, x)' <=> Upcoming(list, x)
      BY <3>1, <3>2 DEF LastIfPast, Upcoming, SchedOK, Orderly
    <3>4. \A x \in AllRecords : AtHand(x)' => Upcoming(list, x) /\ AtHand(x)
      BY <1>1, <3>1, <3>3 DEF AtHand
    <3> QED
      BY <1>1, <3>1, <3>2, <3>3, <3>4 DEF SchedOK, Orderly, ClocksAhead
  <2> QED
    BY <2>1, <2>2
<1>3. \A x, y : (Doomed(x)' <=> Doomed(x)) /\ (Later(simTime, x, y)' <=> Later(simTime, x, y))
  BY <1>1, SameDoomed DEF Later
<1>4. Sorted'
  BY <1>2, <1>3 DEF SchedOK, Orderly, Sorted
<1>5. NotPast'
  BY <1>1, <1>2, <1>3 DEF SchedOK, Orderly, NotPast
<1>6. EdgesToCome'
  <2>1. CASE deltaEvents
    <3>1. \A x \in Clocked : AtHand(x)' => simTime[x] > now
      BY <1>1, <1>2, Kinships DEF SchedOK, Orderly, EdgesToCome
    <3> QED
      BY <1>1, <2>1, <3>1 DEF EdgesToCome, Flushes
  <2>2. CASE ~ deltaEvents
    <3>1. list' = list /\ phase' = "Advance"
      BY <1>1, <2>2
    <3>2. \A x : (Upcoming(list, x)' <=> Upcoming(list, x)) /\ (IsNext(list, x)' <=> IsNext(list, x))
      BY <3>1 DEF Upcoming, Before, IsNext, Position
    <3> QED
      BY <1>1, <1>3, <2>2, <3>1, <3>2 DEF SchedOK, Orderly, EdgesToCome, Flushes
  <2> QED
    BY <2>1, <2>2
<1>7. SoftwareFirst'
  BY <1>1, <1>2, <1>3, Kinships DEF SchedOK, Orderly, SoftwareFirst, SameTimerReasons
<1>8. TimersDone'
  BY <1>1 DEF SchedOK, Orderly, TimersDone
<1>9. ClocksAhead'
  BY <1>1, <1>2 DEF SchedOK, Orderly, ClocksAhead, EdgeIncr
<1>10. OrderAsserted'
  BY <1>1 DEF SchedOK, Healthy, OrderAsserted, ForwardProgress, FlushedTimerCompleted
<1> QED
  BY <1>2, <1>4, <1>5, <1>6, <1>7, <1>8, <1>9, <1>10 DEF StaysOrderly, Orderly

\* Time moves, and forward: what is next is later than now.
LEMMA AdvancesStays ==
  ASSUME SchedOK, ListInv', Advances
  PROVE  StaysOrderly
<1> DEFINE n == list'.cursor
<1>1. /\ UNCHANGED <<simTime, clock, current, fault, timerState, timerDoneList>> /\ SameTimerReasons
      /\ list' = RecordSearchNext(list) /\ phase = "Advance" /\ phase \in Flushes
      /\ phase' \in {"Step8", "Finished"}
      /\ \/ list'.past # "none" /\ phase' = "Finished" /\ UNCHANGED <<now, abort>>
         \/ /\ list'.past = "none" /\ now' = simTime[n]
            /\ abort' = IF advanced /\ now' <= now THEN "noProgress" ELSE "none"
  BY DEF Advances, SameTimers, Flushes
<1>2. /\ \A x \in AllRecords : AtHand(x)' => Upcoming(list, x) /\ AtHand(x)
      /\ \A x, y : Before(list, x, y)' <=> Before(list, x, y)
      /\ LastIfPast(list)'
      /\ list'.past # "prev" => \A c \in Clocks : ~ Before(list, c, list.cursor)'
      /\ list'.cursor \in Clocks => list'.past \in {"none", "prev"}
  BY <1>1, SearchedOn
<1>3. \A x, y : (Doomed(x)' <=> Doomed(x)) /\ (Later(simTime, x, y)' <=> Later(simTime, x, y))
  BY <1>1, SameDoomed DEF Later
<1>4. simTime \in [AllRecords -> Nat] /\ now \in Nat /\ now' \in Nat
  BY DEF SchedOK, ListInv, ListTyped
<1>5. Sorted'
  BY <1>2, <1>3 DEF SchedOK, Orderly, Sorted
<1>6. /\ now' >= now /\ UNCHANGED abort
      /\ \A x \in AllRecords : AtHand(x)' /\ ~ Doomed(x)' => simTime[x] >= now'
  <2>1. CASE list'.past # "none"
    BY <1>1, <1>4, <2>1 DEF AtHand, Upcoming
  <2>2. CASE list'.past = "none"
    <3>1. ListOfAll(list) /\ list.past = "none"
      BY <1>1, <2>2, NextGives DEF SchedOK, ListInv, ListTyped
    <3>2. n \in AllRecords /\ Upcoming(list, n) /\ IsNext(list, n)
          /\ \A x, y : Before(list', x, y) <=> Before(list, x, y)
      BY <1>1, <2>2, <3>1, NextUpcoming
    <3>3. simTime[n] > now
      BY <1>1, <3>2 DEF SchedOK, Orderly, EdgesToCome
    <3>4. now' = simTime[n] /\ abort' = "none" /\ abort = "none"
      BY <1>1, <1>4, <2>2, <3>2, <3>3 DEF SchedOK, Healthy
    <3>5. ASSUME NEW x \in AllRecords, AtHand(x)', ~ Doomed(x)' PROVE simTime[x] >= now'
      <4>1. x = n \/ Before(list, n, x)
        <5>1. x = n \/ Before(list', n, x)
          BY <3>5 DEF AtHand, Upcoming, Before, Position
        <5> QED
          BY <3>2, <5>1
      <4>2. x = n \/ ~ Later(simTime, n, x)
        BY <1>3, <3>2, <3>5, <4>1 DEF AtHand, SchedOK, Orderly, Sorted
      <4>3. simTime[x] \in Nat /\ simTime[n] \in Nat
        BY <1>4, <3>2
      <4> QED
        BY <3>4, <4>2, <4>3 DEF Later
    <3> QED
      BY <1>4, <3>3, <3>4, <3>5
  <2> QED
    BY <2>1, <2>2
<1>7. NotPast'
  BY <1>1, <1>6 DEF NotPast
<1>8. EdgesToCome'
  BY <1>1 DEF EdgesToCome, Flushes
<1>9. SoftwareFirst'
  <2>1. \A r \in AllRecords : simTime[r] <= now => simTime[r] <= now'
    BY <1>4, <1>6
  <2>2. current' = current /\ (current # NoProcess => current \in AllRecords)
    BY <1>1, Kinships DEF SchedOK, ListInv, TypeOK, SyncTypeOK
  <2> QED
    BY <1>1, <1>2, <1>3, <2>1, <2>2, Kinships DEF SchedOK, Orderly, SoftwareFirst, SameTimerReasons
<1>10. TimersDone'
  BY <1>1 DEF SchedOK, Orderly, TimersDone
<1>11. ClocksAhead'
  <2>1. \A c \in Clocks : simTime[c] <= now' + HalfPeriod[c]
    <3>1. \A c \in Clocks : simTime[c] <= now + HalfPeriod[c]
      BY DEF SchedOK, Orderly, ClocksAhead
    <3>2. \A c \in Clocks : HalfPeriod[c] \in Nat /\ simTime[c] \in Nat
      BY <1>4, ClockAssumption, Kinships
    <3> QED
      BY <1>4, <1>6, <3>1, <3>2
  <2>2. \A p : EdgeIncr(clock, p)' = EdgeIncr(clock, p)
    BY <1>1 DEF EdgeIncr
  <2> QED
    BY <1>1, <1>2, <2>1, <2>2 DEF SchedOK, Orderly, ClocksAhead, Flushes
<1>12. OrderAsserted'
  BY <1>1, <1>6 DEF SchedOK, Healthy, OrderAsserted, ForwardProgress, FlushedTimerCompleted
<1> QED
  BY <1>2, <1>5, <1>7, <1>8, <1>9, <1>10, <1>11, <1>12 DEF StaysOrderly, Orderly

\* The record at the cursor is later: the cursor steps back, and it is the next.
LEMMA StopsStays ==
  ASSUME SchedOK, ListInv', Stops
  PROVE  StaysOrderly
<1>1. /\ UNCHANGED <<simTime, now, clock, abort, fault, deltaEvents, current, timerState, timerDoneList>>
      /\ SameTimerReasons /\ current = NoProcess
      /\ phase = "Run" /\ phase' = "Timers" /\ phase' \in Flushes
  BY DEF Stops, SameTimers, Flushes
<1>2. \A x, y : (Doomed(x)' <=> Doomed(x)) /\ (Later(simTime, x, y)' <=> Later(simTime, x, y))
  BY <1>1, SameDoomed DEF Later
<1>3. SUFFICES ASSUME TRUE
               PROVE  /\ Sorted' /\ NotPast' /\ EdgesToCome' /\ ClocksAhead' /\ LastIfPast(list)'
                      /\ \A t \in Timers, p \in Software : AtHand(t)' /\ Before(list, t, p)' => AtHand(t) /\ Before(list, t, p)
  <2>1. SoftwareFirst'
    BY <1>1, <1>2, <1>3 DEF SchedOK, Orderly, SoftwareFirst, SameTimerReasons
  <2>2. TimersDone'
    BY <1>1 DEF SchedOK, Orderly, TimersDone
  <2>3. OrderAsserted'
    BY <1>1 DEF SchedOK, Healthy, OrderAsserted, ForwardProgress, FlushedTimerCompleted
  <2> QED
    BY <1>3, <2>1, <2>2, <2>3 DEF StaysOrderly, Orderly
<1>4. ListOfAll(list) /\ simTime \in [AllRecords -> Nat] /\ now \in Nat /\ LastIfPast(list) /\ list.cursor \in AllRecords
  BY DEF SchedOK, ListInv, ListTyped, Orderly, ListOfAll
<1>5. CASE list'.past # "none" /\ list'.cursor = list.cursor /\ list'.order = list.order
           /\ (list'.past = list.past \/ list'.past = "prev")
  <2>1. \A x : ~ AtHand(x)' /\ ~ Upcoming(list, x)'
    BY <1>5 DEF AtHand, Upcoming
  <2>2. \A x, y : Before(list, x, y)' <=> Before(list, x, y)
    BY <1>5 DEF Before, Position
  <2>3. LastIfPast(list)'
    BY <1>4, <1>5, <2>2 DEF LastIfPast
  <2>4. ClocksAhead'
    BY <1>1, <1>5, <2>2 DEF SchedOK, Orderly, ClocksAhead, EdgeIncr
  <2> QED
    BY <1>1, <2>1, <2>3, <2>4 DEF Sorted, NotPast, EdgesToCome
<1>6. CASE /\ list.past = "none" /\ list'.past = "none" /\ list'.order = list.order /\ list'.cursor \in AllRecords
           /\ Position(list, list'.cursor) + 1 = Position(list, list.cursor)
           /\ list.cursor \in Clocked \/ simTime[list.cursor] > now
  <2> DEFINE n == list'.cursor
             c == list.cursor
             P(x) == Position(list, x)
             t(x) == simTime[x]
  <2>0. /\ \A x \in AllRecords : P(x) \in Int /\ t(x) \in Nat
        /\ \A x, y \in AllRecords : P(x) = P(y) => x = y
    <3>1. \A x \in AllRecords : Position(list, x) \in Int /\ list.order[Position(list, x)] = x
      BY <1>4, PositionIs
    <3> QED
      BY <1>4, <3>1
  <2>1. \A x, y : /\ Before(list, x, y)' <=> Before(list, x, y)
                  /\ Position(list, x)' = P(x)
    BY <1>6 DEF Before, Position
  <2>2. \A x \in AllRecords : Upcoming(list, x)' <=> x = c \/ Upcoming(list, x)
    <3>1. \A x \in AllRecords : Upcoming(list, x)' <=> P(n) < P(x)
      BY <1>6, <2>1 DEF Upcoming, Before
    <3>2. \A x \in AllRecords : Upcoming(list, x) <=> P(c) < P(x)
      BY <1>6 DEF Upcoming, Before
    <3>3. P(n) + 1 = P(c) /\ n \in AllRecords /\ c \in AllRecords
      BY <1>4, <1>6
    <3> HIDE DEF P, n, c
    <3> QED
      BY <2>0, <3>1, <3>2, <3>3
  <2>3. \A x \in AllRecords : AtHand(x)' <=> AtHand(x)
    BY <1>1, <1>6, <2>2 DEF AtHand, Flushes
  <2>4. AtHand(c)
    BY <1>1, <1>6 DEF AtHand
  <2>5. simTime[c] > now
    <3>1. c \in Clocked => ~ Doomed(c)
      BY Kinships
    <3> QED
      BY <1>1, <1>6, <2>4, <3>1 DEF SchedOK, Orderly, EdgesToCome
  <2>6. ASSUME NEW x \in AllRecords, AtHand(x), ~ Doomed(x) PROVE simTime[x] > now
    <3>1. x = c \/ Before(list, c, x)
      BY <1>6, <2>6 DEF AtHand, Upcoming
    <3>2. x = c \/ ~ Later(simTime, c, x)
      BY <1>4, <2>4, <2>6, <3>1 DEF SchedOK, Orderly, Sorted
    <3>3. simTime[x] \in Nat /\ simTime[c] \in Nat
      BY <1>4
    <3> QED
      BY <1>4, <2>5, <3>2, <3>3 DEF Later
  <2>7. Sorted'
    BY <1>2, <2>1, <2>3 DEF SchedOK, Orderly, Sorted
  <2>8. NotPast'
    <3>1. \A x \in AllRecords : simTime[x] > now => simTime[x] >= now
      BY <1>4
    <3> QED
      BY <1>1, <1>2, <2>3, <2>6, <3>1 DEF NotPast
  <2>9. EdgesToCome'
    <3>1. \A x \in AllRecords \ Software : Upcoming(list, x)' /\ ~ Doomed(x)' => simTime[x] > now
      BY <1>2, <2>2, <2>4, <2>6 DEF AtHand
    <3>2. \A x \in AllRecords : IsNext(list, x)' => x = c
      <4>1. \A x \in AllRecords : IsNext(list, x)' <=> P(x) = P(n) + 1
        BY <2>1, <1>6 DEF IsNext
      <4> QED
        BY <1>4, <1>6, <2>0, <4>1
    <3> QED
      BY <1>1, <2>5, <3>1, <3>2 DEF EdgesToCome, Flushes
  <2>10. ClocksAhead'
    <3>1. \A k \in Clocks : ~ (P(k) < P(c)) /\ k \in AllRecords
      BY <1>6, Kinships DEF SchedOK, Orderly, ClocksAhead, Before
    <3>2. \A k \in Clocks : ~ (P(k) < P(n)) /\ k # n
      <4>1. P(n) + 1 = P(c) /\ P(n) \in Int /\ P(c) \in Int /\ \A k \in Clocks : P(k) \in Int
        BY <1>4, <1>6, <2>0, <3>1
      <4> HIDE DEF P, c
      <4> QED
        BY <3>1, <4>1
    <3>3. \A k \in Clocks : ~ Before(list, k, list.cursor)'
      BY <2>1, <3>2 DEF Before
    <3>4. list'.cursor \notin Clocks
      BY <3>2
    <3> QED
      BY <1>1, <3>3, <3>4 DEF SchedOK, Orderly, ClocksAhead, EdgeIncr
  <2>11. LastIfPast(list)'
    BY <1>6 DEF LastIfPast
  <2> QED
    BY <2>1, <2>3, <2>7, <2>8, <2>9, <2>10, <2>11, Kinships
<1>7. CASE list.past # "none" /\ UNCHANGED list
  BY <1>5, <1>7
<1>8. CASE /\ list.past = "none" /\ list' = RecordSearchPrev(list)
           /\ list.cursor \in Clocked \/ simTime[list.cursor] > now
  BY <1>4, <1>5, <1>6, <1>8, PrevGives DEF ListOfAll
<1> QED
  BY <1>7, <1>8 DEF Stops

-----------------------------------------------------------------------------
(* A timer is started: its record moves, the cursor does not.               *)

\* What starting timer t does to list and times, and what t was before.
TimerPlaced(t) ==
  /\ list'.cursor = list.cursor /\ list.past = "none" /\ list'.past = "none"
  /\ list.cursor = current /\ current \in Processes
  /\ Rescheduled(list, list', simTime', t) /\ ListOfAll(list) /\ ListOfAll(list')
  /\ simTime' = [simTime EXCEPT ![t] = simTime'[t]] /\ simTime'[t] \in Nat /\ simTime'[t] >= now
  /\ \E d \in Durations \cup {0} : simTime'[t] = now + d
  /\ abort' = "none" /\ LastIfPast(list')
  /\ \A x \in AllRecords \ {t} : Upcoming(list', x) => Upcoming(list, x)
  /\ SameOthers(list, list', t)

\* Starting a timer gives the list and times TimerPlaced describes.
LEMMA StartGives ==
  ASSUME SchedOK, ListInv', NEW t \in Timers, Starts(t)
  PROVE  TimerPlaced(t)
<1>1. PICK d \in Durations \cup {0} : Take(ScheduleAt(Entries, t, now + d))
  BY DEF Starts
<1> DEFINE T == now + d
           e == ScheduleAt(Entries, t, T)
<1>0. d \in Nat
  BY SchedulerAssumption
<1>2. /\ ListTyped /\ now \in Nat /\ T \in Nat /\ T >= now /\ t \in AllRecords /\ abort = "none" /\ ListOfAll(list)
      /\ simTime \in [AllRecords -> Nat] /\ LastIfPast(list)
  BY <1>0, Kinships DEF SchedOK, ListInv, ListTyped, Healthy, Orderly
<1>3. current \in Processes /\ list.cursor = current /\ list.past = "none"
  BY DEF Starts, SchedOK, ListInv, CursorInv, RunsAtCursor, TypeOK, SyncTypeOK
<1>4. t # current
  BY <1>3, Kinships
<1> HIDE DEF T
<1>5. /\ EntriesOK(e) /\ e.times = [simTime EXCEPT ![t] = T]
      /\ e.abort = "none" /\ Rescheduled(list, e.list, e.times, t)
  <2>1. EntriesOK(Entries) /\ Entries.list = list /\ Entries.times = simTime /\ Entries.abort = "none"
    BY <1>2, EntriesTyped
  <2>2. /\ EntriesOK(e) /\ e.times = [Entries.times EXCEPT ![t] = T]
        /\ \/ e.abort = "unlinkCurrent" /\ t = Entries.list.cursor
           \/ e.abort = "none" /\ Rescheduled(Entries.list, e.list, e.times, t)
    BY <1>2, <2>1, ScheduleGives, ZenonT(60)
  <2> QED
    BY <1>3, <1>4, <2>1, <2>2
<1>6. list' = e.list /\ simTime' = e.times /\ abort' = e.abort
  BY <1>1 DEF Take, T
<1> HIDE DEF e
<1>7. simTime' = [simTime EXCEPT ![t] = T] /\ simTime'[t] = T /\ ListOfAll(list')
      /\ Rescheduled(list, list', simTime', t)
  BY <1>2, <1>5, <1>6 DEF EntriesOK
<1>8. /\ list'.cursor = list.cursor /\ LastIfPast(list')
      /\ \A x \in AllRecords \ {t} : Upcoming(list', x) => Upcoming(list, x)
      /\ SameOthers(list, list', t)
      /\ list'.past = "prev" <=> list.past = "prev"
      /\ list'.past = "next" => list.past = "next"
  BY <1>2, <1>7, ScheduledAround
<1>9. list'.past = "none"
  BY <1>3, <1>7, <1>8 DEF ListOfAll
<1>10. \E u \in Durations \cup {0} : simTime'[t] = now + u
  BY <1>7 DEF T
<1> QED
  BY <1>2, <1>3, <1>5, <1>6, <1>7, <1>8, <1>9, <1>10 DEF TimerPlaced

\* A timer that is started keeps the order.
LEMMA StartsStays ==
  ASSUME SchedOK, ListInv', NEW t \in Timers, Starts(t)
  PROVE  StaysOrderly
<1>1. TimerPlaced(t)
  BY StartGives
<1>2. /\ UNCHANGED <<now, clock, phase, deltaEvents, current, timerDoneList>>
      /\ current # NoProcess /\ phase \in {"Run", "Step8"}
      /\ reasons'[t] # <<>> /\ Len(reasons'[t]) = Len(reasons[t]) + 1
      /\ \A u \in Timers \ {t} : reasons'[u] = reasons[u]
      /\ fault' # "timerNotCompleted"
  BY DEF Starts
<1>3. /\ t \in AllRecords /\ t \notin Clocked /\ t # current /\ current \notin Clocks /\ current \in AllRecords
      /\ simTime \in [AllRecords -> Nat] /\ now \in Nat
      /\ simTime'[t] \in Nat /\ simTime'[t] >= now
      /\ \A x \in AllRecords \ {t} : simTime'[x] = simTime[x]
  BY <1>1, Kinships DEF SchedOK, ListInv, ListTyped, TimerPlaced
<1>4. \A x \in AllRecords \ {t} : Doomed(x)' <=> Doomed(x)
  BY <1>2 DEF Doomed
<1>5. ~ Doomed(t)' => ~ Doomed(t) /\ reasons[t] = <<>> /\ simTime[t] <= now
  <2>1. reasons[t] \in Seq(Reasons)
    BY DEF SchedOK, ListInv, TypeOK, SyncTypeOK, Records
  <2>2. Len(reasons[t]) \in Nat /\ (Len(reasons[t]) = 0 => reasons[t] = <<>>)
    BY <2>1, LenProperties, EmptySeq
  <2> QED
    BY <1>2, <2>2 DEF Doomed, SchedOK, Orderly, SoftwareFirst
<1>6. \A x \in AllRecords \ {t} : AtHand(x)' => AtHand(x)
  BY <1>1, <1>2 DEF AtHand, Upcoming, Before, Position, TimerPlaced
<1>7. AtHand(t)' => Upcoming(list', t)
  BY <1>1, <1>3 DEF AtHand, Upcoming, Before, Position, TimerPlaced
\* A timer without a reason has a time that has passed.
<1>8. ASSUME ~ Doomed(t)', Upcoming(list, t), NEW q \in AllRecords, IsNext(list, q)
      PROVE  ~ Later(simTime', q, t)
  <2>1. CASE q = t
    BY <1>3, <2>1 DEF Later
  <2>2. CASE q # t
    <3>1. Before(list, q, t) /\ Upcoming(list, q)
      BY <1>1, <1>3, <1>8, <2>2, NextIsFirst DEF TimerPlaced, Upcoming
    <3>2. ~ Later(simTime, q, t)
      BY <1>3, <1>5, <1>8, <3>1 DEF SchedOK, Orderly, Sorted, AtHand
    <3>3. simTime[q] \in Nat /\ simTime[t] \in Nat /\ simTime'[q] = simTime[q]
      BY <1>3, <2>2
    <3> QED
      BY <1>3, <1>5, <1>8, <3>2, <3>3 DEF Later
  <2> QED
    BY <2>1, <2>2
<1> DEFINE C  == {x \in AllRecords : AtHand(x)}
           C2 == {x \in AllRecords : AtHand(x)'}
           S  == {x \in AllRecords : ~ Doomed(x)}
           S2 == {x \in AllRecords : ~ Doomed(x)'}
<1>9. SortedOn(list', simTime', C2, S2)
  <2>1. ListOfAll(list) /\ simTime' = [simTime EXCEPT ![t] = simTime'[t]] /\ list' = list'
    BY <1>1 DEF TimerPlaced
  <2>2. InItsPlace(list, list', simTime', t)
    BY <1>1 DEF TimerPlaced, Rescheduled, Relinked, InItsPlace
  <2>3. SortedOn(list, simTime, C, S)
    BY DEF SchedOK, Orderly, Sorted, SortedOn
  <2>4. C2 \subseteq C \cup {t} /\ C \in SUBSET AllRecords /\ C2 \in SUBSET AllRecords /\ S \in SUBSET AllRecords
    BY <1>6
  <2>5. S2 \in SUBSET S
    BY <1>4, <1>5
  <2>6. \A x \in AllRecords : Upcoming(list, x) => x \in C
    BY DEF AtHand
  <2>7. \A x \in C \ {t} : Upcoming(list, x) \/ (x = list.cursor /\ ~ Later(simTime', x, t))
    <3>1. simTime'[current] = simTime[current] /\ simTime[current] <= now /\ simTime[current] \in Nat
      BY <1>2, <1>3 DEF SchedOK, Orderly, SoftwareFirst
    <3>2. ~ Later(simTime', current, t)
      BY <1>3, <3>1 DEF Later
    <3> QED
      BY <1>1, <3>2 DEF AtHand, TimerPlaced
  <2>8. t \in C2 /\ list' = list => Upcoming(list, t) \/ t = list.cursor
    BY <1>7
  <2>9. t \in S2 /\ Upcoming(list, t) => \A q \in AllRecords : IsNext(list, q) => ~ Later(simTime', q, t)
    BY <1>8
  <2> HIDE DEF C, C2, S, S2
  <2> QED
    BY <1>3, <2>1, <2>2, <2>3, <2>4, <2>5, <2>6, <2>7, <2>8, <2>9, ScheduledInOrder
<1>10. Sorted'
  BY <1>9 DEF Sorted, SortedOn, Later, Before, Position
<1>11. NotPast'
  <2>1. ASSUME NEW x \in AllRecords, AtHand(x)', phase' = "Run" => Upcoming(list, x)', ~ Doomed(x)'
        PROVE  simTime'[x] >= now'
    <3>1. CASE x = t
      BY <1>2, <1>3, <3>1
    <3>2. CASE x # t
      <4>1. AtHand(x) /\ ~ Doomed(x) /\ simTime'[x] = simTime[x]
        BY <1>3, <1>4, <1>6, <2>1, <3>2
      <4>2. Upcoming(list, x)' => Upcoming(list', x)
        BY DEF Upcoming, Before, Position
      <4>3. phase = "Run" => Upcoming(list, x)
        BY <1>1, <1>2, <2>1, <3>2, <4>2 DEF TimerPlaced
      <4> QED
        BY <1>2, <4>1, <4>3 DEF SchedOK, Orderly, NotPast
    <3> QED
      BY <3>1, <3>2
  <2> QED
    BY <2>1 DEF NotPast
<1>12. EdgesToCome'
  <2>1. ~ Doomed(list.cursor)
    BY <1>1, Kinships DEF TimerPlaced
  <2>2. phase = "Run" => \A x \in Clocked : AtHand(x)' => simTime'[x] > now
    BY <1>3, <1>6, <2>1, Kinships DEF SchedOK, Orderly, EdgesToCome
  <2> QED
    BY <1>2, <2>2 DEF EdgesToCome, Flushes
<1>13. SoftwareFirst'
  <2>1. ASSUME NEW p \in Software, AtHand(t)', Before(list', t, p) PROVE Doomed(t)'
    <3> SUFFICES ASSUME ~ Doomed(t)' PROVE FALSE
      OBVIOUS
    <3>1. p \in AllRecords \ {t} /\ simTime[p] <= now /\ ~ Doomed(p) /\ simTime'[p] = simTime[p]
      BY <1>3, Kinships DEF SchedOK, Orderly, SoftwareFirst
    <3>2. ~ Before(list', p, t)
      BY <1>1, <1>3, <2>1, <3>1, BeforeIsOrder DEF TimerPlaced
    <3>3. ASSUME NEW q \in AllRecords \ {t}, FirstLater(list, simTime', t, q), q = p \/ Before(list, q, p)
          PROVE  FALSE
      <4>1. Upcoming(list, q) /\ simTime[q] > now /\ simTime[q] \in Nat /\ simTime[p] \in Nat
        BY <1>3, <3>1, <3>3 DEF FirstLater, Later
      <4>2. q = p \/ ~ Later(simTime, q, p)
        BY <3>1, <3>3, <4>1 DEF SchedOK, Orderly, Sorted, AtHand
      <4> QED
        BY <1>3, <3>1, <4>1, <4>2 DEF Later
    <3>4. CASE list' = list /\ Stays(list, simTime', t)
      <4>1. PICK q \in AllRecords : FirstLater(list, simTime', t, q) /\ IsNext(list, q)
        BY <3>1, <3>2, <3>4 DEF Stays
      <4>2. Upcoming(list, t)
        BY <1>7, <2>1, <3>4
      <4> QED
        BY <1>8, <4>1, <4>2 DEF FirstLater
    <3>5. CASE Relinked(list, list', simTime', t)
      <4>1. PICK q \in AllRecords \ {t} : FirstLater(list, simTime', t, q) /\ PlacedBefore(list, list', t, q)
        BY <3>1, <3>2, <3>5 DEF Relinked, PlacedLast
      <4>2. ~ Before(list, p, q)
        BY <2>1, <3>1, <4>1 DEF PlacedBefore
      <4>3. q = p \/ Before(list, q, p)
        BY <1>1, <3>1, <4>2, BeforeIsOrder DEF TimerPlaced
      <4> QED
        BY <3>3, <4>1, <4>3
    <3> QED
      BY <1>1, <3>4, <3>5 DEF TimerPlaced, Rescheduled
  <2>2. ASSUME NEW u \in Timers, NEW p \in Software, AtHand(u)', Before(list', u, p)
        PROVE  (reasons[u] = <<>> \/ Doomed(u))'
    <3>1. CASE u = t
      BY <2>1, <2>2, <3>1
    <3>2. CASE u # t
      <4>1. AtHand(u) /\ Before(list, u, p)
        BY <1>1, <1>3, <1>6, <2>2, <3>2, Kinships DEF TimerPlaced, SameOthers
      <4> QED
        BY <1>2, <1>4, <3>2, <4>1, Kinships DEF SchedOK, Orderly, SoftwareFirst
    <3> QED
      BY <3>1, <3>2
  <2>3. \A x, y : Before(list, x, y)' <=> Before(list', x, y)
    BY DEF Before, Position
  <2>4. \A p \in Software : simTime'[p] <= now
    BY <1>3, Kinships DEF SchedOK, Orderly, SoftwareFirst
  <2>5. \A u \in Timers : reasons'[u] = <<>> => simTime'[u] <= now
    BY <1>2, <1>3, Kinships DEF SchedOK, Orderly, SoftwareFirst
  <2>6. simTime'[current] <= now
    BY <1>2, <1>3 DEF SchedOK, Orderly, SoftwareFirst
  <2> QED
    BY <1>2, <2>2, <2>3, <2>4, <2>5, <2>6 DEF SoftwareFirst
<1>14. TimersDone'
  <2>1. timerDoneList = <<>>
    BY <1>2 DEF SchedOK, Orderly, TimersDone
  <2> QED
    BY <1>2, <2>1 DEF TimersDone
<1>15. ClocksAhead'
  <2>1. \A c \in Clocks : simTime'[c] = simTime[c] /\ c \in AllRecords \ {t}
    BY <1>3, Kinships
  <2>2. \A c \in Clocks : Before(list, c, list.cursor)' => Before(list, c, list.cursor)
    BY <1>1, <1>3, <2>1 DEF TimerPlaced, SameOthers, Before, Position
  <2> QED
    BY <1>1, <1>2, <1>3, <2>1, <2>2 DEF SchedOK, Orderly, ClocksAhead, EdgeIncr, TimerPlaced
<1>16. OrderAsserted' /\ LastIfPast(list)'
  BY <1>1, <1>2 DEF TimerPlaced, OrderAsserted, ForwardProgress, FlushedTimerCompleted, LastIfPast
<1> QED
  BY <1>10, <1>11, <1>12, <1>13, <1>14, <1>15, <1>16 DEF StaysOrderly, Orderly

-----------------------------------------------------------------------------
(* A record that has run at an edge is scheduled for its next one.          *)

\* The next edge is at least half a period away, of a clock exactly that.
LEMMA EdgesApart ==
  ASSUME SchedOK, ListInv', NEW r, EdgeOf(r)
  PROVE  /\ EdgeIncr(clock', r) \in Nat /\ EdgeIncr(clock', r) > 0
         /\ r \in Clocks => EdgeIncr(clock', r) = HalfPeriod[r]
         /\ \A c \in Clocks : clock'[c].state = "Running" /\ ~ clock'[c].suspend
         /\ \A p \in Synchronous : EdgeIncr(clock', p) >= HalfPeriod[ClockOf[p]]
<1>1. /\ \A c \in Clocks : clock[c].state = "Running" /\ ~ clock[c].suspend
      /\ \A p \in Synchronous : EdgeIncr(clock, p) >= HalfPeriod[ClockOf[p]]
  BY DEF SchedOK, Orderly, ClocksAhead
<1>2. /\ clock \in [Clocks -> ClockStates] /\ clock' \in [Clocks -> ClockStates]
      /\ r \in Clocked
  BY DEF EdgeOf, SchedOK, ListInv, ListTyped
<1>3. EdgeIncr(clock', r) \in Nat
  BY <1>2, EdgeIncrTyped
<1>4. \A p \in Synchronous : p \notin Clocks /\ ClockOf[p] \in Clocks
  BY SchedulerAssumption, ProcessSyncAssumption DEF Records
<1>5. \A c \in Clocks : HalfPeriod[c] \in Nat /\ HalfPeriod[c] > 0
  BY ClockAssumption
<1>6. CASE r \in Synchronous /\ UNCHANGED clock
  <2>1. EdgeIncr(clock', r) = EdgeIncr(clock, r)
    BY <1>6
  <2>2. EdgeIncr(clock, r) >= HalfPeriod[ClockOf[r]] /\ ClockOf[r] \in Clocks /\ r \notin Clocks
    BY <1>1, <1>4, <1>6
  <2>3. EdgeIncr(clock', r) > 0
    BY <1>3, <1>5, <2>1, <2>2
  <2> QED
    BY <1>1, <1>3, <1>6, <2>2, <2>3
<1>7. CASE r \in Clocks /\ Tick(r)
  <2> DEFINE rises == clock[r].bit = 0
             k == [clock[r] EXCEPT !.bit = IF rises THEN 1 ELSE 0,
                                   !.phase = IF rises THEN "JustAfterPositiveEdge" ELSE "JustAfterNegativeEdge",
                                   !.edge = IF rises THEN "PositiveEdge" ELSE "NegativeEdge",
                                   !.advanced = TRUE]
  <2>1. ~ clock[r].suspend /\ clock[r] \in ClockStates
    BY <1>1, <1>2, <1>7
  <2>2. clock' = [clock EXCEPT ![r] = k]
    BY <1>2, <1>7, <2>1 DEF Tick
  <2>3. k.advanced = TRUE /\ k.state = clock[r].state /\ k.suspend = clock[r].suspend
    BY <2>1 DEF ClockStates
  <2> HIDE DEF k
  <2>4. clock'[r] = k /\ \A c \in Clocks \ {r} : clock'[c] = clock[c]
    BY <1>2, <1>7, <2>2
  <2>5. \A c \in Clocks : clock'[c].state = "Running" /\ ~ clock'[c].suspend
    BY <1>1, <2>3, <2>4
  <2>6. ASSUME NEW sens PROVE SimTimeIncrForNextClockEdge(k, r, sens) >= HalfPeriod[r]
    <3>1. SimTimeIncrForNextClockEdge(k, r, sens) = HalfPeriod[r] * FromEdge(k.bit, sens)
      BY <2>3 DEF SimTimeIncrForNextClockEdge
    <3>2. FromEdge(k.bit, sens) \in {1, 2}
      BY DEF FromEdge
    <3>3. HalfPeriod[r] \in Nat
      BY <1>5, <1>7
    <3> DEFINE f == FromEdge(k.bit, sens)
               h == HalfPeriod[r]
    <3> HIDE DEF f, h
    <3>4. h * f >= h
      <4>1. f \in {1, 2} /\ h \in Nat
        BY <3>2, <3>3 DEF f, h
      <4> QED
        BY <4>1
    <3> QED
      BY <3>1, <3>4 DEF f, h
  <2>7. SimTimeIncrForNextClockEdge(k, r, "PositiveAndNegativeEdge") = HalfPeriod[r]
    <3>1. FromEdge(k.bit, "PositiveAndNegativeEdge") = 1
      BY DEF FromEdge, Rising, Falling
    <3>2. HalfPeriod[r] \in Nat
      BY <1>5, <1>7
    <3> QED
      BY <2>3, <3>1, <3>2 DEF SimTimeIncrForNextClockEdge
  <2>8. EdgeIncr(clock', r) = HalfPeriod[r]
    BY <1>7, <2>4, <2>7 DEF EdgeIncr
  <2>9. ASSUME NEW p \in Synchronous PROVE EdgeIncr(clock', p) >= HalfPeriod[ClockOf[p]]
    <3>1. EdgeIncr(clock', p) = SimTimeIncrForNextClockEdge(clock'[ClockOf[p]], ClockOf[p], SensitiveTo[p])
      BY <1>4 DEF EdgeIncr
    <3>2. EdgeIncr(clock, p) = SimTimeIncrForNextClockEdge(clock[ClockOf[p]], ClockOf[p], SensitiveTo[p])
      BY <1>4 DEF EdgeIncr
    <3>3. CASE ClockOf[p] = r
      BY <2>4, <2>6, <3>1, <3>3
    <3>4. CASE ClockOf[p] # r
      BY <1>1, <1>4, <2>4, <3>1, <3>2, <3>4
    <3> QED
      BY <3>3, <3>4
  <2> QED
    BY <1>3, <1>5, <1>7, <2>5, <2>8, <2>9
<1> QED
  BY <1>6, <1>7 DEF EdgeOf

\* What scheduling the record at the cursor does to list and times.
Edged(r) ==
  /\ list.past = "none" /\ list.cursor = r /\ ListOfAll(list) /\ ListOfAll(list')
  /\ simTime' = [simTime EXCEPT ![r] = simTime'[r]] /\ simTime'[r] \in Nat /\ simTime'[r] > now
  /\ r \in Clocks => simTime'[r] <= now + HalfPeriod[r]
  /\ simTime'[r] = now + EdgeIncr(clock', r)
  /\ \/ abort' = "noRecordAhead" /\ list' = list /\ \A x \in AllRecords : ~ Upcoming(list, x)
     \/ abort' = "none" /\ list' = list /\ Stays(list, simTime', r)
     \/ abort' = "none" /\ MovedOn(list, list', simTime', r)

\* ToNextEdge gives the list and times Edged describes.
LEMMA EdgeGives ==
  ASSUME SchedOK, ListInv', NEW r \in Clocked, EdgeOf(r)
  PROVE  Edged(r)
<1> DEFINE T == now + EdgeIncr(clock', r)
           s == [Entries EXCEPT !.times[r] = T]
           e == RescheduleCurrent(s, r)
<1>1. /\ ListTyped /\ abort = "none" /\ now \in Nat /\ simTime \in [AllRecords -> Nat] /\ r \in AllRecords
      /\ list.past = "none" /\ list.cursor = r
  BY Kinships DEF SchedOK, ListInv, ListTyped, Healthy, EdgeOf
<1>2. T \in Nat /\ T > now /\ (r \in Clocks => T <= now + HalfPeriod[r])
  <2>1. EdgeIncr(clock', r) \in Nat /\ EdgeIncr(clock', r) > 0 /\ (r \in Clocks => EdgeIncr(clock', r) = HalfPeriod[r])
    BY EdgesApart
  <2> QED
    BY <1>1, <2>1
<1>3. Take(e)
  BY DEF EdgeOf, ToNextEdge
<1> HIDE DEF T
<1>4. EntriesOK(s) /\ s.list = list /\ s.times = [simTime EXCEPT ![r] = T] /\ s.abort = "none"
  BY <1>1, <1>2, EntriesTyped DEF EntriesOK, Entries
<1> HIDE DEF s
<1>5. /\ EntriesOK(e) /\ e.times = s.times
      /\ \/ /\ e.abort = "noRecordAhead" /\ e.list = list
            /\ \A x \in AllRecords : ~ Upcoming(list, x)
         \/ /\ e.abort = "none"
            /\ \/ e.list = list /\ Stays(list, s.times, r)
               \/ MovedOn(list, e.list, s.times, r)
  BY <1>1, <1>4, RescheduleCurrentGives
<1>6. list' = e.list /\ simTime' = e.times /\ abort' = e.abort
  BY <1>3 DEF Take
<1> HIDE DEF e
<1>7. simTime'[r] = T /\ ListOfAll(list) /\ ListOfAll(list')
  BY <1>1, <1>4, <1>5, <1>6 DEF EntriesOK
<1>8. simTime'[r] = now + EdgeIncr(clock', r)
  BY <1>7 DEF T
<1> QED
  BY <1>1, <1>2, <1>4, <1>5, <1>6, <1>7, <1>8 DEF Edged

\* What is at hand after the record at the cursor has been scheduled.
LEMMA EdgeLeaves ==
  ASSUME NEW r \in AllRecords, Edged(r), phase' = "Step8", abort' = "none"
  PROVE  /\ list'.past = "none" /\ InItsPlace(list, list', simTime', r) /\ SameOthers(list, list', r)
         /\ \A x \in AllRecords \ {r} : AtHand(x)' <=> Upcoming(list, x)
         /\ AtHand(r)'
         /\ \A c \in Clocks : ~ Before(list, c, r) => ~ Before(list', c, list'.cursor)
<1>1. list.past = "none" /\ list.cursor = r /\ ListOfAll(list) /\ ListOfAll(list')
  BY DEF Edged
<1>2. CASE list' = list /\ Stays(list, simTime', r)
  BY <1>1, <1>2 DEF InItsPlace, SameOthers, AtHand, Upcoming, Before, Position
<1>3. CASE MovedOn(list, list', simTime', r)
  <2> DEFINE n == list'.cursor
  <2>1. IsNext(list, n) /\ list'.past = "none" /\ n \in AllRecords /\ InItsPlace(list, list', simTime', r)
        /\ SameOthers(list, list', r)
    BY <1>1, <1>3 DEF MovedOn, InItsPlace, PlacedLast, PlacedBefore, ListOfAll
  <2>2. /\ Before(list, r, n) /\ n # r
        /\ \A x \in AllRecords : Before(list, r, x) => x = n \/ Before(list, n, x)
    BY <1>1, <2>1, NextIsFirst, BeforeIsOrder
  <2>3. \A x, y, z \in AllRecords : Before(list, x, y) /\ Before(list, y, z) => Before(list, x, z)
    BY <1>1, BeforeIsOrder
  <2>4. ASSUME NEW x \in AllRecords \ {r}, AtHand(x)' PROVE Upcoming(list, x)
    <3>1. x = n \/ Before(list', n, x)
      BY <2>4 DEF AtHand, Upcoming, Before, Position
    <3>2. x = n \/ Before(list, n, x)
      BY <2>1, <2>2, <3>1 DEF SameOthers
    <3> QED
      BY <1>1, <2>1, <2>2, <2>3, <3>2 DEF Upcoming
  <2>5. ~ Before(list', r, n) /\ Before(list', n, r)
    <3>1. CASE PlacedLast(list, list', r)
      <4>1. Before(list', n, r)
        BY <2>1, <2>2, <3>1 DEF PlacedLast
      <4> QED
        BY <1>1, <2>1, <4>1, BeforeIsOrder
    <3>2. ASSUME NEW q \in AllRecords \ {r}, FirstLater(list, simTime', r, q), ~ IsNext(list, q),
                 PlacedBefore(list, list', r, q)
          PROVE  ~ Before(list', r, n) /\ Before(list', n, r)
      <4>1. Before(list, n, q)
        BY <1>1, <2>1, <2>2, <3>2 DEF FirstLater, Upcoming
      <4> QED
        BY <2>1, <2>2, <3>2, <4>1 DEF PlacedBefore
    <3> QED
      BY <1>3, <3>1, <3>2 DEF MovedOn
  <2>6. ASSUME NEW c \in Clocks, ~ Before(list, c, r) PROVE ~ Before(list', c, n)
    <3>1. CASE c = r
      BY <2>5, <3>1
    <3>2. CASE c # r
      <4>1. ~ Before(list, c, n)
        BY <1>1, <2>1, <2>6, <3>2, ClockNotPassed
      <4> QED
        BY <2>1, <2>2, <3>2, <4>1, Kinships DEF SameOthers
    <3> QED
      BY <3>1, <3>2
  <2>7. ASSUME NEW x \in AllRecords \ {r}, Upcoming(list, x) PROVE AtHand(x)'
    <3>1. x = n \/ Before(list, n, x)
      BY <1>1, <2>2, <2>7 DEF Upcoming
    <3>2. x = n \/ Before(list', n, x)
      BY <2>1, <2>2, <3>1 DEF SameOthers
    <3> QED
      BY <2>1, <3>2 DEF AtHand, Upcoming, Before, Position
  <2>8. AtHand(r)'
    BY <2>1, <2>5 DEF AtHand, Upcoming, Before, Position
  <2> QED
    BY <2>1, <2>4, <2>6, <2>7, <2>8
<1> QED
  BY <1>2, <1>3 DEF Edged

\* A record that is scheduled for its next edge keeps the order.
LEMMA EdgeOfStays ==
  ASSUME SchedOK, ListInv', NEW r \in Clocked, EdgeOf(r)
  PROVE  StaysOrderly
<1>1. Edged(r) /\ r \in AllRecords /\ r \notin Timers /\ r \notin Software
  BY EdgeGives, Kinships
<1>2. /\ phase = "Step8" /\ phase' = "Step8" /\ UNCHANGED <<fault, timerState, timerDoneList>> /\ SameTimerReasons
      /\ current' = NoProcess /\ now' = now
  BY DEF EdgeOf, SameTimers, ToNextEdge
<1>3. /\ simTime \in [AllRecords -> Nat] /\ now \in Nat /\ simTime'[r] \in Nat /\ simTime'[r] > now
      /\ \A x \in AllRecords \ {r} : simTime'[x] = simTime[x]
      /\ ListOfAll(list) /\ ListOfAll(list') /\ list.past = "none" /\ list.cursor = r
  BY <1>1 DEF SchedOK, ListInv, ListTyped, Edged
<1>4. \A x : Doomed(x)' <=> Doomed(x)
  BY <1>2, SameDoomed
<1>5. OrderAsserted'
  BY <1>1, <1>2 DEF SchedOK, Healthy, OrderAsserted, ForwardProgress, FlushedTimerCompleted, Edged
<1>6. CASE abort' = "noRecordAhead"
  <2>1. list' = list /\ \A x \in AllRecords : ~ Upcoming(list, x)
    BY <1>1, <1>6 DEF Edged
  <2>2. \A x \in AllRecords : AtHand(x)' => x = r
    BY <1>3, <2>1 DEF AtHand, Upcoming, Before, Position
  <2>3. \A y \in AllRecords : ~ Before(list, r, y)'
    BY <1>3, <2>1 DEF Upcoming, Before, Position
  <2>4. Sorted'
    BY <2>2, <2>3 DEF Sorted
  <2>5. NotPast'
    BY <1>2, <1>3, <2>2 DEF NotPast
  <2>6. ~ Healthy'
    BY <1>6 DEF Healthy
  <2> QED
    BY <1>5, <2>4, <2>5, <2>6 DEF StaysOrderly
<1>7. CASE abort' = "none"
  <2>1. /\ list'.past = "none" /\ InItsPlace(list, list', simTime', r) /\ SameOthers(list, list', r)
        /\ \A x \in AllRecords \ {r} : AtHand(x)' => Upcoming(list, x)
        /\ \A c \in Clocks : ~ Before(list, c, r) => ~ Before(list', c, list'.cursor)
    BY <1>1, <1>2, <1>7, EdgeLeaves
  <2>2. \A x \in AllRecords \ {r} : AtHand(x)' => AtHand(x) /\ Upcoming(list, x)
    BY <2>1 DEF AtHand
  <2> DEFINE C  == {x \in AllRecords : Upcoming(list, x)}
             C2 == {x \in AllRecords : AtHand(x)'}
             S  == {x \in AllRecords : ~ Doomed(x)}
  <2>3. SortedOn(list', simTime', C2, S)
    <3>1. simTime' = [simTime EXCEPT ![r] = simTime'[r]]
      BY <1>1 DEF Edged
    <3>2. SortedOn(list, simTime, C, S)
      BY DEF SchedOK, Orderly, Sorted, SortedOn, AtHand
    <3>3. C2 \subseteq C \cup {r} /\ C \in SUBSET AllRecords /\ C2 \in SUBSET AllRecords /\ S \in SUBSET AllRecords
      BY <2>1
    <3>4. \A x \in AllRecords : Upcoming(list, x) <=> x \in C
      OBVIOUS
    <3>5. ~ Upcoming(list, r)
      BY <1>1, <1>3, BeforeIsOrder DEF Upcoming
    <3>6. S \in SUBSET S /\ (r \in C2 /\ list' = list => Upcoming(list, r) \/ r = list.cursor)
      BY <1>3
    <3>7. \A x \in C \ {r} : Upcoming(list, x) \/ (x = list.cursor /\ ~ Later(simTime', x, r))
      OBVIOUS
    <3>8. r \in S /\ Upcoming(list, r) => \A q \in AllRecords : IsNext(list, q) => ~ Later(simTime', q, r)
      BY <3>5
    <3> HIDE DEF C, C2, S
    <3> QED
      BY <1>1, <1>3, <2>1, <3>1, <3>2, <3>3, <3>4, <3>6, <3>7, <3>8, ScheduledInOrder
  <2>4. Sorted'
    BY <1>4, <2>3 DEF Sorted, SortedOn, Later, Before, Position
  <2>5. NotPast'
    <3>1. ASSUME NEW x \in AllRecords, AtHand(x)', ~ Doomed(x) PROVE simTime'[x] >= now
      <4>1. CASE x = r
        BY <1>3, <4>1
      <4>2. CASE x # r
        BY <1>2, <1>3, <2>2, <3>1, <4>2 DEF SchedOK, Orderly, NotPast
      <4> QED
        BY <4>1, <4>2
    <3> QED
      BY <1>2, <1>4, <3>1 DEF NotPast
  <2>6. EdgesToCome'
    BY <1>2 DEF EdgesToCome, Flushes
  <2>7. SoftwareFirst'
    <3>1. ASSUME NEW t \in Timers, NEW p \in Software, AtHand(t)', Before(list, t, p)'
          PROVE  reasons[t] = <<>> \/ Doomed(t)
      <4>1. AtHand(t) /\ Before(list', t, p)
        BY <1>1, <2>2, <3>1, Kinships DEF Before, Position
      <4>2. Before(list, t, p)
        BY <1>1, <2>1, <4>1, Kinships DEF SameOthers
      <4> QED
        BY <4>1, <4>2 DEF SchedOK, Orderly, SoftwareFirst
    <3>2. \A x \in Timers \cup Software : simTime'[x] = simTime[x]
      BY <1>1, <1>3, Kinships
    <3> QED
      BY <1>2, <1>4, <3>1, <3>2 DEF SchedOK, Orderly, SoftwareFirst, SameTimerReasons
  <2>8. TimersDone'
    BY <1>2 DEF SchedOK, Orderly, TimersDone
  <2>9. ClocksAhead'
    <3>1. /\ \A c \in Clocks : clock'[c].state = "Running" /\ ~ clock'[c].suspend
          /\ \A p \in Synchronous : EdgeIncr(clock', p) >= HalfPeriod[ClockOf[p]]
      BY EdgesApart
    <3>2. \A c \in Clocks : simTime'[c] <= now + HalfPeriod[c]
      BY <1>1, <1>3, Kinships DEF SchedOK, Orderly, ClocksAhead, Edged
    <3>3. \A c \in Clocks : ~ Before(list, c, list.cursor)'
      <4>1. \A c \in Clocks : ~ Before(list, c, r)
        BY <1>3 DEF SchedOK, Orderly, ClocksAhead
      <4>2. \A c \in Clocks : ~ Before(list', c, list'.cursor)
        BY <2>1, <4>1
      <4> QED
        BY <4>2 DEF Before, Position
    <3>4. \A p : EdgeIncr(clock, p)' = EdgeIncr(clock', p)
      BY DEF EdgeIncr
    <3> QED
      BY <1>2, <2>1, <3>1, <3>2, <3>3, <3>4 DEF ClocksAhead, Flushes
  <2>10. LastIfPast(list)'
    BY <2>1 DEF LastIfPast
  <2> QED
    BY <1>5, <2>4, <2>5, <2>6, <2>7, <2>8, <2>9, <2>10 DEF StaysOrderly, Orderly
<1> QED
  BY <1>1, <1>6, <1>7 DEF Edged

-----------------------------------------------------------------------------
(* The flush functions schedule what they wake.                             *)

\* The list while woken processes are being put where they belong: processes
\* that have no clock have times that have passed, what else is upcoming is
\* later.
WokenOK(s) ==
  /\ EntriesOK(s) /\ s.abort \in {"none", "unlinkCurrent"} /\ LastIfPast(s.list)
  /\ \A x, y \in AllRecords :
       Upcoming(s.list, x) /\ Before(s.list, x, y) /\ ~ Doomed(y) => ~ Later(s.times, x, y)
  /\ \A x \in AllRecords : Upcoming(s.list, x) /\ ~ Doomed(x) => s.times[x] >= now
  /\ \A x \in AllRecords \ Software : Upcoming(s.list, x) /\ ~ Doomed(x) => s.times[x] > now
  /\ \A p \in Software : s.times[p] <= now
  /\ \A x \in Timers \cup Clocks : s.times[x] = simTime[x]
  /\ s.list.past # "prev" => \A c \in Clocks : ~ Before(s.list, c, s.list.cursor)
  /\ s.list.cursor \in Clocks => s.list.past = "prev"

\* A woken process without a clock is due now; one with a clock at its next edge.
LEMMA WakeTimes ==
  ASSUME SchedOK, NEW p \in Processes
  PROVE  /\ WakeTime(p) \in Nat /\ WakeTime(p) >= now
         /\ p \in Software => WakeTime(p) = now /\ p \notin Clocked
         /\ p \notin Software => /\ p \in Synchronous /\ ClockOf[p] \in Clocks /\ WakeTime(p) > now
                                 /\ simTime[ClockOf[p]] <= WakeTime(p)
         /\ p \notin Timers \cup Clocks
<1>1. ListTyped /\ now \in Nat
  BY DEF SchedOK, ListInv, ListTyped
<1>2. WakeTime(p) \in Nat
  BY <1>1, WakeTimeTyped
<1>3. CASE p \in Software
  BY <1>1, <1>2, <1>3, Kinships DEF WakeTime, Software, Clocked
<1>4. CASE p \notin Software
  <2> DEFINE c == ClockOf[p]
             h == HalfPeriod[c]
             i == EdgeIncr(clock, p)
  <2>1. p \in Synchronous /\ c \in Clocks
    BY <1>4, SchedulerAssumption DEF Software
  <2>2. h \in Nat /\ h > 0 /\ i \in Nat /\ i >= h /\ simTime[c] <= now + h /\ simTime[c] \in Nat
    <3>1. h \in Nat /\ h > 0
      BY <2>1, ClockAssumption
    <3>2. i \in Nat
      BY <1>1, <2>1, EdgeIncrTyped DEF ListTyped, Clocked
    <3>3. i >= h /\ simTime[c] <= now + h
      BY <2>1 DEF SchedOK, Orderly, ClocksAhead
    <3>4. simTime[c] \in Nat
      BY <1>1, <2>1, Kinships DEF ListTyped
    <3> QED
      BY <3>1, <3>2, <3>3, <3>4
  <2>3. WakeTime(p) = now + i
    BY <2>1 DEF WakeTime
  <2> HIDE DEF c, h, i
  <2>4. WakeTime(p) > now /\ simTime[c] <= WakeTime(p)
    BY <1>1, <2>2, <2>3
  <2> QED
    BY <1>1, <1>2, <1>4, <2>1, <2>4, Kinships DEF c
<1> QED
  BY <1>3, <1>4

\* A process that is taken to be in position belongs there: it had a time that
\* has passed, or its clock is ahead and before it.
LEMMA WokenInPlace ==
  ASSUME SchedOK, NEW s, WokenOK(s), NEW p \in Processes, s.list.past = "none",
         p \in Software => Upcoming(s.list, p),
         NEW after, after = [s.times EXCEPT ![p] = WakeTime(p)],
         NEW q \in AllRecords, IsNext(s.list, q)
  PROVE  ~ Later(after, q, p)
<1> DEFINE l == s.list
           t == s.times
           T == WakeTime(p)
<1>1. /\ ListOfAll(l) /\ t \in [AllRecords -> Nat] /\ now \in Nat /\ T \in Nat
      /\ p \in AllRecords /\ l.past = "none" /\ l.cursor \in AllRecords /\ ~ Doomed(p)
      /\ after \in [AllRecords -> Int] /\ after[p] = T
  <2>1. ListOfAll(l) /\ t \in [AllRecords -> Nat] /\ now \in Nat /\ l.past = "none" /\ l.cursor \in AllRecords
    BY DEF WokenOK, EntriesOK, ListOfAll, SchedOK, ListInv, ListTyped, Upcoming
  <2>2. T \in Nat /\ p \in AllRecords /\ ~ Doomed(p)
    BY Kinships, WakeTimes
  <2> HIDE DEF T, t
  <2>3. after = [t EXCEPT ![p] = T]
    BY DEF t, T
  <2>4. after \in [AllRecords -> Nat] /\ after[p] = T
    BY <2>1, <2>2, <2>3
  <2>5. after \in [AllRecords -> Int]
    BY <2>4
  <2> QED
    BY <2>1, <2>2, <2>4, <2>5
<1>2. /\ Before(l, l.cursor, q)
      /\ \A x \in AllRecords : Before(l, l.cursor, x) => x = q \/ Before(l, q, x)
  BY <1>1, NextIsFirst
<1>3. Upcoming(l, q)
  BY <1>1, <1>2 DEF Upcoming
<1>4. ASSUME NEW x \in AllRecords, Upcoming(l, x), x # q, ~ Doomed(x) PROVE ~ Later(t, q, x)
  BY <1>2, <1>3, <1>4 DEF WokenOK, Upcoming
<1>5. CASE q = p
  BY <1>1, <1>5, NotLaterThanItself
<1>6. CASE q # p /\ p \in Software
  <2>1. ~ Later(t, q, p) /\ t[p] <= now
    BY <1>1, <1>4, <1>6 DEF WokenOK
  <2>2. t[q] \in Nat /\ t[p] \in Nat /\ after[q] = t[q]
    BY <1>1, <1>6
  <2>3. T = now /\ p \notin Clocked
    BY <1>6, WakeTimes
  <2> HIDE DEF T
  <2> QED
    BY <1>1, <2>1, <2>2, <2>3 DEF Later
<1>7. CASE q # p /\ p \notin Software
  <2> DEFINE c == ClockOf[p]
  <2>1. c \in Clocks /\ c \in AllRecords /\ simTime[c] <= T /\ t[c] = simTime[c] /\ ~ Doomed(c)
    BY <1>7, WakeTimes, Kinships DEF WokenOK
  <2>2. Upcoming(l, c)
    BY <1>1, <2>1, BeforeIsOrder DEF WokenOK, Upcoming
  <2>3. q = c \/ ~ Later(t, q, c)
    BY <1>4, <2>1, <2>2
  <2>4. t[q] \in Nat /\ t[c] \in Nat /\ after[q] = t[q]
    BY <1>1, <1>7, <2>1
  <2>5. Region(c) = 1 /\ Region(q) \in 1..5 /\ Region(p) \in 1..5 /\ c \in Clocked
    BY <2>1, RegionTyped, Kinships
  <2> HIDE DEF c, T, t
  <2>6. t[q] <= t[c] /\ (t[q] = t[c] => Region(q) = 1)
    BY <2>3, <2>4, <2>5 DEF Later
  <2> QED
    BY <1>1, <2>1, <2>4, <2>5, <2>6 DEF Later
<1> QED
  BY <1>5, <1>6, <1>7

\* Scheduling one woken process leaves the list fit for the next.
LEMMA WakeOne ==
  ASSUME SchedOK, NEW s, WokenOK(s), NEW p \in Processes
  PROVE  WokenOK(ScheduleAt(s, p, WakeTime(p)))
<1> DEFINE l == s.list
           T == WakeTime(p)
           e == ScheduleAt(s, p, T)
           m == e.list
           after == e.times
<1>1. CASE s.abort # "none"
  BY <1>1 DEF ScheduleAt
<1>2. CASE s.abort = "none"
  <2>1. /\ EntriesOK(s) /\ ListOfAll(l) /\ s.times \in [AllRecords -> Nat] /\ LastIfPast(l)
        /\ p \in AllRecords /\ ~ Doomed(p) /\ now \in Nat /\ l.cursor \in AllRecords
    BY Kinships DEF WokenOK, EntriesOK, ListOfAll, SchedOK, ListInv, ListTyped
  <2>2. /\ T \in Nat /\ T >= now
        /\ p \in Software => T = now
        /\ p \notin Software => T > now
        /\ p \notin Timers /\ p \notin Clocks
    BY WakeTimes
  <2> HIDE DEF T
  <2>3. /\ EntriesOK(e) /\ after = [s.times EXCEPT ![p] = T]
        /\ \/ e.abort = "unlinkCurrent" /\ m = l /\ p = l.cursor
           \/ e.abort = "none" /\ Rescheduled(l, m, after, p)
    BY <1>2, <2>1, <2>2, ScheduleGives
  <2> HIDE DEF e
  <2>4. /\ ListOfAll(m) /\ after[p] = T /\ \A x \in AllRecords \ {p} : after[x] = s.times[x]
        /\ after \in [AllRecords -> Nat]
    BY <2>1, <2>3 DEF EntriesOK
  <2>5. \A x, y \in AllRecords \ {p} : Later(after, x, y) <=> Later(s.times, x, y)
    BY <2>4 DEF Later
  \* The times.
  <2>6. ASSUME \A x \in AllRecords \ {p} : Upcoming(m, x) => Upcoming(l, x)
        PROVE  /\ \A x \in AllRecords : Upcoming(m, x) /\ ~ Doomed(x) => after[x] >= now
               /\ \A x \in AllRecords \ Software : Upcoming(m, x) /\ ~ Doomed(x) => after[x] > now
               /\ \A x \in Software : after[x] <= now
               /\ \A x \in Timers \cup Clocks : after[x] = simTime[x]
    <3>1. ASSUME NEW x \in AllRecords, Upcoming(m, x), ~ Doomed(x)
          PROVE  after[x] >= now /\ (x \notin Software => after[x] > now)
      <4>1. CASE x = p
        BY <2>1, <2>2, <2>4, <4>1
      <4>2. CASE x # p
        BY <2>4, <2>6, <3>1, <4>2 DEF WokenOK
      <4> QED
        BY <4>1, <4>2
    <3>2. ASSUME NEW x \in Software PROVE after[x] <= now
      <4>1. CASE x = p
        BY <2>1, <2>2, <2>4, <3>2, <4>1
      <4>2. CASE x # p
        BY <2>4, <3>2, <4>2, Kinships DEF WokenOK
      <4> QED
        BY <4>1, <4>2
    <3>3. \A x \in Timers \cup Clocks : after[x] = simTime[x]
      BY <2>2, <2>4, Kinships DEF WokenOK
    <3> QED
      BY <3>1, <3>2, <3>3
  <2>7. ASSUME e.abort = "unlinkCurrent" /\ m = l /\ p = l.cursor PROVE WokenOK(e)
    <3>1. \A y \in AllRecords : Upcoming(l, y) => y # p /\ ~ Before(l, y, p)
      BY <2>1, <2>7, BeforeIsOrder DEF Upcoming
    <3>2. \A x, y \in AllRecords :
            Upcoming(m, x) /\ Before(m, x, y) /\ ~ Doomed(y) => ~ Later(after, x, y)
      BY <2>5, <2>7, <3>1 DEF WokenOK
    <3> QED
      BY <2>3, <2>6, <2>7, <3>2 DEF WokenOK
  <2>8. ASSUME e.abort = "none" /\ Rescheduled(l, m, after, p) PROVE WokenOK(e)
    <3>1. /\ m.cursor = l.cursor /\ LastIfPast(m)
          /\ \A x \in AllRecords \ {p} : Upcoming(m, x) => Upcoming(l, x)
          /\ SameOthers(l, m, p)
          /\ m.past = "prev" <=> l.past = "prev"
          /\ m = l \/ p # l.cursor
      BY <2>1, <2>4, <2>8, ScheduledAround
    <3> DEFINE C  == {x \in AllRecords : Upcoming(l, x)}
               C2 == {x \in AllRecords : Upcoming(m, x)}
               S  == {x \in AllRecords : ~ Doomed(x)}
    <3>2. SortedOn(m, after, C2, S)
      <4>1. InItsPlace(l, m, after, p)
        BY <2>8 DEF Rescheduled, Relinked, InItsPlace
      <4>2. SortedOn(l, s.times, C, S)
        BY DEF WokenOK, SortedOn
      <4>3. C2 \subseteq C \cup {p} /\ C \in SUBSET AllRecords /\ C2 \in SUBSET AllRecords
            /\ S \in SUBSET AllRecords /\ S \in SUBSET S
        BY <3>1
      <4>4. \A x \in AllRecords : Upcoming(l, x) => x \in C
        OBVIOUS
      <4>5. \A x \in C \ {p} : Upcoming(l, x) \/ (x = l.cursor /\ ~ Later(after, x, p))
        OBVIOUS
      <4>6. p \in C2 /\ m = l => Upcoming(l, p) \/ p = l.cursor
        OBVIOUS
      <4>7. p \in S /\ Upcoming(l, p) => \A q \in AllRecords : IsNext(l, q) => ~ Later(after, q, p)
        BY <2>3, WokenInPlace DEF T, Upcoming
      <4> HIDE DEF C, C2, S
      <4> QED
        BY <2>1, <2>2, <2>3, <4>1, <4>2, <4>3, <4>4, <4>5, <4>6, <4>7, ScheduledInOrder
    <3>3. \A x, y \in AllRecords :
            Upcoming(m, x) /\ Before(m, x, y) /\ ~ Doomed(y) => ~ Later(after, x, y)
      BY <3>2 DEF SortedOn
    <3>4. m.past # "prev" => \A c \in Clocks : ~ Before(m, c, m.cursor)
      <4>1. CASE m = l
        BY <4>1 DEF WokenOK
      <4>2. CASE p # l.cursor
        BY <2>1, <2>2, <3>1, <4>2, Kinships DEF WokenOK, SameOthers
      <4> QED
        BY <3>1, <4>1, <4>2
    <3>5. m.cursor \in Clocks => m.past = "prev"
      BY <3>1 DEF WokenOK
    <3> QED
      BY <2>3, <2>6, <2>8, <3>1, <3>3, <3>4, <3>5 DEF WokenOK
  <2> QED
    BY <2>3, <2>7, <2>8 DEF e, T
<1> QED
  BY <1>1, <1>2

\* Processes that are woken keep the order.
LEMMA WakesStays ==
  ASSUME SchedOK, ListInv', NEW ps \in Seq(Processes), Len(ps) \in {1, 2}, Wakes(ps)
  PROVE  StaysOrderly
<1>1. /\ phase \in Flushes /\ phase # "Advance" /\ phase' = phase /\ current' = current /\ now' = now
      /\ UNCHANGED <<clock, fault, timerState, timerDoneList>> /\ SameTimerReasons /\ deltaEvents'
  BY DEF Wakes, InCycle, SameTimers
<1>2. current = NoProcess /\ now \in Nat
  BY <1>1 DEF SchedOK, ListInv, ListTyped, CursorInv, Flushes
<1>3. WokenOK(Entries)
  <2>1. EntriesOK(Entries) /\ Entries.list = list /\ Entries.times = simTime /\ Entries.abort = "none"
    BY EntriesTyped DEF SchedOK, ListInv, Healthy
  <2>2. \A x \in AllRecords : Upcoming(list, x) => AtHand(x)
    BY DEF AtHand
  <2>3. phase # "Run"
    BY <1>1 DEF Flushes
  <2>4. /\ \A x, y \in AllRecords :
             Upcoming(list, x) /\ Before(list, x, y) /\ ~ Doomed(y) => ~ Later(simTime, x, y)
        /\ \A x \in AllRecords : Upcoming(list, x) /\ ~ Doomed(x) => simTime[x] >= now
        /\ \A x \in AllRecords \ Software : Upcoming(list, x) /\ ~ Doomed(x) => simTime[x] > now
        /\ \A p \in Software : simTime[p] <= now
        /\ list.past # "prev" => \A c \in Clocks : ~ Before(list, c, list.cursor)
        /\ list.cursor \in Clocks => list.past = "prev"
        /\ LastIfPast(list)
    BY <1>1, <2>2, <2>3 DEF SchedOK, Orderly, Sorted, NotPast, EdgesToCome, SoftwareFirst, ClocksAhead
  <2> QED
    BY <2>1, <2>4 DEF WokenOK
<1> DEFINE first  == ScheduleAt(Entries, ps[1], WakeTime(ps[1]))
           second == ScheduleAt(first, ps[2], WakeTime(ps[2]))
<1>4. ps[1] \in Processes /\ (Len(ps) # 1 => ps[2] \in Processes)
  BY LenProperties
<1>5. WokenOK(first)
  BY <1>3, <1>4, WakeOne
<1> HIDE DEF first
<1>6. Len(ps) # 1 => WokenOK(second)
  BY <1>4, <1>5, WakeOne
<1> HIDE DEF second
<1>7. PICK e : WokenOK(e) /\ Take(e)
  BY <1>5, <1>6 DEF Wakes, first, second
<1>8. list' = e.list /\ simTime' = e.times /\ abort' = e.abort
  BY <1>7 DEF Take
<1>9. /\ \A x, y : /\ Before(list, x, y)' <=> Before(e.list, x, y)
                   /\ Upcoming(list, x)' <=> Upcoming(e.list, x)
                   /\ Later(simTime, x, y)' <=> Later(e.times, x, y)
      /\ LastIfPast(list)'
  <2>1. \A x, y : /\ Before(list, x, y)' <=> Before(e.list, x, y)
                  /\ Upcoming(list, x)' <=> Upcoming(e.list, x)
    BY <1>8 DEF Before, Position, Upcoming
  <2>2. \A x, y : Later(simTime, x, y)' <=> Later(e.times, x, y)
    BY <1>8 DEF Later
  <2>3. LastIfPast(list)'
    BY <1>7, <1>8 DEF WokenOK, LastIfPast, Before, Position
  <2> QED
    BY <2>1, <2>2, <2>3
<1>10. \A x : Doomed(x)' <=> Doomed(x)
  BY <1>1, SameDoomed
<1>11. \A x : AtHand(x)' <=> Upcoming(e.list, x)
  BY <1>1, <1>9 DEF AtHand, Flushes
<1>12. Sorted'
  BY <1>7, <1>9, <1>10, <1>11 DEF Sorted, WokenOK
<1>13. NotPast'
  BY <1>1, <1>7, <1>8, <1>10, <1>11 DEF NotPast, WokenOK
<1>14. EdgesToCome'
  BY <1>1, <1>7, <1>8, <1>9, <1>10 DEF EdgesToCome, WokenOK, Flushes
<1>15. SoftwareFirst'
  <2>1. ASSUME NEW t \in Timers, NEW p \in Software, Upcoming(e.list, t), Before(e.list, t, p) PROVE Doomed(t)
    <3>1. ~ Later(e.times, t, p) /\ e.times[p] <= now
      BY <1>7, <2>1, Kinships DEF WokenOK
    <3>2. e.times[t] \in Nat /\ e.times[p] \in Nat
      BY <1>7, Kinships DEF WokenOK, EntriesOK
    <3>3. ~ Doomed(t) => e.times[t] > now
      BY <1>7, <2>1, Kinships DEF WokenOK
    <3> QED
      BY <1>2, <3>1, <3>2, <3>3 DEF Later
  <2>2. \A t \in Timers : reasons[t] = <<>> => e.times[t] <= now
    BY <1>7 DEF SchedOK, Orderly, SoftwareFirst, WokenOK
  <2>3. \A p \in Software : e.times[p] <= now
    BY <1>7 DEF WokenOK
  <2> QED
    BY <1>1, <1>2, <1>8, <1>9, <1>10, <1>11, <2>1, <2>2, <2>3 DEF SoftwareFirst, SameTimerReasons
<1>16. TimersDone'
  BY <1>1 DEF SchedOK, Orderly, TimersDone, Flushes
<1>17. ClocksAhead'
  <2>1. /\ \A c \in Clocks : e.times[c] = simTime[c]
        /\ e.list.past # "prev" => \A c \in Clocks : ~ Before(e.list, c, e.list.cursor)
        /\ e.list.cursor \in Clocks => e.list.past = "prev"
    BY <1>7 DEF WokenOK
  <2>2. \A p : EdgeIncr(clock, p)' = EdgeIncr(clock, p)
    BY <1>1 DEF EdgeIncr
  <2>3. \A c \in Clocks : Before(list, c, list.cursor)' <=> Before(e.list, c, e.list.cursor)
    BY <1>8 DEF Before, Position
  <2> QED
    BY <1>1, <1>8, <2>1, <2>2, <2>3 DEF SchedOK, Orderly, ClocksAhead
<1>18. OrderAsserted'
  BY <1>1, <1>7, <1>8 DEF SchedOK, Healthy, OrderAsserted, ForwardProgress, FlushedTimerCompleted, WokenOK
<1> QED
  BY <1>9, <1>12, <1>13, <1>14, <1>15, <1>16, <1>17, <1>18 DEF StaysOrderly, Orderly

-----------------------------------------------------------------------------
(* Of every behaviour.                                                      *)

\* The initial list is in order.
LEMMA StartIsOrderly ==
  ASSUME SchedInit, Healthy
  PROVE  Orderly
<1>1. /\ \A r \in Clocked : simTime[r] = EdgeIncr(clock, r) /\ simTime[r] # 0
      /\ \A r \in AllRecords \ Clocked : simTime[r] = 0
      /\ now = 0 /\ current = NoProcess /\ phase = "Run" /\ timerDoneList = <<>>
      /\ \A c \in Clocks : clock[c] = Started(StartPhase[c], FALSE)
  BY Kinships DEF SchedInit, ClockInit, Healthy, Init, ProcessSyncInit, TimerInit
<1>2. \A t \in Timers : reasons[t] = <<>> /\ ~ Doomed(t)
  <2>1. \A t \in Timers : reasons[t] = <<>>
    BY Kinships DEF SchedInit, Init, ProcessSyncInit, Records
  <2> QED
    BY <2>1, EmptySeq DEF Doomed
<1>3. PICK o \in SetToSeqs(AllRecords) :
        /\ list = ListOf(o)
        /\ \A i, j \in DOMAIN o : o[i] \in Clocked /\ Later(simTime, o[i], o[j]) => i > j
  BY DEF SchedInit
<1>4. ListTyped
  BY ListTypedInit
<1>5. list.order = o /\ list.cursor = Head(o) /\ list.past = "none" /\ ListOfAll(list)
  BY <1>3, <1>4 DEF ListOf, ListTyped
<1>6. /\ Len(o) \in Nat /\ DOMAIN o = 1..Len(o)
      /\ \A r \in AllRecords : Position(list, r) \in 1..Len(o) /\ o[Position(list, r)] = r
      /\ \A i \in 1..Len(o) : o[i] \in AllRecords /\ Position(list, o[i]) = i
  BY <1>5, PositionIs, LenProperties DEF ListOfAll
<1>7. simTime \in [AllRecords -> Nat]
  BY <1>4 DEF ListTyped
<1>8. Sorted
  <2>1. ASSUME NEW x \in AllRecords, NEW y \in AllRecords, Before(list, x, y), Later(simTime, x, y)
        PROVE  FALSE
    <3>1. simTime[x] \in Nat /\ simTime[y] \in Nat
      BY <1>7
    <3>2. CASE x \in Clocked
      <4>1. Position(list, x) > Position(list, y)
        BY <1>3, <1>6, <2>1, <3>2
      <4>2. Position(list, x) \in Int /\ Position(list, y) \in Int
        BY <1>6
      <4> QED
        BY <2>1, <4>1, <4>2 DEF Before
    <3>3. CASE x \notin Clocked
      <4>1. simTime[x] = 0
        BY <1>1, <3>3
      <4> QED
        BY <1>1, <2>1, <3>1, <4>1 DEF Later
    <3> QED
      BY <3>2, <3>3
  <2> QED
    BY <2>1 DEF Sorted
<1>9. NotPast
  BY <1>1, <1>7 DEF NotPast
<1>10. EdgesToCome
  <2>1. \A x \in Clocked : simTime[x] > now
    BY <1>1, <1>7, Kinships
  <2> QED
    BY <1>1, <2>1 DEF EdgesToCome, Flushes
<1>11. SoftwareFirst
  BY <1>1, <1>2, Kinships DEF SoftwareFirst
<1>12. TimersDone
  BY <1>1 DEF TimersDone
<1>13. ClocksAhead
  <2>1. ASSUME NEW c \in Clocks
        PROVE  /\ clock[c].state = "Running" /\ ~ clock[c].suspend
               /\ \A sens : SimTimeIncrForNextClockEdge(clock[c], c, sens) = HalfPeriod[c] * FromStart(StartPhase[c], sens)
               /\ HalfPeriod[c] \in Nat /\ StartPhase[c] \in ClockPhases
    <3>1. clock[c] = Started(StartPhase[c], FALSE)
      BY <1>1
    <3>2. clock[c].state = "Running" /\ clock[c].suspend = FALSE /\ clock[c].advanced = FALSE
      BY <3>1 DEF Started
    <3>3. HalfPeriod[c] \in Nat /\ StartPhase[c] \in ClockPhases
      BY ClockAssumption
    <3>4. \A sens : SimTimeIncrForNextClockEdge(clock[c], c, sens) = HalfPeriod[c] * FromStart(StartPhase[c], sens)
      BY <3>2, Zenon DEF SimTimeIncrForNextClockEdge
    <3> QED
      BY <3>2, <3>3, <3>4
  <2>2. ASSUME NEW c \in Clocks PROVE simTime[c] <= now + HalfPeriod[c]
    <3> DEFINE f == FromStart(StartPhase[c], "PositiveAndNegativeEdge")
               h == HalfPeriod[c]
    <3>1. f \in {0, 1}
      BY <2>1 DEF FromStart, ClockPhases, Rising, Falling
    <3>2. h \in Nat
      BY <2>1
    <3>3. simTime[c] = h * f
      BY <1>1, <2>1, Kinships DEF EdgeIncr
    <3> HIDE DEF f, h
    <3>4. h * f <= h
      BY <3>1, <3>2
    <3> QED
      BY <1>1, <3>2, <3>3, <3>4 DEF h
  <2>3. ASSUME NEW p \in Synchronous PROVE EdgeIncr(clock, p) >= HalfPeriod[ClockOf[p]]
    <3> DEFINE c == ClockOf[p]
               f == FromStart(StartPhase[c], SensitiveTo[p])
               h == HalfPeriod[c]
    <3>1. c \in Clocks /\ p \in Clocked /\ p \notin Clocks
      BY SchedulerAssumption, Kinships
    <3>2. f \in {0, 1, 2} /\ h \in Nat
      BY <2>1, <3>1 DEF FromStart, ClockPhases
    <3>3. EdgeIncr(clock, p) = h * f /\ h * f # 0
      BY <1>1, <2>1, <3>1 DEF EdgeIncr
    <3> HIDE DEF f, h
    <3>4. h * f >= h
      BY <3>2, <3>3
    <3> QED
      BY <3>3, <3>4 DEF h
  <2>4. \A c \in Clocks : ~ Before(list, c, list.cursor)
    <3>1. Position(list, list.cursor) = 1
      <4>1. o \in Seq(AllRecords) /\ o # <<>>
        BY <1>3, <1>5, <1>6, PermutationsAreLists DEF ListOfAll
      <4>2. Head(o) = o[1] /\ 1 \in 1..Len(o)
        BY <1>6, <4>1, EmptySeq, HeadTailProperties
      <4> QED
        BY <1>5, <1>6, <4>2
    <3>2. \A c \in Clocks : Position(list, c) \in 1..Len(o)
      BY <1>6, Kinships
    <3> QED
      BY <1>6, <3>1, <3>2 DEF Before
  <2> QED
    BY <1>1, <1>5, <2>1, <2>2, <2>3, <2>4 DEF ClocksAhead, Flushes
<1>14. LastIfPast(list)
  BY <1>5 DEF LastIfPast
<1> QED
  BY <1>8, <1>9, <1>10, <1>11, <1>12, <1>13, <1>14 DEF Orderly

\* A step of any kind keeps the order.
LEMMA StepStaysOrderly ==
  ASSUME SuspendableClocks = {}, SchedOK, ListInv', SchedNext
  PROVE  StaysOrderly
<1>1. Kinds
  BY StepKinds
<1> QED
  BY <1>1, CalmStays, PassesStays, CompletesStays, StartsStays, StopsStays, FlushesOnStays, EndsCycleStays,
     AdvancesStays, WakesStays, EdgeOfStays, EdgeIsDoneStays, FailsStays DEF Kinds

\* Once an assert has failed, the scheduler takes no step.
LEMMA FailedIsOver ==
  ASSUME SchedNext
  PROVE  Healthy
<1>1. fault = "none"
  BY DEF SchedNext, RunRecord, Dispatch, Return, DispatchIdle, TimerExecute, Running, ProcessCalls, NextReason,
     Wait, SemaphoreCall, SemaphoreGet, SemaphorePut, MailboxCall, MailboxGet, MailboxPut, EventCall, EventGet,
     EventSet, TimerWatch, TimerWait, TimerStop, Call, OnClock, ClockCalls, StartTimer, TimerStart, TimerRestart,
     StopRunning, RunEnds, Enter, WakeProcesses, SemaphoreFlushGet, SemaphoreFlushPut, MailboxTransfer, EventFlush,
     TimerFlush, AtTimer, Flushing, FlushOn, SemaphoreFlushGetDone, SemaphoreFlushPutDone, MailboxNoPair,
     EventFlushUnheard, TimerFlushDone, TimersEnd, EventsEnd, SemGetsEnd, SemPutsEnd, MailboxesEnd, EndDeltaCycle,
     FlushProcessesToBlock, AdvanceTime, Advance, ClockTicks, DueOnEdge, PassOver, RunSynchronous, ExecuteOnEdge,
     ReturnOnEdge, EdgeDone, EdgeEnds
<1> QED
  BY <1>1, SMTT(40) DEF Healthy, SchedNext

\* The list as the comment above its comparison has it, when no timer that has
\* two reasons is in it.
TimesInOrder ==
  /\ \A x, y \in AllRecords :
       Upcoming(list, x) /\ Before(list, x, y) /\ ~ Doomed(y) => simTime[x] <= simTime[y]
  /\ \A x \in AllRecords : Upcoming(list, x) /\ ~ Doomed(x) => simTime[x] >= now

\* The inductive invariant.
OrderInv == ListInv /\ TimesInOrder /\ OrderAsserted /\ (Healthy => Orderly)

\* A sorted list has its times in order.
LEMMA SortedTimes ==
  ASSUME ListTyped', Sorted', NotPast'
  PROVE  TimesInOrder'
<1>1. \A x \in AllRecords : simTime'[x] \in Nat
  BY DEF ListTyped
<1>2. ASSUME NEW x \in AllRecords, NEW y \in AllRecords, ~ Later(simTime, x, y)' PROVE simTime'[x] <= simTime'[y]
  BY <1>1, <1>2 DEF Later
<1> QED
  BY <1>2 DEF Sorted, NotPast, TimesInOrder, AtHand

\* It holds at the start.
LEMMA OrderInit == SchedInit /\ ListInv => OrderInv
<1> SUFFICES ASSUME SchedInit, ListInv PROVE OrderInv
  OBVIOUS
<1>1. OrderAsserted
  BY DEF SchedInit, Init, ProcessSyncInit, OrderAsserted, ForwardProgress, FlushedTimerCompleted
<1>2. Healthy => Orderly
  BY StartIsOrderly
<1>3. TimesInOrder
  <2>1. PICK o \in SetToSeqs(AllRecords) :
          /\ list = ListOf(o)
          /\ \A i, j \in DOMAIN o : o[i] \in Clocked /\ Later(simTime, o[i], o[j]) => i > j
    BY DEF SchedInit
  <2>2. list.order = o /\ ListOfAll(list) /\ simTime \in [AllRecords -> Nat] /\ now = 0
        /\ \A r \in AllRecords \ Clocked : simTime[r] = 0
    BY <2>1 DEF ListOf, ListInv, ListTyped, SchedInit
  <2>3. /\ DOMAIN o = 1..Len(o) /\ Len(o) \in Nat
        /\ \A r \in AllRecords : Position(list, r) \in 1..Len(o) /\ o[Position(list, r)] = r
    BY <2>2, PositionIs, LenProperties DEF ListOfAll
  <2>4. ASSUME NEW x \in AllRecords, NEW y \in AllRecords, Before(list, x, y), ~ (simTime[x] <= simTime[y])
        PROVE  FALSE
    <3>1. simTime[x] \in Nat /\ simTime[y] \in Nat /\ Later(simTime, x, y)
      BY <2>2, <2>4 DEF Later
    <3>2. x \in Clocked
      BY <2>2, <2>4, <3>1
    <3>3. Position(list, x) > Position(list, y)
      BY <2>1, <2>3, <3>1, <3>2
    <3>4. Position(list, x) \in Int /\ Position(list, y) \in Int
      BY <2>3
    <3> QED
      BY <2>4, <3>3, <3>4 DEF Before
  <2> QED
    BY <2>2, <2>4 DEF TimesInOrder
<1> QED
  BY <1>1, <1>2, <1>3 DEF OrderInv

\* Each step keeps it.
LEMMA OrderStep ==
  ASSUME SuspendableClocks = {}, OrderInv, ListInv', [SchedNext]_allVars
  PROVE  OrderInv'
<1>1. CASE SchedNext
  <2>1. SchedOK
    BY <1>1, FailedIsOver DEF OrderInv, SchedOK
  <2>2. StaysOrderly
    BY <1>1, <2>1, StepStaysOrderly
  <2>3. (ListTyped /\ Sorted /\ NotPast)'
    BY <2>2 DEF StaysOrderly, ListInv
  <2>4. TimesInOrder'
    BY <2>3, SortedTimes
  <2> QED
    BY <2>2, <2>4 DEF StaysOrderly, OrderInv
<1>2. CASE UNCHANGED allVars
  <2>1. UNCHANGED <<list, simTime, now, clock, phase, deltaEvents, current, reasons, timerState, timerDoneList, abort, fault>>
    BY <1>2 DEF allVars, schedVars, vars, baseVars, runVars, loopVars, timerVars
  <2>2. \A x, y : /\ Before(list, x, y)' <=> Before(list, x, y)
                  /\ Upcoming(list, x)' <=> Upcoming(list, x)
                  /\ Later(simTime, x, y)' <=> Later(simTime, x, y)
                  /\ IsNext(list, x)' <=> IsNext(list, x)
                  /\ Doomed(x)' <=> Doomed(x)
    BY <2>1 DEF Before, Position, Upcoming, Later, IsNext, Doomed
  <2>3. \A x : AtHand(x)' <=> AtHand(x)
    BY <2>1, <2>2 DEF AtHand
  <2>4. Sorted' /\ NotPast' <=> Sorted /\ NotPast
    BY <2>1, <2>2, <2>3 DEF Sorted, NotPast
  <2>5. EdgesToCome' <=> EdgesToCome
    BY <2>1, <2>2, <2>3 DEF EdgesToCome
  <2>6. SoftwareFirst' <=> SoftwareFirst
    BY <2>1, <2>2, <2>3 DEF SoftwareFirst
  <2>7. TimersDone' <=> TimersDone
    BY <2>1, <2>3 DEF TimersDone
  <2>8. ClocksAhead' <=> ClocksAhead
    BY <2>1, <2>2 DEF ClocksAhead, Before, Position, EdgeIncr
  <2>9. LastIfPast(list)' <=> LastIfPast(list)
    BY <2>1, <2>2 DEF LastIfPast, Before, Position
  <2>10. Orderly' <=> Orderly
    BY <2>4, <2>5, <2>6, <2>7, <2>8, <2>9 DEF Orderly
  <2>11. TimesInOrder' <=> TimesInOrder
    BY <2>1, <2>2 DEF TimesInOrder
  <2> QED
    BY <2>1, <2>10, <2>11 DEF OrderInv, Healthy, OrderAsserted, ForwardProgress, FlushedTimerCompleted
<1> QED
  BY <1>1, <1>2

\* Time moves forward and an expired timer is completed when it is flushed: the
\* asserts of Scheduler::Start on the order of time, and of Timer::FlushTimer,
\* hold as long as nobody suspends a clock.
THEOREM OrderIsKept ==
  ASSUME SuspendableClocks = {}
  PROVE  SchedSpec => []OrderAsserted
<1>1. SchedInit /\ ListInv => OrderInv
  BY OrderInit
<1>2. OrderInv /\ ListInv' /\ [SchedNext]_allVars => OrderInv'
  BY OrderStep
<1>3. OrderInv => OrderAsserted
  BY DEF OrderInv
<1> QED
  BY <1>1, <1>2, <1>3, ListInvariant, PTL DEF SchedSpec

-----------------------------------------------------------------------------
(* Where nobody stops a timer, none has two reasons.                        *)

\* A timer has a reason only while it is scheduled, and then one.
OneReason == \A t \in Timers :
  Len(reasons[t]) \in {0, 1} /\ (~ timerScheduled[t] => reasons[t] = <<>>)

\* A timer that is not scheduled was not, or has just been run.
LEMMA KeepsScheduled ==
  ASSUME StoppableTimers = {}, TypeOK, SchedNext, NEW t \in Timers, ~ timerScheduled'[t]
  PROVE  ~ timerScheduled[t] \/ reasons'[t] = <<>>
<1>1. timerScheduled \in [Timers -> BOOLEAN] /\ reasons \in [Records -> Seq(Reasons)] /\ t \in Records
  BY DEF TypeOK, TimerTypeOK, SyncTypeOK, Records
<1>2. ASSUME UNCHANGED timerScheduled PROVE ~ timerScheduled[t]
  BY <1>2
<1>3. CASE RunRecord
  <2>1. ASSUME NEW u \in Timers, TimerExecute(u) PROVE ~ timerScheduled[t] \/ reasons'[t] = <<>>
    <3>1. CASE timerState[u] = "Running" /\ Len(reasons[u]) = 1
      BY <1>1, <2>1, <3>1 DEF TimerExecute
    <3>2. CASE ~ (timerState[u] = "Running" /\ Len(reasons[u]) = 1)
      BY <2>1, <3>2 DEF TimerExecute, Abort, timerVars
    <3> QED
      BY <3>1, <3>2
  <2> QED
    BY <1>3, <2>1 DEF RunRecord, agentVars, timerVars
<1>4. CASE ProcessCalls
  BY <1>4 DEF ProcessCalls, agentVars, timerVars, SemaphoresOnly, MailboxesOnly, EventsOnly, TimerWatch, TimerWait
<1>5. CASE StartTimer
  BY <1>1, <1>5 DEF StartTimer, TimerStart
<1>6. CASE ClockCalls \/ ClockTicks \/ PassOver
  BY <1>6 DEF ClockCalls, ClockTicks, PassOver, vars, timerVars
<1>7. CASE StopRunning
  BY <1>7 DEF StopRunning, RunEnds, Enter, timerVars
<1>8. CASE WakeProcesses
  BY <1>8 DEF WakeProcesses, TimerFlush, SemaphoresOnly, MailboxesOnly, EventsOnly, timerVars
<1>9. CASE FlushOn
  BY <1>9 DEF FlushOn, TimerFlushDone, Abort, SemaphoresOnly, MailboxesOnly, EventsOnly, timerVars, TimersEnd,
     EventsEnd, SemGetsEnd, SemPutsEnd, MailboxesEnd, Enter
<1>10. CASE EndDeltaCycle \/ AdvanceTime \/ RunSynchronous \/ EdgeDone
  BY <1>10 DEF EndDeltaCycle, AdvanceTime, RunSynchronous, EdgeDone, agentVars, timerVars
<1> QED
  BY <1>3, <1>4, <1>5, <1>6, <1>7, <1>8, <1>9, <1>10 DEF SchedNext

\* Each step keeps that, where no timer is stopped.
LEMMA OneReasonStep ==
  ASSUME SuspendableClocks = {}, StoppableTimers = {}, OrderInv, OneReason, [SchedNext]_allVars
  PROVE  OneReason'
<1>1. CASE UNCHANGED allVars
  BY <1>1 DEF allVars, vars, baseVars, timerVars, OneReason
<1>2. CASE SchedNext
  <2>1. SchedOK /\ Kinds /\ TypeOK
    BY <1>2, FailedIsOver, StepKinds DEF OrderInv, SchedOK, ListInv
  <2>2. \/ \A t \in Timers : reasons'[t] = reasons[t]
        \/ \E t \in Timers : Completes(t)
        \/ \E t \in Timers : Starts(t)
    <3>1. \/ SameTimerReasons
          \/ \E t \in Timers : Completes(t)
          \/ \E t \in Timers : Starts(t)
      <4>1. Calm \/ Passes \/ Stops \/ FlushesOn \/ EndsCycle \/ Advances \/ EdgeIsDone \/ Fails => SameTimerReasons
        BY DEF Calm, Passes, Stops, FlushesOn, EndsCycle, Advances, EdgeIsDone, Fails, SameTimers
      <4>2. (\E ps \in Seq(Processes) : Len(ps) \in {1, 2} /\ Wakes(ps)) => SameTimerReasons
        BY DEF Wakes, SameTimers
      <4>3. (\E r \in Clocked : EdgeOf(r)) => SameTimerReasons
        BY DEF EdgeOf, SameTimers
      <4> QED
        BY <2>1, <4>1, <4>2, <4>3 DEF Kinds
    <3> QED
      BY <3>1 DEF SameTimerReasons
  <2>3. \A t \in Timers : ~ timerScheduled'[t] => ~ timerScheduled[t] \/ reasons'[t] = <<>>
    BY <1>2, <2>1, KeepsScheduled
  <2>4. CASE \A t \in Timers : reasons'[t] = reasons[t]
    BY <2>3, <2>4 DEF OneReason
  <2>5. ASSUME NEW t \in Timers, Completes(t) PROVE OneReason'
    <3>1. reasons'[t] = <<>> /\ \A u \in Timers \ {t} : reasons'[u] = reasons[u]
      BY <2>1, <2>5 DEF Completes, TypeOK, SyncTypeOK, Records
    <3>2. Len(reasons'[t]) = 0
      BY <3>1, EmptySeq
    <3> QED
      BY <2>3, <3>1, <3>2 DEF OneReason
  <2>6. ASSUME NEW t \in Timers, Starts(t) PROVE OneReason'
    <3>1. /\ ~ timerScheduled[t] /\ timerScheduled' = [timerScheduled EXCEPT ![t] = TRUE]
          /\ Len(reasons'[t]) = Len(reasons[t]) + 1
          /\ \A u \in Timers \ {t} : reasons'[u] = reasons[u]
      BY <2>6 DEF Starts
    <3>2. timerScheduled'[t] /\ Len(reasons'[t]) = 1
      <4>1. reasons[t] = <<>>
        BY <3>1 DEF OneReason
      <4>2. Len(reasons'[t]) = 1
        BY <3>1, <4>1, EmptySeq
      <4> QED
        BY <2>1, <3>1, <4>2 DEF TypeOK, TimerTypeOK
    <3> QED
      BY <2>3, <3>1, <3>2 DEF OneReason
  <2> QED
    BY <2>2, <2>4, <2>5, <2>6
<1> QED
  BY <1>1, <1>2

\* With one reason to a timer, the invariant orders all that lies ahead.
LEMMA AheadFollows ==
  ASSUME OrderInv, OneReason
  PROVE  AheadInOrder
<1>1. ListOfAll(list) /\ simTime \in [AllRecords -> Nat] /\ now \in Nat /\ TimesInOrder
  BY DEF OrderInv, ListInv, ListTyped
<1>2. \A x : ~ Doomed(x)
  <2>1. ASSUME NEW t \in Timers PROVE ~ (Len(reasons[t]) > 1)
    <3> DEFINE n == Len(reasons[t])
    <3>1. n \in {0, 1}
      BY DEF OneReason
    <3> HIDE DEF n
    <3>2. ~ (n > 1)
      BY <3>1
    <3> QED
      BY <3>2 DEF n
  <2> QED
    BY <2>1 DEF Doomed
<1>3. /\ \A i \in Ahead(list) : i \in 1..Len(list.order) /\ Upcoming(list, list.order[i])
      /\ \A i \in 1..Len(list.order) : list.order[i] \in AllRecords /\ Position(list, list.order[i]) = i
  BY <1>1, UpcomingIsAhead, PositionIs
<1>4. ASSUME NEW i \in Ahead(list), NEW j \in Ahead(list), i < j
      PROVE  Before(list, list.order[i], list.order[j])
  BY <1>3, <1>4 DEF Before
<1> QED
  BY <1>1, <1>2, <1>3, <1>4 DEF AheadInOrder, TimesInOrder

\* What lies ahead of the cursor is in the order of time, and not in the past
\* (Scheduler::Step7 relies on it: the next record is the next to run), as long
\* as nobody suspends a clock or stops a timer.
THEOREM AheadIsInOrder ==
  ASSUME SuspendableClocks = {}, StoppableTimers = {}
  PROVE  SchedSpec => []AheadInOrder
<1>1. SchedInit /\ ListInv => OrderInv /\ OneReason
  <2>1. ASSUME SchedInit PROVE OneReason
    <3>1. \A t \in Timers : reasons[t] = <<>>
      BY <2>1, Kinships DEF SchedInit, Init, ProcessSyncInit, Records
    <3> QED
      BY <3>1, EmptySeq DEF OneReason
  <2> QED
    BY <2>1, OrderInit
<1>2. OrderInv /\ OneReason /\ ListInv' /\ [SchedNext]_allVars => OrderInv' /\ OneReason'
  BY OrderStep, OneReasonStep
<1>3. OrderInv /\ OneReason => AheadInOrder
  BY AheadFollows
<1> QED
  BY <1>1, <1>2, <1>3, ListInvariant, PTL DEF SchedSpec

-----------------------------------------------------------------------------
(***************************************************************************)
(* Synchronous processes run at the edges they are sensitive to, and miss  *)
(* none.  A process keeps no link to the edge it waits for: when it has    *)
(* run, and again when it is woken, the scheduler gives it a time counted  *)
(* from now (SimTimeIncrForNextClockEdge).  What is proved is that this    *)
(* stays the time of its edge.  Its clock knows only its own next edge:    *)
(* the process is due then, or half a period later.                        *)
(*                                                                         *)
(* It takes a beat: were a process woken between two edges, the time of    *)
(* its next edge would be counted from there.                              *)
(***************************************************************************)

-----------------------------------------------------------------------------
(* The beat.                                                               *)

\* n is a multiple of h.
OnBeat(n, h) == \E k \in Nat : n = h * k

\* All clocks have the half period h, and timers are started for multiples of it.
OneBeat(h) ==
  /\ h \in Nat \ {0}
  /\ \A c \in Clocks : HalfPeriod[c] = h
  /\ \A d \in Durations : OnBeat(d, h)

\* A sum of times on the beat is on the beat.
LEMMA BeatAdds ==
  ASSUME NEW h \in Nat, NEW a, NEW b, OnBeat(a, h), OnBeat(b, h)
  PROVE  OnBeat(a + b, h)
<1>1. PICK i \in Nat : a = h * i
  BY DEF OnBeat
<1>2. PICK j \in Nat : b = h * j
  BY DEF OnBeat
<1>3. h * i + h * j = h * (i + j) /\ i + j \in Nat
  OBVIOUS
<1> QED
  BY <1>1, <1>2, <1>3 DEF OnBeat

\* Zero, one and two half periods are on the beat.
LEMMA SmallBeats ==
  ASSUME NEW h \in Nat
  PROVE  OnBeat(0, h) /\ OnBeat(h, h) /\ OnBeat(h + h, h)
<1>1. 0 = h * 0 /\ h = h * 1 /\ h + h = h * 2
  OBVIOUS
<1> QED
  BY <1>1 DEF OnBeat

\* The beat that is later than another, and no more than h later, is h later.
LEMMA NextBeat ==
  ASSUME NEW h \in Nat \ {0}, NEW a, NEW b, OnBeat(a, h), OnBeat(b, h), a < b, b <= a + h
  PROVE  b = a + h
<1>1. PICK i \in Nat : a = h * i
  BY DEF OnBeat
<1>2. PICK j \in Nat : b = h * j
  BY DEF OnBeat
<1>3. ASSUME j <= i PROVE FALSE
  <2>1. PICK k \in Nat : i = j + k
    BY <1>3, i - j \in Nat
  <2>2. h * i = h * j + h * k /\ h * k \in Nat /\ h * j \in Nat
    BY <2>1
  <2> QED
    BY <1>1, <1>2, <2>2
<1>4. ASSUME j >= i + 2 PROVE FALSE
  <2>1. PICK k \in Nat : j = i + 2 + k
    BY <1>4, j - i - 2 \in Nat
  <2>2. h * j = h * i + (h + h) + h * k /\ h * k \in Nat /\ h * i \in Nat
    BY <2>1
  <2> QED
    BY <1>1, <1>2, <2>2
<1>5. j = i + 1
  BY <1>3, <1>4
<1>6. h * j = h * i + h
  BY <1>5
<1> QED
  BY <1>1, <1>2, <1>6

-----------------------------------------------------------------------------
(* The edge a process waits for.                                           *)

\* How much later than its clock a process is to run.
AfterClock(p, h) == IF SeesEdge(p, clock[ClockOf[p]].bit = 0) THEN 0 ELSE h

\* The next edge of a clock that p sees is ahead.
EdgeAhead(p, h) == simTime[p] = simTime[ClockOf[p]] + AfterClock(p, h)

\* Its clock has ticked, and p is to see that edge.
EdgeNow(p, h) ==
  LET c == ClockOf[p]
  IN /\ phase \in {"Run", "Step8"} /\ simTime[p] = now /\ simTime[c] = now + h
     /\ SeesEdge(p, clock[c].bit = 1) /\ clock[c].advanced

\* Every time is a beat.
OnTheBeat(h) == OnBeat(now, h) /\ \A r \in AllRecords : OnBeat(simTime[r], h)

\* The edge a clock tells is that of its bit, or it has not ticked.
ClocksTrue == \A c \in Clocks :
  \/ /\ clock[c].advanced
     /\ clock[c].edge = IF clock[c].bit = 1 THEN "PositiveEdge" ELSE "NegativeEdge"
  \/ /\ clock[c] = Started(StartPhase[c], FALSE)
     /\ FromStart(StartPhase[c], "PositiveAndNegativeEdge") = 1

\* What of the invariant is about times and edges, while no assert has failed.
EdgesKept(h) ==
  /\ OnTheBeat(h) /\ ClocksTrue
  /\ \A p \in Synchronous : AtHand(p) => EdgeAhead(p, h) \/ EdgeNow(p, h)

\* A synchronous process is of a clock, and is neither it nor any other.
LEMMA OfItsClock ==
  ASSUME NEW p \in Synchronous
  PROVE  /\ p \in Clocked /\ p \in AllRecords /\ p \in Processes /\ p \notin Clocks /\ p \notin Timers
         /\ ~ Doomed(p) /\ ~ Doomed(p)'
         /\ ClockOf[p] \in Clocks /\ ClockOf[p] \in Clocked /\ ClockOf[p] \in AllRecords /\ ClockOf[p] # p
         /\ ClockOf[p] \notin Processes /\ ClockOf[p] \notin Timers
         /\ ~ Doomed(ClockOf[p]) /\ ~ Doomed(ClockOf[p])'
         /\ SensitiveTo[p] \in Sensitivities
BY SchedulerAssumption, Kinships DEF Records

\* A process sees one edge or the other.
LEMMA SeesOne ==
  ASSUME NEW p \in Synchronous
  PROVE  SeesEdge(p, TRUE) \/ SeesEdge(p, FALSE)
BY SchedulerAssumption DEF SeesEdge, Sensitivities

\* The time to the edge after this one (SimTimeIncrForNextClockEdge): half a
\* period to the next edge of its clock, one more if it does not see that.
LEMMA NextEdgeIs ==
  ASSUME NEW h, OneBeat(h), ListTyped, ClocksAhead, ClocksTrue, NEW p \in Synchronous
  PROVE  EdgeIncr(clock, p) = h + AfterClock(p, h)
<1> DEFINE c == ClockOf[p]
           s == SensitiveTo[p]
<1>1. c \in Clocks /\ s \in Sensitivities /\ h \in Nat /\ h > 0 /\ HalfPeriod[c] = h
      /\ EdgeIncr(clock, p) = SimTimeIncrForNextClockEdge(clock[c], c, s)
      /\ EdgeIncr(clock, p) >= h /\ clock[c] \in ClockStates
  BY OfItsClock DEF OneBeat, EdgeIncr, ClocksAhead, ListTyped
<1> HIDE DEF c, s
<1>2. CASE clock[c].advanced
  <2>1. EdgeIncr(clock, p) = h * FromEdge(clock[c].bit, s)
    BY <1>1, <1>2 DEF SimTimeIncrForNextClockEdge
  <2>2. clock[c].bit \in {0, 1}
    BY <1>1 DEF ClockStates
  <2>3. FromEdge(clock[c].bit, s) = IF SeesEdge(p, clock[c].bit = 0) THEN 1 ELSE 2
    BY <1>1, <2>2 DEF FromEdge, SeesEdge, Sensitivities, Rising, Falling, s
  <2> QED
    BY <1>1, <2>1, <2>3 DEF AfterClock, c
<1>3. CASE /\ clock[c] = Started(StartPhase[c], FALSE)
           /\ FromStart(StartPhase[c], "PositiveAndNegativeEdge") = 1
  <2>1. clock[c].advanced = FALSE /\ clock[c].bit = BitAt(StartPhase[c])
    BY <1>3 DEF Started
  <2>2. EdgeIncr(clock, p) = h * FromStart(StartPhase[c], s)
    BY <1>1, <2>1 DEF SimTimeIncrForNextClockEdge
  <2>3. StartPhase[c] \in ClockPhases
    BY <1>1, ClockAssumption
  <2>4. StartPhase[c] \in {"JustAfterPositiveEdge", "JustAfterNegativeEdge"}
    BY <1>3, <2>3 DEF FromStart, ClockPhases, Rising, Falling
  <2>5. FromStart(StartPhase[c], s) = 0 \/ FromStart(StartPhase[c], s) = IF SeesEdge(p, clock[c].bit = 0) THEN 1 ELSE 2
    BY <1>1, <2>1, <2>4 DEF FromStart, BitAt, SeesEdge, Sensitivities, Rising, Falling, s
  <2> QED
    BY <1>1, <2>2, <2>5 DEF AfterClock, c
<1> QED
  BY <1>1, <1>2, <1>3 DEF ClocksTrue

\* The record that runs at an edge sees that edge, not one ahead: were its clock
\* not to have ticked, it would be before it.
LEMMA RunsAtEdge ==
  ASSUME NEW h, OneBeat(h), SchedOK, EdgesKept(h), phase = "Step8", list.past = "none",
         list.cursor \in Synchronous, simTime[list.cursor] = now
  PROVE  EdgeNow(list.cursor, h)
<1> DEFINE p == list.cursor
           c == ClockOf[p]
<1>1. /\ p \in AllRecords /\ c \in AllRecords /\ c \in Clocks /\ c # p /\ ~ Doomed(c) /\ c \in Clocked
      /\ p \notin Clocks /\ p \in Synchronous
  BY OfItsClock
<1>2. simTime[p] \in Nat /\ simTime[c] \in Nat /\ now \in Nat /\ h \in Nat /\ ListOfAll(list)
  BY <1>1 DEF SchedOK, ListInv, ListTyped, OneBeat
<1>3. AtHand(p)
  BY DEF AtHand
<1>4. Before(list, p, c)
  <2>1. ~ Before(list, c, p)
    BY <1>1 DEF SchedOK, Orderly, ClocksAhead
  <2> HIDE DEF p, c
  <2> QED
    BY <1>1, <1>2, <2>1, BeforeIsOrder
<1>5. ~ Later(simTime, p, c)
  BY <1>1, <1>3, <1>4 DEF SchedOK, Orderly, Sorted
<1>6. Region(p) > 1 /\ Region(c) = 1
  BY <1>1, RegionTyped
<1>7. simTime[c] > now
  <2> HIDE DEF p, c
  <2>1. simTime[p] = now
    BY DEF p
  <2> QED
    BY <1>1, <1>2, <1>5, <1>6, <2>1 DEF Later
<1>8. ~ EdgeAhead(p, h)
  <2>1. AfterClock(p, h) \in {0, h}
    BY DEF AfterClock
  <2> HIDE DEF p, c
  <2>2. simTime[p] = now
    BY DEF p
  <2>3. ClockOf[p] = c
    BY DEF c
  <2> QED
    BY <1>2, <1>7, <2>1, <2>2, <2>3 DEF EdgeAhead
<1> QED
  BY <1>1, <1>3, <1>8 DEF EdgesKept

\* The process that runs is at its edge.
LEMMA EdgesFollow ==
  ASSUME NEW h, OneBeat(h), SchedOK, EdgesKept(h)
  PROVE  OnItsEdge
<1>1. ASSUME current \in Synchronous
      PROVE  LET c == ClockOf[current]
             IN /\ simTime[c] = now + HalfPeriod[c]
                /\ SeesEdge(current, clock[c].bit = 1)
                /\ clock[c].edge = IF clock[c].bit = 1 THEN "PositiveEdge" ELSE "NegativeEdge"
  <2>1. current # NoProcess /\ current \in AllRecords /\ ~ Doomed(current) /\ ClockOf[current] \in Clocks
    BY <1>1, OfItsClock, ProcessSyncAssumption
  <2>2. list.cursor = current /\ list.past = "none" /\ phase = "Step8"
    BY <1>1, <2>1 DEF SchedOK, ListInv, CursorInv, RunsAtCursor, Runners, Software
  <2>3. AtHand(current)
    BY <2>2 DEF AtHand
  <2>4. simTime[current] <= now /\ simTime[current] >= now
    BY <2>1, <2>2, <2>3 DEF SchedOK, Orderly, SoftwareFirst, NotPast
  <2>5. simTime[current] \in Nat /\ now \in Nat
    BY <2>1 DEF SchedOK, ListInv, ListTyped
  <2>6. EdgeNow(current, h)
    BY <1>1, <2>2, <2>4, <2>5, RunsAtEdge
  <2>7. ~ (clock[ClockOf[current]] = Started(StartPhase[ClockOf[current]], FALSE))
    BY <2>6 DEF EdgeNow, Started
  <2> QED
    BY <2>1, <2>6, <2>7 DEF EdgeNow, EdgesKept, ClocksTrue, OneBeat
<1> QED
  BY <1>1 DEF OnItsEdge

-----------------------------------------------------------------------------
(* Steps that move the cursor, or nothing.                                  *)

\* No synchronous process that could run is behind the cursor.
NoneBehind ==
  /\ list.past # "prev"
  /\ phase # "Finished" => \A p \in Synchronous : sync[p] = Free => AtHand(p)

\* A step that leaves times and clocks alone, brings nothing to hand, and leaves
\* behind no process that could run.
HandKept ==
  /\ UNCHANGED <<simTime, now, clock>>
  /\ \A p \in Synchronous : AtHand(p)' => AtHand(p)
  /\ phase \in {"Run", "Step8"} =>
       phase' \in {"Run", "Step8"} \/ \A p \in Synchronous : AtHand(p) => simTime[p] > now
  /\ Software # {} /\ list.past # "prev" =>
       /\ list'.past # "prev"
       /\ phase' = "Finished" <=> phase = "Finished"
       /\ \A p \in Synchronous : sync[p] = Free /\ AtHand(p) => AtHand(p)'

\* Such a step keeps the edges.
LEMMA EdgesStand ==
  ASSUME NEW h, ListTyped, EdgesKept(h), HandKept
  PROVE  EdgesKept(h)'
<1>1. OnTheBeat(h)' /\ ClocksTrue'
  BY DEF HandKept, EdgesKept, OnTheBeat, ClocksTrue, OnBeat
<1>2. ASSUME NEW p \in Synchronous, AtHand(p)' PROVE EdgeAhead(p, h)' \/ EdgeNow(p, h)'
  <2>1. AtHand(p) /\ simTime[p] \in Nat /\ now \in Nat
    BY <1>2, OfItsClock DEF HandKept, ListTyped
  <2>2. CASE EdgeAhead(p, h)
    BY <2>2 DEF HandKept, EdgeAhead, AfterClock
  <2>3. CASE EdgeNow(p, h)
    BY <2>1, <2>3 DEF HandKept, EdgeNow
  <2> QED
    BY <2>1, <2>2, <2>3 DEF EdgesKept
<1> QED
  BY <1>1, <1>2 DEF EdgesKept

\* And leaves none behind, if it frees none.
LEMMA NoneLeftBehind ==
  ASSUME HandKept, NoneBehind, Software # {},
         \A p \in Synchronous : sync'[p] = Free => sync[p] = Free
  PROVE  NoneBehind'
BY DEF HandKept, NoneBehind

\* The list stands.
LEMMA StandsKept ==
  ASSUME UNCHANGED <<list, simTime, now, clock>>, phase' = "Finished" <=> phase = "Finished",
         phase \in {"Run", "Step8"} <=> phase' \in {"Run", "Step8"}
  PROVE  HandKept
<1>1. \A x : AtHand(x)' <=> AtHand(x)
  BY DEF AtHand, Upcoming, Before, Position
<1> QED
  BY <1>1 DEF HandKept

\* The record at the cursor is passed.
LEMMA MovesKept ==
  ASSUME SchedOK, ListInv', Moves, list.cursor \in Synchronous => sync[list.cursor] # Free
  PROVE  HandKept
<1>1. /\ UNCHANGED <<simTime, now, clock, phase>> /\ phase \in {"Run", "Step8"} /\ list.past = "none"
      /\ list' = RecordSearchNext(list) /\ ListOfAll(list)
  BY DEF Moves, SchedOK, ListInv, ListTyped
<1>2. \A p \in AllRecords : AtHand(p)' <=> Upcoming(list, p)
  BY MovesOver DEF MovedOver
<1>3. list'.past # "prev"
  BY <1>1, NextUpcoming
<1>4. \A p \in Synchronous : (AtHand(p)' => AtHand(p)) /\ (sync[p] = Free /\ AtHand(p) => AtHand(p)')
  BY <1>2, OfItsClock DEF AtHand
<1> QED
  BY <1>1, <1>3, <1>4 DEF HandKept

\* Another delta cycle, or the end of the last.
LEMMA EndsCycleKept ==
  ASSUME SchedOK, ListInv', EndsCycle
  PROVE  HandKept
<1>1. /\ UNCHANGED <<simTime, now, clock>> /\ phase = "Block" /\ phase \in Flushes
      /\ list' = (IF deltaEvents THEN RecordSearchNext(list) ELSE list)
      /\ phase' = (IF deltaEvents THEN "Run" ELSE "Advance")
      /\ ListOfAll(list)
  BY DEF EndsCycle, SchedOK, ListInv, ListTyped, Flushes
<1>2. CASE ~ deltaEvents
  <2>1. list' = list /\ phase' = "Advance"
    BY <1>1, <1>2
  <2> QED
    BY <1>1, <2>1, StandsKept
<1>3. CASE deltaEvents
  <2>1. \A x \in AllRecords : AtHand(x)' => AtHand(x)
    BY <1>1, <1>3, SearchedOn
  <2>2. \A x \in AllRecords : AtHand(x) => Upcoming(list, x)
    BY <1>1 DEF AtHand, Flushes
  <2>3. ASSUME NEW x \in AllRecords, Upcoming(list, x) PROVE AtHand(x)'
    <3>1. list.past = "none"
      BY <2>3 DEF Upcoming
    <3>2. /\ list'.past = "next" => \A y \in AllRecords : Upcoming(list', y) => Upcoming(list, y)
          /\ LastIfPast(list')
          /\ \A y, z : Before(list', y, z) <=> Before(list, y, z)
          /\ \/ list'.past = "next" /\ list'.cursor = list.cursor
             \/ /\ list'.past = "none"
                /\ x = list'.cursor \/ Upcoming(list', x)
      BY <1>1, <1>3, <2>3, <3>1, NextUpcoming
    <3>3. list'.past = "none"
      <4>1. Before(list, list.cursor, x) /\ ~ Before(list, list.cursor, list.cursor) /\ list.cursor \in AllRecords
            /\ ~ Before(list, x, list.cursor)
        <5>1. list.cursor \in AllRecords
          BY <1>1 DEF ListOfAll
        <5> QED
          BY <1>1, <2>3, <5>1, BeforeIsOrder DEF Upcoming
      <4> QED
        BY <3>2, <4>1 DEF LastIfPast
    <3> QED
      BY <1>1, <1>3, <3>2, <3>3 DEF AtHand, Upcoming, Before, Position
  <2>4. list.past # "prev" => list'.past # "prev"
    BY <1>1, <1>3, NextGives
  <2> QED
    BY <1>1, <1>3, <2>1, <2>2, <2>3, <2>4, OfItsClock DEF HandKept
<1> QED
  BY <1>2, <1>3

\* The loop of Step7a ends: the cursor steps back, and not before the first
\* record, since software is due and cannot lie after what is later.
LEMMA StopsKept ==
  ASSUME SchedOK, ListInv', Stops
  PROVE  HandKept
<1>1. /\ UNCHANGED <<simTime, now, clock>> /\ phase = "Run" /\ phase' = "Timers"
  BY DEF Stops
<1>2. ListOfAll(list) /\ simTime \in [AllRecords -> Nat] /\ now \in Nat /\ list.cursor \in AllRecords
  BY DEF SchedOK, ListInv, ListTyped, ListOfAll
<1>3. CASE list.past # "none" /\ UNCHANGED list
  <2>1. \A x : ~ AtHand(x) /\ ~ AtHand(x)'
    BY <1>1, <1>3 DEF AtHand, Upcoming
  <2> QED
    BY <1>1, <1>3, <2>1 DEF HandKept
<1>4. CASE /\ list.past = "none" /\ list' = RecordSearchPrev(list)
           /\ list.cursor \in Clocked \/ simTime[list.cursor] > now
  <2> DEFINE c == list.cursor
  <2>1. AtHand(c)
    BY <1>1, <1>4 DEF AtHand
  <2>2. c \in Clocked => ~ Doomed(c)
    BY Kinships
  <2>3. simTime[c] > now /\ \A p \in Clocked : AtHand(p) => simTime[p] > now
    BY <1>1, <1>2, <1>4, <2>1, <2>2 DEF SchedOK, Orderly, EdgesToCome
  <2>4. /\ ListOfAll(list') /\ list'.order = list.order
        /\ \/ list'.cursor = c /\ list'.past = "prev"
           \/ list'.past = "none" /\ Position(list, list'.cursor) + 1 = Position(list, c)
    BY <1>2, <1>4, PrevGives
  <2>5. \A x, y : Before(list', x, y) <=> Before(list, x, y)
    BY <2>4, SamePositions
  <2>6. ASSUME NEW q \in Software, list'.past = "prev" PROVE FALSE
    <3>1. simTime[q] <= now /\ q \in AllRecords /\ ~ Doomed(q)
      BY <2>6, Kinships DEF SchedOK, Orderly, SoftwareFirst
    <3>2. simTime[q] \in Nat /\ simTime[c] \in Nat
      BY <1>2, <3>1
    <3>3. q # c
      BY <1>2, <2>3, <3>1, <3>2
    <3>4. Before(list, c, q)
      <4>1. c = Head(list.order)
        <5> HIDE DEF c
        <5>1. list.cursor = c
          BY DEF c
        <5>2. CASE c # Head(list.order)
          <6>1. list' = [list EXCEPT !.cursor = list.order[Position(list, c) - 1]]
            BY <1>4, <5>1, <5>2 DEF RecordSearchPrev
          <6>2. list'.past = list.past
            BY <1>2, <6>1 DEF ListOfAll
          <6> QED
            BY <1>4, <2>6, <6>2
        <5> QED
          BY <5>2
      <4>2. Position(list, c) \in 1..Len(list.order) /\ Position(list, q) \in 1..Len(list.order)
            /\ list.order[Position(list, q)] = q /\ list.order[Position(list, c)] = c
            /\ Len(list.order) \in Nat /\ list.order \in Seq(AllRecords)
        BY <1>2, <3>1, PositionIs DEF ListOfAll
      <4>3. list.order # <<>>
        BY <4>2, EmptySeq
      <4>4. list.order[1] = c
        BY <4>1, <4>2, <4>3
      <4>5. Position(list, c) = 1
        <5>1. 1 \in 1..Len(list.order)
          BY <4>2
        <5>2. \A i \in 1..Len(list.order) : Position(list, list.order[i]) = i
          BY <1>2, PositionIs
        <5> QED
          BY <4>4, <5>1, <5>2
      <4>6. Position(list, q) # 1
        BY <3>3, <4>2, <4>4
      <4> QED
        BY <4>2, <4>5, <4>6 DEF Before
    <3>5. ~ Later(simTime, c, q)
      BY <1>2, <2>1, <3>1, <3>4 DEF SchedOK, Orderly, Sorted
    <3> QED
      BY <1>2, <2>3, <3>1, <3>2, <3>5 DEF Later
  <2>7. ASSUME NEW x \in AllRecords, list'.past = "none" PROVE AtHand(x)' <=> AtHand(x)
    <3>1. AtHand(x)' <=> Before(list, list'.cursor, x)
      <4>1. AtHand(x)' <=> Before(list', list'.cursor, x)
        BY <1>1, <2>7 DEF AtHand, Upcoming, Before, Position
      <4> QED
        BY <2>5, <4>1
    <3>2. AtHand(x) <=> x = c \/ Before(list, c, x)
      BY <1>1, <1>4 DEF AtHand, Upcoming
    <3>3. Before(list, list'.cursor, x) <=> x = c \/ Before(list, c, x)
      <4> DEFINE P(y) == Position(list, y)
      <4>1. P(x) \in Int /\ P(c) \in Int /\ P(list'.cursor) \in Int /\ (P(x) = P(c) => x = c)
            /\ P(list'.cursor) + 1 = P(c)
        <5>1. list'.cursor \in AllRecords
          BY <2>4 DEF ListOfAll
        <5>2. \A y \in AllRecords : P(y) \in Int /\ list.order[P(y)] = y
          BY <1>2, PositionIs
        <5> QED
          BY <1>2, <2>4, <2>7, <5>1, <5>2
      <4> HIDE DEF P
      <4>2. P(list'.cursor) < P(x) <=> x = c \/ P(c) < P(x)
        BY <4>1
      <4> QED
        BY <4>2 DEF P, Before
    <3> QED
      BY <3>1, <3>2, <3>3
  <2>8. \A x : list'.past = "prev" => ~ AtHand(x)'
    BY DEF AtHand, Upcoming
  <2>9. list'.past \in {"none", "prev"}
    BY <2>4
  <2> QED
    BY <1>1, <1>4, <2>3, <2>6, <2>7, <2>8, <2>9, OfItsClock DEF HandKept
<1> QED
  BY <1>3, <1>4 DEF Stops

-----------------------------------------------------------------------------
(* Steps that change times.                                                *)

\* Time moves to that of the next record.
LEMMA AdvancesKeepsEdges ==
  ASSUME SchedOK, ListInv', Advances, NEW h, EdgesKept(h)
  PROVE  /\ EdgesKept(h)'
         /\ NoneBehind /\ (\A p \in Synchronous : sync'[p] = Free => sync[p] = Free) => NoneBehind'
<1>1. /\ UNCHANGED <<simTime, clock>> /\ list' = RecordSearchNext(list)
      /\ phase = "Advance" /\ phase \in Flushes /\ phase' \in {"Step8", "Finished"}
      /\ \/ list'.past # "none" /\ phase' = "Finished" /\ now' = now
         \/ list'.past = "none" /\ now' = simTime[list'.cursor]
      /\ ListOfAll(list)
  BY DEF Advances, Flushes, SchedOK, ListInv, ListTyped
<1>2. \A x \in AllRecords : AtHand(x)' => AtHand(x)
  BY <1>1, SearchedOn
<1>3. OnTheBeat(h)'
  <2>1. list'.cursor \in AllRecords
    BY DEF ListInv, ListTyped, ListOfAll
  <2> QED
    BY <1>1, <2>1 DEF EdgesKept, OnTheBeat, OnBeat
<1>4. ClocksTrue'
  BY <1>1 DEF EdgesKept, ClocksTrue
<1>5. ASSUME NEW p \in Synchronous, AtHand(p)' PROVE EdgeAhead(p, h)'
  <2>1. EdgeAhead(p, h)
    BY <1>1, <1>2, <1>5, OfItsClock DEF EdgesKept, EdgeNow
  <2> QED
    BY <1>1, <2>1 DEF EdgeAhead, AfterClock
<1>6. ASSUME NoneBehind, \A p \in Synchronous : sync'[p] = Free => sync[p] = Free PROVE NoneBehind'
  <2>1. list'.past # "prev"
    BY <1>1, <1>6, NextGives DEF NoneBehind
  <2>2. ASSUME phase' # "Finished", NEW p \in Synchronous, sync[p] = Free PROVE AtHand(p)'
    <3>1. list'.past = "none" /\ phase' = "Step8"
      BY <1>1, <2>2
    <3>2. Upcoming(list, p) /\ list.past = "none" /\ p \in AllRecords
      BY <1>1, <1>6, <2>2, OfItsClock DEF NoneBehind, AtHand, Upcoming
    <3>3. p = list'.cursor \/ Upcoming(list', p)
      BY <1>1, <3>1, <3>2, NextUpcoming
    <3> QED
      BY <3>1, <3>3 DEF AtHand, Upcoming, Before, Position
  <2> QED
    BY <1>6, <2>1, <2>2 DEF NoneBehind
<1> QED
  BY <1>3, <1>4, <1>5, <1>6 DEF EdgesKept

\* A timer is started.
LEMMA StartsKeepsEdges ==
  ASSUME SchedOK, ListInv', NEW t \in Timers, Starts(t), NEW h, OneBeat(h), EdgesKept(h)
  PROVE  /\ EdgesKept(h)'
         /\ NoneBehind /\ (\A p \in Synchronous : sync'[p] = Free => sync[p] = Free) => NoneBehind'
<1>1. TimerPlaced(t)
  BY StartGives
<1>2. UNCHANGED <<now, clock, phase>> /\ phase \in {"Run", "Step8"}
  BY DEF Starts
<1>3. /\ \A x \in AllRecords \ {t} : simTime'[x] = simTime[x]
      /\ list'.cursor = list.cursor /\ list.past = "none" /\ list'.past = "none" /\ list.cursor # t
      /\ list.cursor \in AllRecords
  BY <1>1, Kinships DEF TimerPlaced, SchedOK, ListInv, ListTyped
<1>4. \A p \in Synchronous : p \in AllRecords \ {t} /\ ClockOf[p] \in AllRecords \ {t} /\ p # t
  BY OfItsClock
<1>5. \A x \in AllRecords \ {t} : AtHand(x)' <=> AtHand(x)
  <2>1. ASSUME NEW x \in AllRecords \ {t} PROVE Before(list', list.cursor, x) <=> Before(list, list.cursor, x)
    BY <1>1, <1>3 DEF TimerPlaced, SameOthers
  <2>2. ASSUME NEW x \in AllRecords \ {t} PROVE Upcoming(list, x)' <=> Upcoming(list, x)
    <3>1. Upcoming(list, x)' <=> Before(list', list.cursor, x)
      BY <1>3 DEF Upcoming, Before, Position
    <3> QED
      BY <1>3, <2>1, <3>1 DEF Upcoming
  <2> QED
    BY <1>2, <1>3, <2>2 DEF AtHand
<1>6. OnTheBeat(h)'
  <2>1. PICK d \in Durations \cup {0} : simTime'[t] = now + d
    BY <1>1 DEF TimerPlaced
  <2>2. h \in Nat /\ OnBeat(d, h) /\ OnBeat(now, h)
    BY <2>1, SmallBeats DEF OneBeat, EdgesKept, OnTheBeat
  <2>3. OnBeat(simTime'[t], h)
    BY <2>1, <2>2, BeatAdds
  <2> QED
    BY <1>2, <1>3, <2>3 DEF EdgesKept, OnTheBeat, OnBeat
<1>7. ClocksTrue'
  BY <1>2 DEF EdgesKept, ClocksTrue
<1>8. ASSUME NEW p \in Synchronous, AtHand(p)' PROVE EdgeAhead(p, h)' \/ EdgeNow(p, h)'
  <2>1. EdgeAhead(p, h) \/ EdgeNow(p, h)
    BY <1>4, <1>5, <1>8 DEF EdgesKept
  <2>2. simTime'[p] = simTime[p] /\ simTime'[ClockOf[p]] = simTime[ClockOf[p]]
    BY <1>3, <1>4
  <2> QED
    BY <1>2, <2>1, <2>2 DEF EdgeAhead, EdgeNow, AfterClock
<1>9. NoneBehind /\ (\A p \in Synchronous : sync'[p] = Free => sync[p] = Free) => NoneBehind'
  BY <1>2, <1>3, <1>4, <1>5 DEF NoneBehind
<1> QED
  BY <1>6, <1>7, <1>8, <1>9 DEF EdgesKept

\* A clock ticks: the processes that see the edge are due, the others wait for
\* the next.
LEMMA TickKeepsEdges ==
  ASSUME SchedOK, ListInv', NEW r \in Clocks, EdgeOf(r), abort' = "none", NEW h, OneBeat(h), EdgesKept(h)
  PROVE  EdgesKept(h)'
<1>1. /\ Edged(r) /\ Tick(r) /\ r \in AllRecords /\ r \in Clocked /\ r \notin Synchronous
      /\ phase = "Step8" /\ phase' = "Step8" /\ simTime[r] = now /\ now' = now
  BY EdgeGives, OfItsClock, Kinships DEF EdgeOf, ToNextEdge
<1>2. simTime'[r] = now + h /\ h \in Nat /\ h > 0 /\ now \in Nat
  <2>1. simTime'[r] = now + EdgeIncr(clock', r)
    BY <1>1 DEF Edged
  <2>2. EdgeIncr(clock', r) = h
    BY <1>1, EdgesApart DEF OneBeat
  <2> QED
    BY <2>1, <2>2 DEF OneBeat, SchedOK, ListInv, ListTyped
<1>3. \A x \in AllRecords \ {r} : simTime'[x] = simTime[x] /\ (AtHand(x)' => Upcoming(list, x) /\ AtHand(x))
  <2>1. \A x \in AllRecords \ {r} : AtHand(x)' => Upcoming(list, x)
    BY <1>1, EdgeLeaves
  <2>2. \A x \in AllRecords \ {r} : simTime'[x] = simTime[x]
    BY <1>1 DEF Edged, SchedOK, ListInv, ListTyped
  <2> QED
    BY <2>1, <2>2 DEF AtHand
<1>4. /\ \A c \in Clocks \ {r} : clock'[c] = clock[c]
      /\ clock'[r].advanced /\ clock[r].bit \in {0, 1} /\ clock'[r].bit = (IF clock[r].bit = 0 THEN 1 ELSE 0)
      /\ clock'[r].edge = IF clock[r].bit = 0 THEN "PositiveEdge" ELSE "NegativeEdge"
  <2>1. clock \in [Clocks -> ClockStates] /\ ~ clock[r].suspend
    BY DEF SchedOK, ListInv, ListTyped, Orderly, ClocksAhead
  <2>2. clock[r] \in ClockStates
    BY <2>1
  <2>3. clock[r].bit \in {0, 1}
    BY <2>2 DEF ClockStates
  <2>4. clock' = [clock EXCEPT ![r].bit = IF clock[r].bit = 0 THEN 1 ELSE 0,
                               ![r].phase = IF clock[r].bit = 0 THEN "JustAfterPositiveEdge" ELSE "JustAfterNegativeEdge",
                               ![r].edge = IF clock[r].bit = 0 THEN "PositiveEdge" ELSE "NegativeEdge",
                               ![r].advanced = TRUE]
    BY <1>1, <2>1 DEF Tick
  <2> QED
    BY <2>1, <2>2, <2>3, <2>4 DEF ClockStates
<1>5. ClocksTrue'
  <2>1. clock'[r].edge = IF clock'[r].bit = 1 THEN "PositiveEdge" ELSE "NegativeEdge"
    BY <1>4
  <2>2. ASSUME NEW c \in Clocks
        PROVE  \/ /\ clock'[c].advanced
                  /\ clock'[c].edge = IF clock'[c].bit = 1 THEN "PositiveEdge" ELSE "NegativeEdge"
               \/ /\ clock'[c] = Started(StartPhase[c], FALSE)
                  /\ FromStart(StartPhase[c], "PositiveAndNegativeEdge") = 1
    <3>1. CASE c = r
      BY <1>4, <2>1, <3>1
    <3>2. CASE c # r
      <4>1. clock'[c] = clock[c]
        BY <1>4, <3>2
      <4> QED
        BY <4>1 DEF EdgesKept, ClocksTrue
    <3> QED
      BY <3>1, <3>2
  <2> QED
    BY <2>2, Zenon DEF ClocksTrue
<1>6. OnTheBeat(h)'
  <2>1. OnBeat(now, h) /\ OnBeat(h, h)
    BY <1>2, SmallBeats DEF EdgesKept, OnTheBeat
  <2>2. OnBeat(now + h, h)
    BY <1>2, <2>1, BeatAdds
  <2>3. OnBeat(simTime'[r], h)
    BY <1>2, <2>2
  <2> QED
    BY <1>1, <1>3, <2>3 DEF EdgesKept, OnTheBeat, OnBeat
<1>7. ASSUME NEW p \in Synchronous, AtHand(p)' PROVE EdgeAhead(p, h)' \/ EdgeNow(p, h)'
  <2>1. p \in AllRecords \ {r} /\ ClockOf[p] \in Clocks /\ ClockOf[p] \in AllRecords
    BY <1>1, OfItsClock
  <2>2. simTime'[p] = simTime[p] /\ (EdgeAhead(p, h) \/ EdgeNow(p, h))
    BY <1>3, <1>7, <2>1 DEF EdgesKept
  <2>3. CASE ClockOf[p] # r
    <3>1. simTime'[ClockOf[p]] = simTime[ClockOf[p]] /\ clock'[ClockOf[p]] = clock[ClockOf[p]]
      BY <1>3, <1>4, <2>1, <2>3
    <3> QED
      BY <1>1, <2>2, <3>1 DEF EdgeAhead, EdgeNow, AfterClock
  <2>4. CASE ClockOf[p] = r
    <3>1. ~ EdgeNow(p, h)
      BY <1>1, <1>2, <2>4 DEF EdgeNow
    <3>2. simTime[p] = now + AfterClock(p, h)
      BY <1>1, <2>2, <2>4, <3>1 DEF EdgeAhead
    <3>3. CASE SeesEdge(p, clock[r].bit = 0)
      <4>1. simTime[p] = now
        BY <1>2, <2>4, <3>2, <3>3 DEF AfterClock
      <4>2. SeesEdge(p, clock'[r].bit = 1)
        <5>1. (clock'[r].bit = 1) = (clock[r].bit = 0)
          BY <1>4
        <5> QED
          BY <3>3, <5>1
      <4> QED
        BY <1>1, <1>2, <1>4, <2>2, <2>4, <4>1, <4>2 DEF EdgeNow
    <3>4. CASE ~ SeesEdge(p, clock[r].bit = 0)
      <4>1. simTime[p] = now + h
        BY <2>4, <3>2, <3>4 DEF AfterClock
      <4>2. SeesEdge(p, clock'[r].bit = 0)
        <5>1. (clock[r].bit = 0) \in BOOLEAN /\ (clock'[r].bit = 0) = ~ (clock[r].bit = 0)
          BY <1>4
        <5> QED
          BY <3>4, <5>1, SeesOne
      <4>3. AfterClock(p, h)' = 0
        BY <2>4, <4>2 DEF AfterClock
      <4> QED
        BY <1>2, <2>2, <2>4, <4>1, <4>3 DEF EdgeAhead
    <3> QED
      BY <3>3, <3>4
  <2> QED
    BY <2>3, <2>4
<1> QED
  BY <1>5, <1>6, <1>7 DEF EdgesKept

\* A process that has run at its edge is to run at the next that it sees.
LEMMA RunKeepsEdges ==
  ASSUME SchedOK, ListInv', NEW r \in Synchronous, EdgeOf(r), abort' = "none", NEW h, OneBeat(h), EdgesKept(h)
  PROVE  EdgesKept(h)'
<1>1. /\ Edged(r) /\ UNCHANGED <<clock, now>> /\ r \in AllRecords /\ r \in Clocked /\ r \notin Clocks
      /\ phase = "Step8" /\ phase' = "Step8" /\ simTime[r] = now /\ list.cursor = r /\ list.past = "none"
      /\ ClockOf[r] \in Clocks /\ ClockOf[r] \in AllRecords
  BY EdgeGives, OfItsClock DEF EdgeOf, ToNextEdge
<1>2. EdgeIncr(clock, r) = h + AfterClock(r, h)
  BY NextEdgeIs DEF SchedOK, ListInv, Orderly, EdgesKept
<1>3. h \in Nat /\ now \in Nat /\ AfterClock(r, h) \in {0, h}
  BY DEF OneBeat, SchedOK, ListInv, ListTyped, AfterClock
<1>4. simTime'[r] = now + (h + AfterClock(r, h))
  BY <1>1, <1>2 DEF Edged
<1>5. EdgeNow(r, h)
  BY <1>1, RunsAtEdge
<1>6. \A x \in AllRecords \ {r} : simTime'[x] = simTime[x] /\ (AtHand(x)' => AtHand(x))
  <2>1. \A x \in AllRecords \ {r} : AtHand(x)' => Upcoming(list, x)
    BY <1>1, EdgeLeaves
  <2>2. \A x \in AllRecords \ {r} : simTime'[x] = simTime[x]
    BY <1>1 DEF Edged, SchedOK, ListInv, ListTyped
  <2> QED
    BY <2>1, <2>2 DEF AtHand
<1>7. EdgeAhead(r, h)'
  <2>1. simTime'[ClockOf[r]] = now + h
    BY <1>1, <1>5, <1>6, OfItsClock DEF EdgeNow
  <2>2. AfterClock(r, h)' = AfterClock(r, h)
    BY <1>1 DEF AfterClock
  <2> DEFINE a == AfterClock(r, h)
  <2> HIDE DEF a
  <2>3. now + (h + a) = (now + h) + a
    BY <1>3 DEF a
  <2> QED
    BY <1>4, <2>1, <2>2, <2>3 DEF EdgeAhead, a
<1>8. OnTheBeat(h)'
  <2>1. OnBeat(h + AfterClock(r, h), h)
    BY <1>3, SmallBeats
  <2>2. OnBeat(simTime'[r], h)
    BY <1>3, <1>4, <2>1, BeatAdds DEF EdgesKept, OnTheBeat
  <2> QED
    BY <1>1, <1>6, <2>2 DEF EdgesKept, OnTheBeat, OnBeat
<1>9. ASSUME NEW p \in Synchronous \ {r}, AtHand(p)' PROVE EdgeAhead(p, h)' \/ EdgeNow(p, h)'
  <2>1. p \in AllRecords \ {r} /\ ClockOf[p] \in AllRecords \ {r}
    BY <1>1, <1>9, OfItsClock
  <2>2. /\ simTime'[p] = simTime[p] /\ simTime'[ClockOf[p]] = simTime[ClockOf[p]]
        /\ EdgeAhead(p, h) \/ EdgeNow(p, h)
    BY <1>6, <1>9, <2>1 DEF EdgesKept
  <2> QED
    BY <1>1, <2>2 DEF EdgeAhead, EdgeNow, AfterClock
<1> QED
  BY <1>1, <1>7, <1>8, <1>9 DEF EdgesKept, ClocksTrue

\* Either way nothing is left behind.
LEMMA EdgeLeavesNone ==
  ASSUME SchedOK, ListInv', NEW r \in Clocked, EdgeOf(r), abort' = "none", NoneBehind,
         \A p \in Synchronous : sync'[p] = Free => sync[p] = Free
  PROVE  NoneBehind'
<1>1. Edged(r) /\ phase = "Step8" /\ phase' = "Step8" /\ r \in AllRecords /\ list.cursor = r
  BY EdgeGives, Kinships DEF EdgeOf
<1>2. /\ list'.past = "none" /\ AtHand(r)'
      /\ \A x \in AllRecords \ {r} : Upcoming(list, x) => AtHand(x)'
  BY <1>1, EdgeLeaves
<1>3. \A p \in Synchronous : AtHand(p) => AtHand(p)'
  BY <1>1, <1>2, OfItsClock DEF AtHand
<1> QED
  BY <1>1, <1>2, <1>3 DEF NoneBehind

-----------------------------------------------------------------------------
(* The flush functions schedule what they wake.                             *)

\* The edges while woken processes are being put where they belong.
EdgesIn(s, h) ==
  /\ \A r \in AllRecords : OnBeat(s.times[r], h)
  /\ \A p \in Synchronous : Upcoming(s.list, p) => s.times[p] = simTime[ClockOf[p]] + AfterClock(p, h)

\* A clock lies ahead of a cursor that has not gone past the start of the list.
LEMMA ClockIsAhead ==
  ASSUME SchedOK, NEW s, WokenOK(s), s.list.past # "prev", NEW c \in Clocks
  PROVE  s.list.past = "none" /\ Upcoming(s.list, c) /\ simTime[c] > now /\ s.times[c] = simTime[c]
<1> DEFINE l == s.list
<1>1. /\ c \in AllRecords /\ ~ Doomed(c) /\ c \notin Software /\ ListOfAll(l) /\ LastIfPast(l)
      /\ l.cursor \in AllRecords /\ l.past \in {"none", "prev", "next"}
  BY Kinships DEF WokenOK, EntriesOK, ListOfAll
<1>2. c # l.cursor /\ ~ Before(l, c, l.cursor)
  BY DEF WokenOK
<1>3. l.past # "next"
  BY <1>1, <1>2 DEF LastIfPast
<1>4. Before(l, l.cursor, c)
  BY <1>1, <1>2, BeforeIsOrder
<1>5. l.past = "none" /\ Upcoming(l, c)
  BY <1>1, <1>3, <1>4 DEF Upcoming
<1> QED
  BY <1>1, <1>5 DEF WokenOK

\* It is half a period ahead.
LEMMA ClockIsNext ==
  ASSUME SchedOK, NEW h, OneBeat(h), EdgesKept(h), NEW s, WokenOK(s), s.list.past # "prev", NEW c \in Clocks
  PROVE  simTime[c] = now + h
<1>1. simTime[c] > now /\ simTime[c] <= now + h /\ h \in Nat \ {0} /\ HalfPeriod[c] = h
  BY ClockIsAhead DEF SchedOK, Orderly, ClocksAhead, OneBeat
<1>2. OnBeat(now, h) /\ OnBeat(simTime[c], h)
  BY Kinships DEF EdgesKept, OnTheBeat
<1>3. now \in Nat /\ simTime[c] \in Nat
  BY Kinships DEF SchedOK, ListInv, ListTyped
<1> QED
  BY <1>1, <1>2, <1>3, NextBeat

\* What scheduling a woken process p does to what lies ahead.
WokenAhead(s, e, p) ==
  /\ e.list.past # "prev"
  /\ \A x \in AllRecords \ {p} : Upcoming(s.list, x) => Upcoming(e.list, x)
  /\ p \in Synchronous => Upcoming(e.list, p)

\* A woken process with a clock is put ahead of the cursor, also if it lay
\* behind it, or it is ahead already.
LEMMA WokenIsAhead ==
  ASSUME SchedOK, NEW s, WokenOK(s), s.list.past # "prev", NEW p \in Processes, NEW e, EntriesOK(e),
         e.times = [s.times EXCEPT ![p] = WakeTime(p)], Rescheduled(s.list, e.list, e.times, p)
  PROVE  WokenAhead(s, e, p)
<1> DEFINE l == s.list
           m == e.list
<1>1. /\ ListOfAll(l) /\ ListOfAll(m) /\ LastIfPast(l) /\ p \in AllRecords /\ l.cursor \in AllRecords
      /\ m.past \in {"none", "prev", "next"} /\ l.past \in {"none", "prev", "next"}
  BY Kinships DEF WokenOK, EntriesOK, ListOfAll
<1>2. /\ m.cursor = l.cursor /\ SameOthers(l, m, p)
      /\ m.past = "prev" <=> l.past = "prev"
      /\ m.past = "next" => l.past = "next"
      /\ m = l \/ p # l.cursor
  BY <1>1, ScheduledAround
<1>3. ASSUME NEW x \in AllRecords \ {p}, Upcoming(l, x) PROVE Upcoming(m, x)
  BY <1>1, <1>2, <1>3 DEF Upcoming, SameOthers
<1>4. ASSUME p \in Synchronous PROVE Upcoming(m, p)
  <2> DEFINE c == ClockOf[p]
  <2>1. c \in Clocks /\ c \in AllRecords /\ c # p /\ p \notin Software
    BY <1>4, OfItsClock DEF Software
  <2>2. l.past = "none" /\ m.past = "none" /\ Before(l, l.cursor, c)
    BY <1>1, <1>2, <2>1, ClockIsAhead DEF Upcoming
  <2> HIDE DEF c
  <2>3. \A x, y, z \in AllRecords : /\ ~ Before(l, x, x) /\ (Before(l, x, y) => ~ Before(l, y, x))
                                    /\ Before(l, x, y) /\ Before(l, y, z) => Before(l, x, z)
    BY <1>1, BeforeIsOrder
  <2>4. CASE m = l /\ Stays(l, e.times, p)
    <3>1. \A q \in AllRecords : IsNext(l, q) => ~ Later(e.times, q, p)
      BY <2>1, <2>2, WokenInPlace
    <3>2. \A x \in AllRecords \ {p} : Before(l, x, p)
      BY <2>4, <3>1 DEF Stays, FirstLater
    <3>3. Before(l, l.cursor, p)
      BY <1>1, <2>1, <2>2, <2>3, <3>2
    <3> QED
      BY <2>2, <2>4, <3>3 DEF Upcoming
  <2>5. CASE p # l.cursor /\ Relinked(l, m, e.times, p)
    <3>1. CASE PlacedLast(l, m, p)
      BY <1>1, <1>2, <2>2, <2>5, <3>1 DEF PlacedLast, Upcoming
    <3>2. ASSUME NEW q \in AllRecords \ {p}, FirstLater(l, e.times, p, q), PlacedBefore(l, m, p, q)
          PROVE  Upcoming(m, p)
      BY <1>1, <1>2, <2>2, <2>5, <3>2 DEF PlacedBefore, FirstLater, Upcoming
    <3> QED
      BY <2>5, <3>1, <3>2 DEF Relinked
  <2> QED
    BY <2>4, <2>5 DEF Rescheduled
<1> QED
  BY <1>1, <1>2, <1>3, <1>4 DEF WokenAhead

\* Scheduling one woken process keeps the edges, and leaves nothing behind.
LEMMA WakeOneEdge ==
  ASSUME SchedOK, NEW h, OneBeat(h), EdgesKept(h), NEW s, WokenOK(s), EdgesIn(s, h), NEW p \in Processes,
         NEW e, e = ScheduleAt(s, p, WakeTime(p))
  PROVE  EdgesIn(e, h) /\ (e.abort = "none" /\ s.list.past # "prev" => WokenAhead(s, e, p))
<1>1. CASE s.abort # "none"
  <2>1. e = s
    BY <1>1 DEF ScheduleAt
  <2> QED
    BY <1>1, <2>1
<1>2. CASE s.abort = "none"
  <2>1. EntriesOK(s) /\ ListOfAll(s.list) /\ s.times \in [AllRecords -> Nat] /\ LastIfPast(s.list) /\ p \in AllRecords
    BY Kinships DEF WokenOK, EntriesOK
  <2>2. WakeTime(p) \in Nat
    BY WakeTimes
  <2>3. /\ EntriesOK(e) /\ e.times = [s.times EXCEPT ![p] = WakeTime(p)]
        /\ \/ e.abort = "unlinkCurrent" /\ e.list = s.list /\ p = s.list.cursor
           \/ e.abort = "none" /\ Rescheduled(s.list, e.list, e.times, p)
    BY <1>2, <2>1, <2>2, ScheduleGives
  <2>4. e.times[p] = WakeTime(p) /\ \A x \in AllRecords \ {p} : e.times[x] = s.times[x]
    BY <2>1, <2>3
  <2>5. h \in Nat /\ now \in Nat
    BY DEF OneBeat, SchedOK, ListInv, ListTyped
  <2>6. p \in Synchronous => WakeTime(p) = now + (h + AfterClock(p, h)) /\ AfterClock(p, h) \in {0, h}
    BY NextEdgeIs DEF SchedOK, ListInv, Orderly, EdgesKept, WakeTime, AfterClock
  <2>7. OnBeat(WakeTime(p), h)
    <3>1. CASE p \in Synchronous
      <4>1. OnBeat(h + AfterClock(p, h), h) /\ OnBeat(now, h)
        BY <2>5, <2>6, <3>1, SmallBeats DEF EdgesKept, OnTheBeat
      <4> QED
        BY <2>5, <2>6, <3>1, <4>1, BeatAdds
    <3>2. CASE p \notin Synchronous
      BY <3>2 DEF WakeTime, EdgesKept, OnTheBeat
    <3> QED
      BY <3>1, <3>2
  <2>8. \A r \in AllRecords : OnBeat(e.times[r], h)
    BY <2>4, <2>7 DEF EdgesIn
  <2>9. ASSUME NEW r \in Synchronous, Upcoming(e.list, r)
        PROVE  e.times[r] = simTime[ClockOf[r]] + AfterClock(r, h)
    <3>1. CASE r = p
      <4>1. s.list.past # "prev"
        <5>1. e.list.past # "prev"
          BY <2>9 DEF Upcoming
        <5> QED
          BY <2>1, <2>3, <5>1, ScheduledAround DEF EntriesOK
      <4>2. simTime[ClockOf[p]] = now + h
        BY <2>9, <3>1, <4>1, OfItsClock, ClockIsNext
      <4> DEFINE a == AfterClock(p, h)
      <4>3. a \in {0, h}
        BY <2>6, <2>9, <3>1
      <4> HIDE DEF a
      <4>4. now + (h + a) = (now + h) + a
        BY <2>5, <4>3
      <4> QED
        BY <2>4, <2>6, <2>9, <3>1, <4>2, <4>4 DEF a
    <3>2. CASE r # p
      <4>1. Upcoming(s.list, r)
        BY <2>1, <2>3, <2>9, <3>2, OfItsClock, ScheduledAround DEF EntriesOK
      <4> QED
        BY <2>4, <2>9, <3>2, <4>1, OfItsClock DEF EdgesIn
    <3> QED
      BY <3>1, <3>2
  <2>10. e.abort = "none" /\ s.list.past # "prev" => WokenAhead(s, e, p)
    BY <2>3, WokenIsAhead
  <2> QED
    BY <2>8, <2>9, <2>10 DEF EdgesIn
<1> QED
  BY <1>1, <1>2

\* A state in which processes may be woken is fit for it.
LEMMA WakesFromHere ==
  ASSUME SchedOK, phase \in Flushes \ {"Advance"}, NEW h, EdgesKept(h)
  PROVE  WokenOK(Entries) /\ EdgesIn(Entries, h) /\ Entries.list = list /\ Entries.times = simTime
<1>1. EntriesOK(Entries) /\ Entries.list = list /\ Entries.times = simTime /\ Entries.abort = "none"
  BY EntriesTyped DEF SchedOK, ListInv, Healthy
<1>2. \A x \in AllRecords : Upcoming(list, x) => AtHand(x)
  BY DEF AtHand
<1>3. phase \notin {"Run", "Step8"}
  BY DEF Flushes
<1>4. /\ \A x, y \in AllRecords :
           Upcoming(list, x) /\ Before(list, x, y) /\ ~ Doomed(y) => ~ Later(simTime, x, y)
      /\ \A x \in AllRecords : Upcoming(list, x) /\ ~ Doomed(x) => simTime[x] >= now
      /\ \A x \in AllRecords \ Software : Upcoming(list, x) /\ ~ Doomed(x) => simTime[x] > now
      /\ \A p \in Software : simTime[p] <= now
      /\ list.past # "prev" => \A c \in Clocks : ~ Before(list, c, list.cursor)
      /\ list.cursor \in Clocks => list.past = "prev"
      /\ LastIfPast(list)
  BY <1>2, <1>3 DEF SchedOK, Orderly, Sorted, NotPast, EdgesToCome, SoftwareFirst, ClocksAhead
<1>5. WokenOK(Entries)
  BY <1>1, <1>4 DEF WokenOK
<1>6. EdgesIn(Entries, h)
  BY <1>1, <1>2, <1>3, OfItsClock DEF EdgesIn, EdgesKept, OnTheBeat, EdgeNow, EdgeAhead
<1> QED
  BY <1>1, <1>5, <1>6

\* Processes that are woken keep the edges, and are not left behind.
LEMMA WakesKeepEdges ==
  ASSUME SchedOK, ListInv', NEW ps \in Seq(Processes), Len(ps) \in {1, 2}, Wakes(ps),
         NEW h, OneBeat(h), EdgesKept(h)
  PROVE  /\ EdgesKept(h)'
         /\ abort' = "none" /\ Events = {} /\ NoneBehind => NoneBehind'
<1>1. /\ phase \in Flushes \ {"Advance"} /\ phase' = phase /\ phase \notin {"Run", "Step8", "Finished"}
      /\ UNCHANGED <<now, clock>> /\ (Events = {} => FreedOnly(ps))
  BY DEF Wakes, InCycle, Flushes
<1> DEFINE first  == ScheduleAt(Entries, ps[1], WakeTime(ps[1]))
           second == ScheduleAt(first, ps[2], WakeTime(ps[2]))
<1>2. ps[1] \in Processes /\ (Len(ps) # 1 => ps[2] \in Processes)
      /\ \A p : (\E i \in DOMAIN ps : ps[i] = p) => p = ps[1] \/ (Len(ps) # 1 /\ p = ps[2])
  BY LenProperties
<1>3. WokenOK(Entries) /\ EdgesIn(Entries, h) /\ Entries.list = list /\ Entries.times = simTime
  BY <1>1, WakesFromHere
<1>4. /\ WokenOK(first) /\ EdgesIn(first, h)
      /\ first.abort = "none" /\ list.past # "prev" => WokenAhead(Entries, first, ps[1])
  BY <1>2, <1>3, WakeOne, WakeOneEdge
<1>5. second.abort = "none" => first.abort = "none"
  BY DEF ScheduleAt
<1> HIDE DEF first
<1>6. Len(ps) # 1 =>
        /\ WokenOK(second) /\ EdgesIn(second, h)
        /\ second.abort = "none" /\ first.list.past # "prev" => WokenAhead(first, second, ps[2])
  BY <1>2, <1>4, WakeOne, WakeOneEdge
<1> HIDE DEF second
<1>7. Take(IF Len(ps) = 1 THEN first ELSE second)
  BY DEF Wakes, first, second
<1>8. PICK e : /\ e = IF Len(ps) = 1 THEN first ELSE second
               /\ WokenOK(e) /\ EdgesIn(e, h) /\ Take(e)
  BY <1>4, <1>6, <1>7
<1>9. list' = e.list /\ simTime' = e.times /\ abort' = e.abort
  BY <1>8 DEF Take
<1>10. \A x : AtHand(x)' <=> Upcoming(e.list, x)
  BY <1>1, <1>9 DEF AtHand, Upcoming, Before, Position
<1>11. EdgesKept(h)'
  <2>1. OnTheBeat(h)' /\ ClocksTrue'
    BY <1>1, <1>8, <1>9 DEF EdgesKept, OnTheBeat, OnBeat, EdgesIn, ClocksTrue
  <2>2. \A c \in Clocks : simTime'[c] = simTime[c]
    BY <1>8, <1>9 DEF WokenOK
  <2>3. ASSUME NEW p \in Synchronous, AtHand(p)' PROVE EdgeAhead(p, h)'
    <3>1. simTime'[p] = simTime[ClockOf[p]] + AfterClock(p, h)
      BY <1>8, <1>9, <1>10, <2>3 DEF EdgesIn
    <3> QED
      BY <1>1, <2>2, <3>1, OfItsClock DEF EdgeAhead, AfterClock
  <2> QED
    BY <2>1, <2>3 DEF EdgesKept
<1>12. ASSUME abort' = "none", Events = {}, NoneBehind PROVE NoneBehind'
  <2>1. list.past # "prev" /\ \A p \in Synchronous : sync[p] = Free => Upcoming(list, p)
    BY <1>1, <1>12 DEF NoneBehind, AtHand
  <2>2. e.abort = "none" /\ first.abort = "none"
    BY <1>5, <1>8, <1>9, <1>12
  <2>3. WokenAhead(Entries, first, ps[1])
    BY <1>4, <2>1, <2>2
  <2>4. Len(ps) # 1 => e = second /\ WokenAhead(first, second, ps[2])
    BY <1>6, <1>8, <2>2, <2>3 DEF WokenAhead
  <2>5. e.list.past # "prev"
    BY <1>8, <2>3, <2>4 DEF WokenAhead
  <2>6. ASSUME NEW p \in Synchronous, sync'[p] = Free PROVE Upcoming(e.list, p)
    <3>1. p \in Processes /\ p \in AllRecords
      BY OfItsClock
    <3>2. Upcoming(list, p) \/ p = ps[1] \/ (Len(ps) # 1 /\ p = ps[2])
      BY <1>1, <1>2, <1>12, <2>1, <2>6, <3>1 DEF FreedOnly
    <3>3. Upcoming(list, p) \/ p = ps[1] => Upcoming(first.list, p)
      BY <1>3, <2>3, <2>6, <3>1 DEF WokenAhead
    <3>4. Len(ps) # 1 /\ (Upcoming(first.list, p) \/ p = ps[2]) => Upcoming(second.list, p)
      BY <2>4, <2>6, <3>1 DEF WokenAhead
    <3> QED
      BY <1>8, <3>2, <3>3, <3>4
  <2> QED
    BY <1>1, <1>9, <1>10, <2>5, <2>6 DEF NoneBehind
<1> QED
  BY <1>11, <1>12

-----------------------------------------------------------------------------
(* Steps that free a process.                                              *)

\* No blocked process is freed.
FreesNone == \A p \in Processes : sync'[p] = Free => sync[p] = Free

\* A process is freed by the flush function that wakes it: what blocks the
\* processes that have called Wait frees none.
LEMMA OnlyWakesFree ==
  ASSUME TypeOK, SchedNext
  PROVE  FreesNone \/ WakeProcesses
<1>1. UNCHANGED sync => FreesNone
  BY DEF FreesNone
<1>2. CASE RunRecord \/ StartTimer \/ StopRunning
  <2>1. UNCHANGED sync
    BY <1>2 DEF RunRecord, Dispatch, Return, DispatchIdle, TimerExecute, Abort, StartTimer, TimerStart, TimerRestart,
       StopRunning, RunEnds, Enter, blockVars, baseVars
  <2> QED
    BY <1>1, <2>1
<1>3. CASE ProcessCalls
  <2>1. UNCHANGED sync
    BY <1>3 DEF ProcessCalls, NextReason, Wait, SemaphoreCall, SemaphoreGet, SemaphorePut, MailboxCall, MailboxGet,
       MailboxPut, EventCall, EventGet, EventSet, TimerWatch, TimerWait, TimerStop, blockVars, baseVars
  <2> QED
    BY <1>1, <2>1
<1>4. CASE ClockCalls \/ ClockTicks \/ PassOver \/ RunSynchronous \/ EdgeDone \/ AdvanceTime
  <2>1. UNCHANGED sync
    BY <1>4 DEF ClockCalls, ClockTicks, PassOver, RunSynchronous, ExecuteOnEdge, ReturnOnEdge, EdgeDone, EdgeEnds,
       AdvanceTime, Advance, blockVars, baseVars, vars
  <2> QED
    BY <1>1, <2>1
<1>5. CASE FlushOn
  <2>1. UNCHANGED sync
    BY <1>5 DEF FlushOn, SemaphoreFlushGetDone, SemaphoreFlushPutDone, MailboxNoPair, EventFlushUnheard,
       TimerFlushDone, TimersEnd, EventsEnd, SemGetsEnd, SemPutsEnd, MailboxesEnd, Enter, Abort, blockVars, baseVars
  <2> QED
    BY <1>1, <2>1
<1>6. CASE EndDeltaCycle
  <2>1. CASE UNCHANGED blockVars
    BY <1>1, <2>1 DEF blockVars
  <2>2. CASE sync' = [r \in Records |->
                 IF \E i \in DOMAIN toBlock : toBlock[i].proc = r
                   THEN toBlock[CHOOSE i \in DOMAIN toBlock : toBlock[i].proc = r].wait
                   ELSE sync[r]]
    <3>1. \A i \in DOMAIN toBlock : toBlock[i].wait # Free
      <4>1. \A i \in DOMAIN toBlock : toBlock[i].wait.agent \in Agents
        <5>1. toBlock \in Seq([proc : Records, wait : Waits])
          BY DEF TypeOK, SyncTypeOK
        <5>2. \A i \in DOMAIN toBlock : toBlock[i] \in [proc : Records, wait : Waits]
          BY <5>1, ElementOfSeq, LenProperties
        <5> QED
          BY <5>2 DEF Waits
      <4> QED
        BY <4>1, ProcessSyncAssumption DEF Free, WaitOn, Agents
    <3>2. ASSUME NEW p \in Processes, sync'[p] = Free PROVE sync[p] = Free
      BY <2>2, <3>1, <3>2 DEF Records
    <3> QED
      BY <3>2 DEF FreesNone
  <2> QED
    BY <1>6, <2>1, <2>2 DEF EndDeltaCycle, FlushProcessesToBlock, Abort
<1> QED
  BY <1>2, <1>3, <1>4, <1>5, <1>6 DEF SchedNext

\* So a step frees none, or is of the kind that schedules what it frees.
LEMMA FreedAreScheduled ==
  ASSUME SuspendableClocks = {}, SchedOK, SchedNext
  PROVE  \/ FreesNone /\ Kinds
         \/ Fails
         \/ \E ps \in Seq(Processes) : Len(ps) \in {1, 2} /\ Wakes(ps)
<1>1. TypeOK
  BY DEF SchedOK, ListInv
<1> QED
  BY <1>1, OnlyWakesFree, WakeKinds, StepKinds

-----------------------------------------------------------------------------
(* Every step keeps the edges.                                             *)

\* What a step that no assert stops has to keep.
KeepsEdges(h) ==
  Healthy' =>
    /\ EdgesKept(h)'
    /\ Events = {} /\ Software # {} /\ NoneBehind => NoneBehind'

\* Steps that move the cursor, or nothing.
LEMMA HandKeepsEdges ==
  ASSUME SchedOK, NEW h, EdgesKept(h), HandKept, FreesNone
  PROVE  KeepsEdges(h)
<1>1. ListTyped
  BY DEF SchedOK, ListInv
<1>2. \A p \in Synchronous : sync'[p] = Free => sync[p] = Free
  BY OfItsClock DEF FreesNone
<1> QED
  BY <1>1, <1>2, EdgesStand, NoneLeftBehind DEF KeepsEdges

LEMMA StepKeepsEdges ==
  ASSUME SuspendableClocks = {}, SchedOK, ListInv', SchedNext, NEW h, OneBeat(h), EdgesKept(h)
  PROVE  KeepsEdges(h)
<1>1. Fails => ~ Healthy'
  BY DEF Fails, Healthy
<1>2. ASSUME NEW ps \in Seq(Processes), Len(ps) \in {1, 2}, Wakes(ps) PROVE KeepsEdges(h)
  BY <1>2, WakesKeepEdges DEF KeepsEdges, Healthy
<1>3. ASSUME FreesNone, Calm \/ FlushesOn \/ EdgeIsDone PROVE KeepsEdges(h)
  <2>1. UNCHANGED <<list, simTime, now, clock>>
    BY <1>3 DEF Calm, FlushesOn, EdgeIsDone
  <2>2. /\ phase' = "Finished" <=> phase = "Finished"
        /\ phase \in {"Run", "Step8"} <=> phase' \in {"Run", "Step8"}
    BY <1>3 DEF Calm, FlushesOn, EdgeIsDone, InCycle, Flushes
  <2>3. HandKept
    BY <2>1, <2>2, StandsKept
  <2> QED
    BY <1>3, <2>3, HandKeepsEdges
<1>4. ASSUME FreesNone, Passes \/ (\E t \in Timers : Completes(t)) PROVE KeepsEdges(h)
  <2>1. Moves /\ (list.cursor \in Synchronous => sync[list.cursor] # Free)
    BY <1>4, Kinships DEF Passes, Completes
  <2> QED
    BY <1>4, <2>1, MovesKept, HandKeepsEdges
<1>5. ASSUME FreesNone, Stops \/ EndsCycle PROVE KeepsEdges(h)
  BY <1>5, StopsKept, EndsCycleKept, HandKeepsEdges
<1>6. ASSUME FreesNone, Advances PROVE KeepsEdges(h)
  BY <1>6, AdvancesKeepsEdges, OfItsClock DEF KeepsEdges, FreesNone
<1>7. ASSUME FreesNone, NEW t \in Timers, Starts(t) PROVE KeepsEdges(h)
  BY <1>7, StartsKeepsEdges, OfItsClock DEF KeepsEdges, FreesNone
<1>8. ASSUME FreesNone, NEW r \in Clocked, EdgeOf(r) PROVE KeepsEdges(h)
  <2>1. Healthy' => abort' = "none"
    BY DEF Healthy
  <2>2. r \in Clocks \/ r \in Synchronous
    BY DEF Clocked
  <2>3. Healthy' => EdgesKept(h)'
    BY <1>8, <2>1, <2>2, TickKeepsEdges, RunKeepsEdges
  <2>4. \A p \in Synchronous : sync'[p] = Free => sync[p] = Free
    BY <1>8, OfItsClock DEF FreesNone
  <2> QED
    BY <1>8, <2>1, <2>3, <2>4, EdgeLeavesNone DEF KeepsEdges
<1>9. FreesNone /\ Kinds => KeepsEdges(h) \/ Fails \/ \E ps \in Seq(Processes) : Len(ps) \in {1, 2} /\ Wakes(ps)
  BY <1>3, <1>4, <1>5, <1>6, <1>7, <1>8 DEF Kinds
<1> QED
  BY <1>1, <1>2, <1>9, FreedAreScheduled DEF KeepsEdges

\* A step that an assert stops leaves the running process at its edge.
LEMMA StoppedAtEdge ==
  ASSUME SuspendableClocks = {}, SchedOK, ListInv', SchedNext, OnItsEdge, ~ Healthy'
  PROVE  OnItsEdge'
<1>1. current' = NoProcess => OnItsEdge'
  BY ProcessSyncAssumption DEF OnItsEdge
<1>2. phase \notin {"Run", "Step8"} => current = NoProcess
  BY DEF SchedOK, ListInv, CursorInv
<1>3. ASSUME UNCHANGED <<current, now, clock>>, \A c \in Clocks : simTime'[c] = simTime[c] PROVE OnItsEdge'
  BY <1>3, OfItsClock DEF OnItsEdge
<1>4. CASE Fails
  BY <1>3, <1>4 DEF Fails
<1>5. ASSUME NEW t \in Timers, Starts(t) PROVE OnItsEdge'
  <2>1. \A c \in Clocks : simTime'[c] = simTime[c]
    <3>1. TimerPlaced(t)
      BY <1>5, StartGives
    <3> QED
      BY <3>1, Kinships DEF TimerPlaced, SchedOK, ListInv, ListTyped
  <2> QED
    BY <1>3, <1>5, <2>1 DEF Starts
<1>6. ASSUME Calm \/ Passes \/ (\E t \in Timers : Completes(t)) \/ Stops \/ EndsCycle \/ EdgeIsDone PROVE FALSE
  BY <1>6 DEF Calm, Passes, Completes, Moves, Stops, EndsCycle, EdgeIsDone, SchedOK, Healthy
<1>7. ASSUME \/ FlushesOn \/ Advances \/ \E r \in Clocked : EdgeOf(r)
             \/ \E ps \in Seq(Processes) : Len(ps) \in {1, 2} /\ Wakes(ps)
      PROVE  current' = NoProcess
  BY <1>2, <1>7 DEF FlushesOn, Advances, EdgeOf, Wakes, InCycle, Flushes
<1> QED
  BY <1>1, <1>4, <1>5, <1>6, <1>7, StepKinds DEF Kinds

\* A step that an assert stops is not one that lets time move on.
LEMMA NotToAdvance ==
  ASSUME SuspendableClocks = {}, SchedOK, SchedNext, ~ Healthy'
  PROVE  phase' # "Advance"
<1>1. ASSUME Calm \/ Passes \/ (\E t \in Timers : Completes(t)) \/ Stops \/ EndsCycle \/ EdgeIsDone PROVE FALSE
  BY <1>1 DEF Calm, Passes, Completes, Moves, Stops, EndsCycle, EdgeIsDone, SchedOK, Healthy
<1>2. ASSUME \/ Fails \/ FlushesOn \/ Advances \/ (\E r \in Clocked : EdgeOf(r)) \/ (\E t \in Timers : Starts(t))
             \/ \E ps \in Seq(Processes) : Len(ps) \in {1, 2} /\ Wakes(ps)
      PROVE  phase' # "Advance"
  BY <1>2 DEF Fails, FlushesOn, Advances, EdgeOf, Starts, Wakes, InCycle, Flushes
<1> QED
  BY <1>1, <1>2, StepKinds DEF Kinds

-----------------------------------------------------------------------------
(* Of every behaviour.                                                     *)

\* The inductive invariants.
EdgeInv(h) == OrderInv /\ IF Healthy THEN EdgesKept(h) ELSE OnItsEdge
MissInv(h) == EdgeInv(h) /\ (phase = "Advance" => Healthy) /\ (Healthy => NoneBehind)

\* They hold at the start: every record is scheduled for its first edge, the
\* scheduler asserts that it is not at once.
LEMMA StartsOnTheBeat ==
  ASSUME SchedInit, ListInv, NEW h, OneBeat(h)
  PROVE  MissInv(h)
<1>1. OrderInv /\ (Healthy => Orderly)
  BY OrderInit DEF OrderInv
<1>2. /\ now = 0 /\ current = NoProcess /\ phase = "Run"
      /\ \A r \in Clocked : simTime[r] = EdgeIncr(clock, r)
      /\ \A r \in AllRecords \ Clocked : simTime[r] = 0
      /\ \A c \in Clocks : clock[c] = Started(StartPhase[c], FALSE)
  BY Kinships DEF SchedInit, ClockInit, Init, ProcessSyncInit
<1>3. OnItsEdge
  BY <1>2, ProcessSyncAssumption DEF OnItsEdge
<1>4. ASSUME Healthy PROVE EdgesKept(h)
  <2>1. h \in Nat /\ ListTyped /\ ClocksAhead
    BY <1>1, <1>4 DEF OneBeat, ListInv, Orderly
  <2>2. ASSUME NEW c \in Clocks
        PROVE  simTime[c] = h /\ FromStart(StartPhase[c], "PositiveAndNegativeEdge") = 1
    <3> DEFINE f == FromStart(StartPhase[c], "PositiveAndNegativeEdge")
    <3>1. f \in {0, 1}
      <4>1. StartPhase[c] \in ClockPhases
        BY ClockAssumption
      <4> QED
        BY <4>1 DEF FromStart, ClockPhases, Rising, Falling
    <3>2. clock[c].advanced = FALSE /\ HalfPeriod[c] = h
      <4>1. clock[c] = Started(StartPhase[c], FALSE)
        BY <1>2
      <4> QED
        BY <4>1 DEF Started, OneBeat
    <3>3. simTime[c] = h * f
      BY <1>2, <3>2, Kinships DEF EdgeIncr, SimTimeIncrForNextClockEdge
    <3>4. simTime[c] # 0
      BY <1>4, Kinships DEF SchedInit, Healthy
    <3> HIDE DEF f
    <3>5. f = 1
      BY <2>1, <3>1, <3>3, <3>4
    <3> QED
      BY <2>1, <3>3, <3>5 DEF f
  <2>3. ClocksTrue
    BY <1>2, <2>2 DEF ClocksTrue
  <2>4. ASSUME NEW p \in Synchronous PROVE simTime[p] = h + AfterClock(p, h) /\ EdgeAhead(p, h)
    <3>1. simTime[p] = h + AfterClock(p, h)
      BY <1>2, <2>1, <2>3, NextEdgeIs, OfItsClock
    <3> QED
      BY <2>2, <3>1, OfItsClock DEF EdgeAhead
  <2>5. OnTheBeat(h)
    <3>1. ASSUME NEW r \in AllRecords PROVE simTime[r] \in {0, h, h + h, h + 0}
      BY <1>2, <2>2, <2>4 DEF Clocked, AfterClock
    <3>2. h + 0 = h
      BY <2>1
    <3> QED
      BY <1>2, <2>1, <3>1, <3>2, SmallBeats DEF OnTheBeat
  <2> QED
    BY <2>3, <2>4, <2>5 DEF EdgesKept
<1>5. NoneBehind
  <2>1. PICK o \in SetToSeqs(AllRecords) : list = ListOf(o)
    BY DEF SchedInit
  <2>2. list.order = o /\ list.cursor = Head(o) /\ list.past = "none" /\ ListOfAll(list)
    BY <2>1 DEF ListOf, ListInv, ListTyped
  <2>3. /\ Len(o) \in Nat
        /\ \A r \in AllRecords : Position(list, r) \in 1..Len(o) /\ o[Position(list, r)] = r
        /\ \A i \in 1..Len(o) : Position(list, o[i]) = i
    BY <2>2, PositionIs, LenProperties DEF ListOfAll
  <2>4. Position(list, list.cursor) = 1
    <3>1. o \in Seq(AllRecords) /\ o # <<>>
      BY <2>2, PermutationsAreLists DEF ListOfAll
    <3>2. Head(o) = o[1] /\ 1 \in 1..Len(o)
      BY <2>3, <3>1, EmptySeq, HeadTailProperties
    <3> QED
      BY <2>2, <2>3, <3>2
  <2>5. ASSUME NEW p \in Synchronous PROVE AtHand(p)
    <3>1. p \in AllRecords /\ list.cursor \in AllRecords
      BY <2>2, OfItsClock DEF ListOfAll
    <3>2. Position(list, p) \in 1..Len(o)
      BY <2>3, <3>1
    <3>3. CASE Position(list, p) = 1
      <4>1. p = list.cursor
        BY <2>3, <2>4, <3>1, <3>3
      <4> QED
        BY <1>2, <2>2, <4>1 DEF AtHand
    <3>4. CASE Position(list, p) # 1
      <4>1. 1 < Position(list, p)
        BY <2>3, <3>2, <3>4
      <4> QED
        BY <2>2, <2>4, <4>1 DEF AtHand, Upcoming, Before
    <3> QED
      BY <3>3, <3>4
  <2> QED
    BY <2>2, <2>5 DEF NoneBehind
<1> QED
  BY <1>1, <1>2, <1>3, <1>4, <1>5 DEF MissInv, EdgeInv

\* And are kept.
LEMMA EdgeInvStep ==
  ASSUME SuspendableClocks = {}, NEW h, OneBeat(h), EdgeInv(h), ListInv', [SchedNext]_allVars
  PROVE  /\ EdgeInv(h)'
         /\ Events = {} /\ Software # {} /\ MissInv(h) => MissInv(h)'
<1>1. OrderInv'
  BY OrderStep DEF EdgeInv
<1>2. CASE UNCHANGED allVars
  <2>1. UNCHANGED <<list, simTime, now, clock, phase, current, sync, abort, fault>>
    BY <1>2 DEF allVars, schedVars, vars, baseVars, runVars, loopVars, blockVars
  <2>2. /\ OnItsEdge' <=> OnItsEdge
        /\ Healthy' <=> Healthy
        /\ NoneBehind' <=> NoneBehind
    BY <2>1 DEF OnItsEdge, Healthy, NoneBehind, AtHand, Upcoming, Before, Position
  <2>3. EdgesKept(h)' <=> EdgesKept(h)
    BY <2>1 DEF EdgesKept, OnTheBeat, OnBeat, ClocksTrue, EdgeAhead, EdgeNow, AfterClock, AtHand, Upcoming, Before, Position
  <2> QED
    BY <1>1, <2>1, <2>2, <2>3 DEF EdgeInv, MissInv
<1>3. CASE SchedNext
  <2>1. SchedOK /\ EdgesKept(h) /\ Healthy
    BY <1>3, FailedIsOver DEF EdgeInv, OrderInv, SchedOK
  <2>2. KeepsEdges(h)
    BY <1>3, <2>1, StepKeepsEdges
  <2>3. CASE Healthy'
    BY <1>1, <2>1, <2>2, <2>3 DEF EdgeInv, MissInv, KeepsEdges
  <2>4. CASE ~ Healthy'
    <3>1. OnItsEdge'
      BY <1>3, <2>1, <2>4, EdgesFollow, StoppedAtEdge
    <3>2. phase' # "Advance"
      BY <1>3, <2>1, <2>4, NotToAdvance
    <3> QED
      BY <1>1, <2>4, <3>1, <3>2 DEF EdgeInv, MissInv
  <2> QED
    BY <2>3, <2>4
<1> QED
  BY <1>2, <1>3

\* Each synchronous process runs at an edge that it is sensitive to, after its
\* clock, and is told that edge (Step8 and SimTimeIncrForNextClockEdge), where
\* all clocks have the same half period, timers last multiples of it, and nobody
\* suspends a clock.
THEOREM ProcessesRunAtTheirEdge ==
  ASSUME SuspendableClocks = {}, NEW h, OneBeat(h)
  PROVE  SchedSpec => []OnItsEdge
<1>1. SchedInit /\ ListInv => EdgeInv(h)
  BY StartsOnTheBeat DEF MissInv
<1>2. EdgeInv(h) /\ ListInv' /\ [SchedNext]_allVars => EdgeInv(h)'
  BY EdgeInvStep
<1>3. EdgeInv(h) => OnItsEdge
  BY EdgesFollow DEF EdgeInv, OrderInv, SchedOK
<1> QED
  BY <1>1, <1>2, <1>3, ListInvariant, PTL DEF SchedSpec

\* The processes that wait for no agent are ahead of the cursor, at their edges,
\* when time is to move on.
LEMMA NoneMissed ==
  ASSUME NEW h, OneBeat(h), MissInv(h)
  PROVE  NoEdgeMissed
<1> SUFFICES ASSUME phase = "Advance", NEW p \in Synchronous, sync[p] = Free
             PROVE  LET c == ClockOf[p]
                    IN /\ Position(list, p) \in Ahead(list)
                       /\ simTime[p] = simTime[c] + IF SeesEdge(p, clock[c].bit = 0) THEN 0 ELSE HalfPeriod[c]
  BY DEF NoEdgeMissed
<1>1. Healthy /\ EdgesKept(h) /\ ListOfAll(list) /\ p \in AllRecords /\ ClockOf[p] \in Clocks
  BY OfItsClock DEF MissInv, EdgeInv, OrderInv, ListInv, ListTyped
<1>2. AtHand(p)
  BY <1>1 DEF MissInv, NoneBehind
<1>3. Upcoming(list, p)
  BY <1>2 DEF AtHand
<1>4. Position(list, p) \in Ahead(list)
  BY <1>1, <1>3, UpcomingIsAhead
<1>5. EdgeAhead(p, h)
  BY <1>1, <1>2 DEF EdgesKept, EdgeNow
<1>6. HalfPeriod[ClockOf[p]] = h
  BY <1>1 DEF OneBeat
<1> QED
  BY <1>4, <1>5, <1>6 DEF EdgeAhead, AfterClock

\* No process misses an edge that it is sensitive to (Step8, ScheduleProcessImpl
\* and the flush functions), under the same assumptions, where there are software
\* processes and no events.
THEOREM NoEdgeIsMissed ==
  ASSUME SuspendableClocks = {}, Events = {}, Software # {}, NEW h, OneBeat(h)
  PROVE  SchedSpec => []NoEdgeMissed
<1>1. SchedInit /\ ListInv => MissInv(h)
  BY StartsOnTheBeat
<1>2. MissInv(h) /\ ListInv' /\ [SchedNext]_allVars => MissInv(h)'
  BY EdgeInvStep DEF MissInv
<1>3. MissInv(h) => NoEdgeMissed
  BY NoneMissed
<1> QED
  BY <1>1, <1>2, <1>3, ListInvariant, PTL DEF SchedSpec
===============================================================================
