------------------------------ MODULE Scheduler ------------------------------
(***************************************************************************)
(* SyncKernel.tla driven by the process list of the scheduler: a list of   *)
(* records sorted by time, a cursor that runs them, and the relinking that *)
(* schedules a woken process, a started timer or the next clock edge       *)
(* (Scheduler::Start Step7 to Step8, ScheduleProcessImpl and               *)
(* ScheduleTheEntry).                                                      *)
(*                                                                         *)
(* Every action is an action of SyncKernel.tla, or leaves its variables    *)
(* alone, together with what it does to the list and the clocks: a         *)
(* behaviour of this module is one of SyncKernel.tla.                      *)
(***************************************************************************)
EXTENDS SyncKernel, Clock, ProcessList

CONSTANTS
  ClockOf,          \* synchronous process -> the clock of its interface
  SensitiveTo,      \* synchronous process -> mSensitiveType
  Durations,        \* timeouts clients pass to Timer::Start
  StoppableTimers,  \* the timers clients stop or restart
  SuspendableClocks,\* the clocks clients suspend and resume
  TimeMax           \* mSimulationTimeMax

Clocked    == Clocks \cup Synchronous  \* records run by Step8
AllRecords == Records \cup Clocks

ASSUME SchedulerAssumption ==
  /\ ClockOf \in [Synchronous -> Clocks]
  /\ SensitiveTo \in [Synchronous -> Sensitivities]
  /\ Durations \subseteq Nat
  /\ StoppableTimers \subseteq Timers
  /\ SuspendableClocks \subseteq Clocks
  /\ TimeMax \in Nat
  /\ Records # {} /\ IsFiniteSet(AllRecords)
  /\ Records \cap Clocks = {}

VARIABLES
  list,      \* mpProcessesView, see ProcessList.tla
  simTime,   \* record -> mpAttrSimTime
  now,       \* mSimulationTime
  timeout,   \* timer -> mTimeout
  advanced,  \* mIsFirstSyncProcessExecuted
  abort      \* the assert of the scheduler or the list that has failed

schedVars == <<list, simTime, now, timeout, advanced, abort, clock>>
allVars   == <<vars, schedVars>>

Aborts == {"none",
           "noProgress",     \* Step7a: time moves forward
           "unlinkCurrent",  \* List::Unlink: an iterator takes out the current link
           "noRecordAhead",  \* ScheduleTheEntry: rec_q of the current record
           "notLater"}       \* ScheduleProcessImpl: sched_sim_time > mSimulationTime

\* RegionGet.
Region(r) ==
  CASE r \in Clocks      -> 1
    [] r \in Synchronous -> IF SensitiveTo[r] \in {"PositiveLevel", "NegativeLevel"} THEN 3 ELSE 2
    [] r \in Timers      -> 4
    [] OTHER             -> 5

\* How far from now a record is scheduled whose time depends on a clock.
EdgeIncr(clocks, r) ==
  IF r \in Clocks
    THEN SimTimeIncrForNextClockEdge(clocks[r], r, "PositiveAndNegativeEdge")
    ELSE SimTimeIncrForNextClockEdge(clocks[ClockOf[r]], ClockOf[r], SensitiveTo[r])

\* The order of the list.  Only the entry of a clock or of a synchronous process
\* is compared by region: those of others carry a delta cycle after the 0 that
\* is kept in every record.  Before the start that delta cycle is not
\* initialised, and any order of records with the same time can result.
LaterNoRegion(times, q, r) == times[q] > times[r]  \* mutant
Later(times, q, r) ==
  \/ times[q] > times[r]
  \/ times[q] = times[r] /\ r \in Clocked /\ Region(q) > Region(r)

SchedInit ==
  /\ Init
  /\ ClockInit
  /\ simTime = [r \in AllRecords |-> IF r \in Clocked THEN EdgeIncr(clock, r) ELSE 0]
  /\ list \in {ListOf(o) : o \in {s \in SetToSeqs(AllRecords) :
                 \A i, j \in DOMAIN s : s[i] \in Clocked /\ Later(simTime, s[i], s[j]) => i > j}}
  /\ now = 0
  /\ timeout = [t \in Timers |-> 0]
  /\ advanced = FALSE
  /\ abort = IF \E r \in Clocked : simTime[r] = 0 THEN "notLater" ELSE "none"

-----------------------------------------------------------------------------
(* ScheduleTheEntry, on the list, the times and the assert of a state s.    *)

LaterAhead(s, r) == {i \in Ahead(s.list) : Later(s.times, s.list.order[i], r)}

\* An existing record, by an iterator.
Reschedule(s, r) ==
  LET later == LaterAhead(s, r)
  IN IF InPosition(s.list, later, r) THEN s
     ELSE IF s.list.cursor = r THEN [s EXCEPT !.abort = "unlinkCurrent"]
     ELSE [s EXCEPT !.list = Relink(@, later, r)]

\* The current record.
RescheduleCurrent(s, r) ==
  LET later == LaterAhead(s, r)
  IN IF Ahead(s.list) = {} THEN [s EXCEPT !.abort = "noRecordAhead"]
     ELSE IF InPosition(s.list, later, r) THEN s
     ELSE [s EXCEPT !.list = RelinkCurrent(@, later)]

\* Schedule an existing record at time t, unless an assert has failed before.
ScheduleAt(s, r, t) ==
  IF s.abort # "none" THEN s ELSE Reschedule([s EXCEPT !.times[r] = t], r)

Entries == [list |-> list, times |-> simTime, abort |-> abort]

Take(s) == list' = s.list /\ simTime' = s.times /\ abort' = s.abort

\* A woken process runs now, or at the next edge it is sensitive to.
WakeTime(p) == IF p \in Synchronous THEN now + EdgeIncr(clock, p) ELSE now

\* A flush function schedules what it woke, one or the two of a mailbox pair,
\* unless it has not survived waking it.
ScheduleWoken(ps) ==
  /\ IF fault' = "none"
       THEN LET first == ScheduleAt(Entries, ps[1], WakeTime(ps[1]))
            IN Take(IF Len(ps) = 1 THEN first ELSE ScheduleAt(first, ps[2], WakeTime(ps[2])))
       ELSE UNCHANGED <<list, simTime, abort>>
  /\ UNCHANGED <<now, timeout, advanced, clock>>

\* FlushSemaphorePuts passes mSimulationTime itself as the time to be advanced
\* to the next edge, which then cannot be later than mSimulationTime.
ScheduleWokenByPut(p) ==
  IF p \in Synchronous /\ fault' = "none"
    THEN abort' = "notLater" /\ UNCHANGED <<list, simTime, now, timeout, advanced, clock>>
    ELSE ScheduleWoken(<<p>>)

-----------------------------------------------------------------------------
(* The actions of SyncKernel.tla, with the list.                            *)

SemaphoresOnly == UNCHANGED <<mailboxVars, eventVars, timerVars>>
MailboxesOnly  == UNCHANGED <<semaphoreVars, eventVars, timerVars>>
EventsOnly     == UNCHANGED <<semaphoreVars, mailboxVars, timerVars>>
TimersOnly     == UNCHANGED <<semaphoreVars, mailboxVars, eventVars>>

MoveOn(l) == list' = l /\ UNCHANGED <<simTime, now, timeout, advanced, abort, clock>>

\* Step7: the record at the cursor is run if its time has come, and the cursor
\* then moves to the next one.
AtCursor(r) == list.past = "none" /\ list.cursor = r /\ simTime[r] <= now

RunRecord ==
  \/ /\ \E p \in Software : AtCursor(p) /\ Dispatch(p)
     /\ UNCHANGED <<agentVars, schedVars>>
  \/ /\ Return \/ \E r \in Records : AtCursor(r) /\ DispatchIdle(r)
     /\ UNCHANGED agentVars /\ MoveOn(RecordSearchNext(list))
  \/ /\ \E t \in Timers : AtCursor(t) /\ TimerExecute(t)
     /\ TimersOnly /\ MoveOn(RecordSearchNext(list))

ProcessCalls ==
  \/ NextReason /\ UNCHANGED <<agentVars, schedVars>>
  \/ (\E w \in ClientWaits : Wait(w)) /\ UNCHANGED <<agentVars, schedVars>>
  \/ SemaphoreCall /\ SemaphoresOnly /\ UNCHANGED schedVars
  \/ MailboxCall /\ MailboxesOnly /\ UNCHANGED schedVars
  \/ EventCall /\ EventsOnly /\ UNCHANGED schedVars
  \/ /\ \E t \in Timers :
          \/ TimerWatch(t) \/ TimerWait(t)
          \/ t \in StoppableTimers /\ TimerStop(t)
     /\ TimersOnly /\ UNCHANGED schedVars

\* A process suspends or resumes a clock.
ClockCalls ==
  /\ Running \/ OnClock
  /\ current # NoProcess /\ ~ waited
  /\ \E c \in SuspendableClocks : Suspend(c) \/ Resume(c)
  /\ UNCHANGED <<vars, list, simTime, now, timeout, advanced, abort>>

\* ScheduleTimer: the record of the timer moves to the end of its timeout.
StartTimer ==
  \E t \in Timers :
    /\ \/ \E w \in Processes \cup {NoProcess}, d \in Durations :
            TimerStart(t, w) /\ timeout' = [timeout EXCEPT ![t] = d]
       \/ t \in StoppableTimers /\ TimerRestart(t) /\ UNCHANGED timeout
    /\ TimersOnly
    /\ Take(ScheduleAt(Entries, t, now + timeout'[t]))
    /\ UNCHANGED <<now, advanced, clock>>

\* The records at this time are done: the cursor steps back before a record
\* that is later or waits for a clock, or there is no record.
StopRunning ==
  /\ RunEnds
  /\ \/ list.past # "none" /\ UNCHANGED schedVars
     \/ /\ list.past = "none"
        /\ list.cursor \in Clocked \/ simTime[list.cursor] > now
        /\ MoveOn(RecordSearchPrev(list))

\* A flush function wakes processes and schedules them.
WakeProcesses ==
  \/ \E s \in Semaphores :
       /\ \/ \E i \in DOMAIN getPending[s] :
               SemaphoreFlushGet(s, i) /\ ScheduleWoken(<<Getter(s, i)>>)
          \/ SemaphoreFlushPut(s) /\ ScheduleWokenByPut(Head(putPending[s]).proc)
       /\ SemaphoresOnly
  \/ \E m \in Mailboxes : \E i \in DOMAIN getters[m] :
       /\ MailboxTransfer(m, i) /\ MailboxesOnly
       /\ ScheduleWoken(<<Head(putters[m]), getters[m][i]>>)
  \/ \E e \in Events : EventFlush(e) /\ EventsOnly /\ ScheduleWoken(<<Last(waiting[e])>>)
  \/ \E t \in Timers : \E i \in DOMAIN watchers[t] :
       TimerFlush(t, i) /\ TimersOnly /\ ScheduleWoken(<<watchers[t][i]>>)

FlushOn ==
  /\ \/ (\E s \in Semaphores : SemaphoreFlushGetDone(s) \/ SemaphoreFlushPutDone(s)) /\ SemaphoresOnly
     \/ (\E m \in Mailboxes : MailboxNoPair(m)) /\ MailboxesOnly
     \/ (\E e \in Events : EventFlushUnheard(e)) /\ EventsOnly
     \/ (\E t \in Timers : TimerFlushDone(t)) /\ TimersOnly
     \/ TimersEnd \/ EventsEnd \/ SemGetsEnd \/ SemPutsEnd \/ MailboxesEnd
  /\ UNCHANGED schedVars

\* Another delta cycle continues with the record after the cursor.
EndDeltaCycle ==
  /\ FlushProcessesToBlock /\ UNCHANGED agentVars
  /\ MoveOn(IF deltaEvents THEN RecordSearchNext(list) ELSE list)

\* Step7a: time moves to the record after the cursor.  The simulation ends if
\* there is none or the limit is reached.
AdvanceTime ==
  LET next == RecordSearchNext(list)
      time == simTime[next.cursor]
  IN /\ Advance /\ UNCHANGED <<agentVars, simTime, timeout, clock>>
     /\ list' = next
     /\ IF next.past # "none"
          THEN phase' = "Finished" /\ UNCHANGED <<now, advanced, abort>>
          ELSE /\ now' = time
               /\ abort' = IF advanced /\ time <= now THEN "noProgress" ELSE "none"
               /\ phase' = IF time >= TimeMax THEN "Finished" ELSE "Step8"
               /\ advanced' = (advanced \/ time < TimeMax)

-----------------------------------------------------------------------------
(* Step8: clocks, then the synchronous processes that see the edge.         *)

DueOnEdge(r) ==
  /\ OnClock /\ current = NoProcess
  /\ list.past = "none" /\ list.cursor = r
  /\ r \in Clocked /\ simTime[r] = now

Idle(r) ==
  \/ clock[IF r \in Clocks THEN r ELSE ClockOf[r]].state # "Running"
  \/ r \in Synchronous /\ sync[r] # Free

\* StepB: the record that has run is scheduled for its next edge.
ToNextEdge(r, clocks) ==
  /\ Take(RescheduleCurrent([Entries EXCEPT !.times[r] = now + EdgeIncr(clocks, r)], r))
  /\ UNCHANGED <<now, timeout, advanced>>

ClockTicks ==
  /\ \E c \in Clocks : DueOnEdge(c) /\ ~ Idle(c) /\ Tick(c) /\ ToNextEdge(c, clock')
  /\ UNCHANGED vars

\* What is suspended or blocked stays behind, at the time that has passed.
PassOver ==
  /\ \E r \in Clocked : DueOnEdge(r) /\ Idle(r)
  /\ MoveOn(RecordSearchNext(list)) /\ UNCHANGED vars

RunSynchronous ==
  \/ /\ \E p \in Synchronous : DueOnEdge(p) /\ ~ Idle(p) /\ ExecuteOnEdge(p)
     /\ UNCHANGED <<agentVars, schedVars>>
  \/ ReturnOnEdge /\ ToNextEdge(current, clock) /\ UNCHANGED <<agentVars, clock>>

EdgeDone ==
  /\ EdgeEnds /\ ~ \E r \in Clocked : DueOnEdge(r)
  /\ UNCHANGED <<agentVars, schedVars>>

SchedNext ==
  /\ abort = "none"
  /\ \/ RunRecord \/ ProcessCalls \/ ClockCalls \/ StartTimer \/ StopRunning
     \/ WakeProcesses \/ FlushOn \/ EndDeltaCycle \/ AdvanceTime
     \/ ClockTicks \/ PassOver \/ RunSynchronous \/ EdgeDone

SchedSpec == SchedInit /\ [][SchedNext]_allVars

\* The simulator is one thread that executes its loop until the simulation ends.
FairSchedSpec == SchedSpec /\ WF_allVars(SchedNext)
=============================================================================
