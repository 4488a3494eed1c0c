------------------------- MODULE SchedulerProperties -------------------------
(* What the process list guarantees, and what it is said to guarantee.      *)
EXTENDS Scheduler, SyncProperties

\* The list holds every record once, and the cursor stays on one of them.
SchedTypeOK ==
  /\ TypeOK
  /\ list.order \in SetToSeqs(AllRecords)
  /\ list.cursor \in AllRecords
  /\ list.past \in {"none", "prev", "next"}
  /\ simTime \in [AllRecords -> Nat]
  /\ now \in Nat
  /\ timeout \in [Timers -> Durations \cup {0}]
  /\ advanced \in BOOLEAN
  /\ abort \in Aborts
  /\ clock \in [Clocks -> ClockStates]

\* Time moves forward only: the assert on forward progress in Step7a never
\* fails, although woken processes and expired timers stay behind the cursor
\* with times that have passed.
ForwardProgress == abort # "noProgress"

\* What lies ahead of the cursor is sorted by time and not in the past, so the
\* next record is the next to run.
AheadInOrder ==
  \A i, j \in Ahead(list) :
    /\ simTime[list.order[i]] >= now
    /\ i < j => simTime[list.order[i]] <= simTime[list.order[j]]

\* While processes run, the record that runs is the one at the cursor, also
\* when it starts timers and the list is relinked around it.
RunsAtCursor ==
  current # NoProcess => list.cursor = current /\ list.past = "none"

\* Timer::FlushTimer finds its timer completed: an expired timer runs after
\* every process of that time that could restart it, also with no timeout.
FlushedTimerCompleted == fault # "timerNotCompleted"

\* The asserts of the scheduler on the order of time and of timers hold.
OrderAsserted == ForwardProgress /\ FlushedTimerCompleted

\* The loops of Step7 terminate: with finitely many API calls the simulation
\* finishes or aborts.
SimulationEnds == <>(phase = "Finished" \/ fault # "none" \/ abort # "none")

-----------------------------------------------------------------------------
(* Clocks and synchronous processes.                                       *)

SeesEdge(p, rises) ==
  SensitiveTo[p] \in (IF rises THEN Rising ELSE Falling) \cup {"PositiveAndNegativeEdge"}

\* A synchronous process of a clock that nobody suspends runs at an edge it is
\* sensitive to, and after its clock: the clock has just moved on to its next
\* edge, and its bit, which the process reads, and its edge, which is the reason
\* the process is given, are those of the edge.
OnItsEdge ==
  current \in Synchronous /\ ~ clock[ClockOf[current]].suspend =>
    LET c == ClockOf[current]
    IN /\ simTime[c] = now + HalfPeriod[c]
       /\ SeesEdge(current, clock[c].bit = 1)
       /\ clock[c].edge = IF clock[c].bit = 1 THEN "PositiveEdge" ELSE "NegativeEdge"

\* No edge of a clock that nobody suspends is missed: when the processes of a
\* time are done, each synchronous process that is not blocked, woken in this
\* time step or not, is ahead of the cursor at the next edge of its clock that
\* it is sensitive to.
NoEdgeMissed ==
  phase = "Advance" =>
    \A p \in Synchronous :
      LET c == ClockOf[p]
      IN sync[p] = Free /\ ~ clock[c].suspend =>
           /\ Position(list, p) \in Ahead(list)
           /\ simTime[p] = simTime[c] + IF SeesEdge(p, clock[c].bit = 0) THEN 0 ELSE HalfPeriod[c]

-----------------------------------------------------------------------------
(* What comments, asserts and notes say of the scheduler.                   *)

\* Step7: processes are invoked and the agents flushed until nothing is left
\* to do at this time; so time does not advance past a process with a reason.
NoWakeupLost ==
  phase \in {"Advance", "Finished"} => \A p \in Software : reasons[p] = <<>>
=============================================================================
