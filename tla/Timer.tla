-------------------------------- MODULE Timer --------------------------------
(***************************************************************************)
(* src/Timer.cc with Scheduler::ScheduleTimer, TimerDone and FlushTimers.  *)
(* A timer is itself a record of the process list: Start queues a reason   *)
(* on that record, running it completes the timer, and the end of the      *)
(* delta cycle wakes the processes that watch it.  How long a timer takes  *)
(* is left open here.                                                      *)
(***************************************************************************)
EXTENDS ProcessSync

TimerStates == {"NotYetStarted", "Running", "Completed"}

VARIABLES
  timerState,      \* timer -> mProcessState
  timerScheduled,  \* timer -> mTimerScheduled
  watchers,        \* timer -> mProcessList
  timerDoneList    \* mTimerList

timerVars == <<timerState, timerScheduled, watchers, timerDoneList>>

TimerInit ==
  /\ timerState = [t \in Timers |-> "NotYetStarted"]
  /\ timerScheduled = [t \in Timers |-> FALSE]
  /\ watchers = [t \in Timers |-> <<>>]
  /\ timerDoneList = <<>>

\* A timer is started with a watcher or with none.
WatchedByAny(t, w) == Append(watchers[t], w)  \* mutant
WatchedBy(t, w)    == IF w = NoProcess THEN watchers[t] ELSE Append(watchers[t], w)

TimerStartUnscheduled(t, watcher) ==  \* mutant: no reason is queued on the record
  /\ Call
  /\ ~ timerScheduled[t]
  /\ watchers' = [watchers EXCEPT ![t] = WatchedBy(t, watcher)]
  /\ timerState' = [timerState EXCEPT ![t] = "Running"]
  /\ timerScheduled' = [timerScheduled EXCEPT ![t] = TRUE]
  /\ UNCHANGED <<blockVars, reasons, current, waited, loopVars, fault, timerDoneList>>

\* Start(timeout, scale, process): a client that honours the assert starts only
\* a timer that is not scheduled.  watcher is the optional process.
TimerStart(t, watcher) ==
  /\ Call
  /\ ~ timerScheduled[t]
  /\ watchers' = [watchers EXCEPT ![t] = WatchedBy(t, watcher)]
  /\ SetReasons(WithReason(reasons, t, "TimerDone", t))
  /\ timerState' = [timerState EXCEPT ![t] = "Running"]
  /\ timerScheduled' = [timerScheduled EXCEPT ![t] = TRUE]
  /\ UNCHANGED <<blockVars, current, waited, loopVars, timerDoneList>>

\* Stop asserts that nobody watches.  It blocks the timer on itself and leaves
\* its record and its reason where they are.
TimerStop(t) ==
  /\ Call
  /\ watchers[t] = <<>>
  /\ toBlock' = Append(toBlock, [proc |-> t, wait |-> WaitOn(t, "none")])
  /\ timerScheduled' = [timerScheduled EXCEPT ![t] = FALSE]
  /\ UNCHANGED <<sync, unblocked, reasons, current, waited, loopVars, fault,
                 timerState, watchers, timerDoneList>>

\* Restart is Stop and then Start with the timeout of before.
TimerRestart(t) ==
  /\ Call
  /\ watchers[t] = <<>>
  /\ toBlock' = Append(toBlock, [proc |-> t, wait |-> WaitOn(t, "none")])
  /\ SetReasons(WithReason(reasons, t, "TimerDone", t))
  /\ timerState' = [timerState EXCEPT ![t] = "Running"]
  /\ timerScheduled' = [timerScheduled EXCEPT ![t] = TRUE]
  /\ UNCHANGED <<sync, unblocked, current, waited, loopVars, watchers, timerDoneList>>

\* ProcessAdd: watch the timer without blocking on it.
TimerWatch(t) ==
  /\ Call
  /\ watchers' = [watchers EXCEPT ![t] = Append(@, current)]
  /\ UNCHANGED <<blockVars, reasons, current, waited, loopVars, fault,
                 timerState, timerScheduled, timerDoneList>>

\* Process::Wait(Timer*): watch the timer and block on it.
TimerWait(t) ==
  /\ Call
  /\ watchers' = [watchers EXCEPT ![t] = Append(@, current)]
  /\ waited' = TRUE
  /\ toBlock' = Append(toBlock, [proc |-> current, wait |-> WaitOn(t, "none")])
  /\ UNCHANGED <<sync, unblocked, reasons, current, loopVars, fault,
                 timerState, timerScheduled, timerDoneList>>

\* The record of the timer is run: ProcessExecute once for each reason, and it
\* asserts that the timer is running.
TimerExecute(t) ==
  /\ Running /\ current = NoProcess
  /\ reasons[t] # <<>>
  /\ IF timerState[t] = "Running" /\ Len(reasons[t]) = 1
       THEN /\ timerState' = [timerState EXCEPT ![t] = "Completed"]
            /\ timerScheduled' = [timerScheduled EXCEPT ![t] = FALSE]
            /\ timerDoneList' = Append(timerDoneList, t)
            /\ reasons' = [reasons EXCEPT ![t] = <<>>]
            /\ unblocked' = [unblocked EXCEPT ![t] = FALSE]
            /\ UNCHANGED <<fault, watchers>>
       ELSE Abort("timerNotRunning", <<timerVars, reasons, unblocked>>)
  /\ UNCHANGED <<sync, toBlock, runVars, loopVars>>

-----------------------------------------------------------------------------
(* FlushTimers.                                                            *)

AtTimer(t) == phase = "Timers" /\ fault = "none" /\ timerDoneList # <<>> /\ t = Head(timerDoneList)

TimerFlushUncounted(t, i) ==  \* mutant: no other delta cycle is asked for
  /\ AtTimer(t) /\ timerState[t] = "Completed"
  /\ i \in DOMAIN watchers[t]
  /\ Reachable(watchers[t][i], WaitOn(t, "none"))
  /\ \A j \in 1..(i-1) : ~ Reachable(watchers[t][j], WaitOn(t, "none"))
  /\ Unblock({<<watchers[t][i], WaitOn(t, "none")>>})
  /\ SetReasons(WithReason(reasons, watchers[t][i], "TimerDone", t))
  /\ watchers' = [watchers EXCEPT ![t] = SubSeq(@, i + 1, Len(@))]
  /\ UNCHANGED <<toBlock, runVars, loopVars, timerState, timerScheduled, timerDoneList>>

\* FlushTimer asserts that the timer is completed.  It returns the first
\* watcher it may wake; those before it are dropped, a timer fires only once.
TimerFlush(t, i) ==
  /\ AtTimer(t) /\ timerState[t] = "Completed"
  /\ i \in DOMAIN watchers[t]
  /\ Reachable(watchers[t][i], WaitOn(t, "none"))
  /\ \A j \in 1..(i-1) : ~ Reachable(watchers[t][j], WaitOn(t, "none"))
  /\ Unblock({<<watchers[t][i], WaitOn(t, "none")>>})
  /\ SetReasons(WithReason(reasons, watchers[t][i], "TimerDone", t))
  /\ watchers' = [watchers EXCEPT ![t] = SubSeq(@, i + 1, Len(@))]
  /\ deltaEvents' = TRUE
  /\ UNCHANGED <<toBlock, runVars, phase, flushing, timerState, timerScheduled, timerDoneList>>

TimerFlushDone(t) ==
  /\ AtTimer(t)
  /\ IF timerState[t] # "Completed"
       THEN Abort("timerNotCompleted", timerVars)
       ELSE /\ \A i \in DOMAIN watchers[t] : ~ Reachable(watchers[t][i], WaitOn(t, "none"))
            /\ watchers' = [watchers EXCEPT ![t] = <<>>]
            /\ timerDoneList' = Tail(timerDoneList)
            /\ UNCHANGED <<timerState, timerScheduled, fault>>
  /\ UNCHANGED <<blockVars, reasons, runVars, loopVars>>

TimerCall == \E t \in Timers :
  \/ \E w \in Processes \cup {NoProcess} : TimerStart(t, w)
  \/ TimerStop(t) \/ TimerRestart(t) \/ TimerWatch(t) \/ TimerWait(t)
TimerFlushNext == \E t \in Timers :
  TimerFlushDone(t) \/ \E i \in DOMAIN watchers[t] : TimerFlush(t, i)
=============================================================================
