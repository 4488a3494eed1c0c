----------------------------- MODULE ProcessSync -----------------------------
(***************************************************************************)
(* How processes block on, and are woken by, the synchronisation agents    *)
(* (semaphores, mailboxes, events, timers), and the delta-cycle loop that  *)
(* runs them: src/Process.cc, src/SimulationUtilities.cc, and Step7 and    *)
(* Step8 of Scheduler::Start.                                              *)
(*                                                                         *)
(* The simulator is one thread, so a step is one API call of the running   *)
(* process or one iteration of a flush loop.  Which record runs next is    *)
(* left open here (Dispatch picks any, RunEnds may leave some behind):     *)
(* Scheduler.tla adds the process list that decides it.                    *)
(***************************************************************************)
EXTENDS Integers, SequencesExt

CONSTANTS
  Processes,    \* the processes clients write
  Synchronous,  \* those with an interface connected to a clock
  Timers, Semaphores, Mailboxes, Events,
  NoProcess,    \* the null Process pointer
  NoAgent,      \* the null synchronisation object
  MaxReasons,   \* capacity of a record's reason queue (sMaxReasons = 50)
  MaxCalls      \* bound: API calls made by all processes in one behaviour

ASSUME ProcessSyncAssumption ==
  /\ IsFiniteSet(Processes) /\ Synchronous \subseteq Processes
  /\ MaxReasons \in Nat \ {0}
  /\ MaxCalls \in Nat
  /\ NoProcess \notin Processes
  /\ NoAgent \notin Timers \cup Semaphores \cup Mailboxes \cup Events
  /\ Processes \cap Timers = {}

Software == Processes \ Synchronous
Records  == Processes \cup Timers  \* what has a record that agents look at
Agents  == Timers \cup Semaphores \cup Mailboxes \cup Events

SyncArgs == {"none", "get", "put"}
Waits    == [agent : Agents, arg : SyncArgs]
WaitOn(a, arg) == [agent |-> a, arg |-> arg]
Free     == WaitOn(NoAgent, "none")

\* What the overloads of Wait() accept.
ClientWaits ==
  {WaitOn(a, "none") : a \in Timers \cup Events}
    \cup {WaitOn(a, arg) : a \in Semaphores \cup Mailboxes, arg \in {"get", "put"}}

Phases == {"Run", "Timers", "Events", "SemGets", "SemPuts", "Mailboxes",
           "Block", "Advance", "Step8", "Finished"}

\* The asserts, null dereferences and endless loops that end a simulation.
Faults == {"none", "reasonsFull", "pendingAgent", "timerNotRunning",
           "timerNotCompleted", "eventHang", "putWithoutGet",
           "nullPutter", "uninitialisedFoundGet"}

VARIABLES
  sync,         \* record -> what it is blocked on (mpAttrSyncObj, mpAttrSyncArg)
  unblocked,    \* record -> mUnblockedInCurrentDeltaCycle
  reasons,      \* record -> queue of execute reasons (mpAttrExecReason)
  toBlock,      \* mProcessesToBlockList, each entry with its pending agent
  current,      \* mpProcessCurrent
  waited,       \* the running process has called Wait, its last statement
  calls,        \* API calls made so far
  phase,        \* where the loop of Step7 is
  flushing,     \* agents the running flush loop has still to visit
  deltaEvents,  \* delta_events > 0
  fault

blockVars == <<sync, unblocked, toBlock>>
runVars   == <<current, waited, calls>>
loopVars  == <<phase, flushing, deltaEvents>>
baseVars  == <<blockVars, reasons, runVars, loopVars, fault>>

ProcessSyncInit ==
  /\ sync = [r \in Records |-> Free]
  /\ unblocked = [r \in Records |-> FALSE]
  /\ reasons = [r \in Records |->
                  IF r \in Software THEN <<[why |-> "Initial", obj |-> NoAgent]>>
                                     ELSE <<>>]
  /\ toBlock = <<>>
  /\ current = NoProcess
  /\ waited = FALSE
  /\ calls = 0
  /\ phase = "Run"
  /\ flushing = <<>>
  /\ deltaEvents = FALSE
  /\ fault = "none"

-----------------------------------------------------------------------------
(* Blocked processes.                                                      *)

IsBlocked(r) == sync[r] # Free \/ unblocked[r]

\* ~ (ProcessIsBlocked(r) && ! ProcessUnblock(r, agent, arg)): an agent may
\* wake r when r waits for nothing, or exclusively for that agent.
ReachableForEitherSide(r, wait) == ~ IsBlocked(r) \/ sync[r].agent = wait.agent  \* mutant
Reachable(r, wait) == ~ IsBlocked(r) \/ sync[r] = wait

\* ProcessUnblock of every <<record, wait>> of woken.
Unblock(woken) ==
  /\ sync' = [r \in Records |-> IF <<r, sync[r]>> \in woken THEN Free ELSE sync[r]]
  /\ unblocked' = [r \in Records |-> unblocked[r] \/ <<r, sync[r]>> \in woken]

WithReason(queues, r, why, obj) ==
  [queues EXCEPT ![r] = Append(@, [why |-> why, obj |-> obj])]

\* Stack::Push asserts that the queue of reasons is not full.
SetReasons(queues) ==
  /\ reasons' = queues
  /\ fault' = IF \E r \in Records : Len(queues[r]) > MaxReasons
                THEN "reasonsFull" ELSE "none"

Abort(kind, vars) == fault' = kind /\ UNCHANGED vars

-----------------------------------------------------------------------------
(* Running a process.                                                      *)

\* Step7 runs software processes and timers, Step8 synchronous processes.
Running == phase = "Run" /\ fault = "none"
OnClock == phase = "Step8" /\ fault = "none"

\* The record at the cursor is run: its first reason is popped.
Dispatch(p) ==
  /\ Running /\ current = NoProcess
  /\ p \in Software /\ reasons[p] # <<>>
  /\ current' = p
  /\ waited' = FALSE
  /\ reasons' = [reasons EXCEPT ![p] = Tail(@)]
  /\ UNCHANGED <<blockVars, calls, loopVars, fault>>

\* ProcessExecute returned and another reason is queued.
NextReason ==
  /\ Running /\ current # NoProcess /\ reasons[current] # <<>>
  /\ waited' = FALSE
  /\ reasons' = [reasons EXCEPT ![current] = Tail(@)]
  /\ UNCHANGED <<blockVars, current, calls, loopVars, fault>>

ReturnUncleared ==  \* mutant: the unblocked mark is kept
  /\ Running /\ current # NoProcess /\ reasons[current] = <<>>
  /\ current' = NoProcess
  /\ waited' = FALSE
  /\ UNCHANGED <<blockVars, reasons, calls, loopVars, fault>>

Return ==
  /\ Running /\ current # NoProcess /\ reasons[current] = <<>>
  /\ unblocked' = [unblocked EXCEPT ![current] = FALSE]
  /\ current' = NoProcess
  /\ waited' = FALSE
  /\ UNCHANGED <<sync, toBlock, reasons, calls, loopVars, fault>>

\* A record without a reason is only marked as run.
DispatchIdle(r) ==
  /\ Running /\ current = NoProcess
  /\ r \in Records \ Synchronous /\ reasons[r] = <<>>
  /\ unblocked' = [unblocked EXCEPT ![r] = FALSE]
  /\ UNCHANGED <<sync, toBlock, reasons, runVars, loopVars, fault>>

\* A clock edge executes a synchronous process that is not blocked.  The
\* reason is the edge: those that agents have queued are never popped, and
\* the mark of having been unblocked is never cleared.
ExecuteOnEdge(p) ==
  /\ OnClock /\ current = NoProcess
  /\ p \in Synchronous /\ sync[p] = Free
  /\ current' = p
  /\ waited' = FALSE
  /\ UNCHANGED <<blockVars, reasons, calls, loopVars, fault>>

ReturnOnEdge ==
  /\ OnClock /\ current # NoProcess
  /\ current' = NoProcess
  /\ waited' = FALSE
  /\ UNCHANGED <<blockVars, reasons, calls, loopVars, fault>>

\* No synchronous process is left at this time: back to Step7.
EdgeEnds ==
  /\ OnClock /\ current = NoProcess
  /\ phase' = "Run"
  /\ UNCHANGED <<blockVars, reasons, runVars, flushing, deltaEvents, fault>>

\* The running process makes an API call; Wait is the last one it makes.
Call ==
  /\ Running \/ OnClock
  /\ current # NoProcess /\ ~ waited
  /\ calls < MaxCalls
  /\ calls' = calls + 1

\* Wait(agent, arg): the process is only marked, it blocks when the delta
\* cycle ends.
Wait(wait) ==
  /\ Call
  /\ waited' = TRUE
  /\ toBlock' = Append(toBlock, [proc |-> current, wait |-> wait])
  /\ UNCHANGED <<sync, unblocked, reasons, current, loopVars, fault>>

ProcessStep ==
  \/ (\E p \in Processes : Dispatch(p)) \/ (\E r \in Records : DispatchIdle(r))
  \/ NextReason \/ Return
  \/ (\E p \in Synchronous : ExecuteOnEdge(p)) \/ ReturnOnEdge \/ EdgeEnds
  \/ \E w \in ClientWaits : Wait(w)

-----------------------------------------------------------------------------
(* The end of a delta cycle.                                               *)

\* The flush loop of a phase is at agent a.
Flushing(ph, a) == phase = ph /\ fault = "none" /\ flushing # <<>> /\ a = Head(flushing)

\* FlushProcessesToBlock asserts that a process it blocks is not blocked yet;
\* a process listed twice trips over its own first entry.
BlockConflict ==
  \E i \in DOMAIN toBlock :
    \/ sync[toBlock[i].proc] # Free
    \/ \E j \in 1..(i-1) : toBlock[j].proc = toBlock[i].proc

FlushProcessesToBlock ==
  /\ phase = "Block" /\ fault = "none"
  /\ IF BlockConflict
       THEN Abort("pendingAgent", <<blockVars, reasons, runVars, loopVars>>)
       ELSE /\ sync' = [r \in Records |->
                 IF \E i \in DOMAIN toBlock : toBlock[i].proc = r
                   THEN toBlock[CHOOSE i \in DOMAIN toBlock : toBlock[i].proc = r].wait
                   ELSE sync[r]]
            /\ toBlock' = <<>>
            /\ phase' = IF deltaEvents THEN "Run" ELSE "Advance"
            /\ deltaEvents' = FALSE
            /\ UNCHANGED <<unblocked, reasons, runVars, flushing, fault>>

\* Step7a: the time of the next record becomes the simulation time, or there
\* is none (or the time limit is reached) and the simulation ends.
Advance ==
  /\ phase = "Advance" /\ fault = "none"
  /\ phase' \in {"Step8", "Finished"}
  /\ UNCHANGED <<blockVars, reasons, runVars, flushing, deltaEvents, fault>>
=============================================================================
