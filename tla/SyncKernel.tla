------------------------------ MODULE SyncKernel ------------------------------
(***************************************************************************)
(* The delta cycle of the scheduler with all its synchronisation agents:   *)
(* the inner loop of Step7 in Scheduler::Start (run, flush timers, events, *)
(* semaphore gets, semaphore puts, mailboxes, then block), and Step8, which *)
(* runs the synchronous processes of a clock edge.                         *)
(***************************************************************************)
EXTENDS Semaphore, Mailbox, Event, Timer

vars == <<baseVars, semaphoreVars, mailboxVars, eventVars, timerVars>>
agentVars == <<semaphoreVars, mailboxVars, eventVars, timerVars>>

Init ==
  /\ ProcessSyncInit
  /\ SemaphoreInit
  /\ MailboxInit
  /\ EventInit
  /\ TimerInit

-----------------------------------------------------------------------------
(* The loop of Step7: from one flush function to the next.                  *)

Enter(from, to, visit) ==
  /\ phase = from /\ fault = "none"
  /\ phase' = to
  /\ flushing' = visit
  /\ UNCHANGED <<blockVars, reasons, runVars, deltaEvents, fault,
                 semaphoreVars, eventVars, timerVars>>

RunEnds ==
  current = NoProcess /\ Enter("Run", "Timers", <<>>) /\ UNCHANGED mailboxVars
TimersEnd ==
  timerDoneList = <<>> /\ Enter("Timers", "Events", <<>>) /\ UNCHANGED mailboxVars
EventsEnd ==
  eventSetList = <<>> /\ Enter("Events", "SemGets", semGetList) /\ UNCHANGED mailboxVars
SemGetsEnd ==
  flushing = <<>> /\ Enter("SemGets", "SemPuts", semPutList) /\ UNCHANGED mailboxVars
SemPutsEnd ==
  /\ flushing = <<>>
  /\ Enter("SemPuts", "Mailboxes", IF mailboxEvaluate THEN MailboxOrder ELSE <<>>)
  /\ UNCHANGED mailboxVars
MailboxesEnd ==
  /\ flushing = <<>> /\ Enter("Mailboxes", "Block", <<>>)
  /\ mailboxEvaluate' = FALSE
  /\ UNCHANGED <<putters, elms, getters, sent, delivered>>

\* What the running process does, and what runs next.
RunStep ==
  \/ ProcessStep /\ UNCHANGED agentVars
  \/ SemaphoreCall /\ UNCHANGED <<mailboxVars, eventVars, timerVars>>
  \/ MailboxCall /\ UNCHANGED <<semaphoreVars, eventVars, timerVars>>
  \/ EventCall /\ UNCHANGED <<semaphoreVars, mailboxVars, timerVars>>
  \/ (TimerCall \/ \E t \in Timers : TimerExecute(t))
       /\ UNCHANGED <<semaphoreVars, mailboxVars, eventVars>>

\* What the scheduler does once no process is left to run in the delta cycle.
FlushStep ==
  \/ TimerFlushNext /\ UNCHANGED <<semaphoreVars, mailboxVars, eventVars>>
  \/ EventFlushNext /\ UNCHANGED <<semaphoreVars, mailboxVars, timerVars>>
  \/ SemaphoreFlush /\ UNCHANGED <<mailboxVars, eventVars, timerVars>>
  \/ MailboxFlush /\ UNCHANGED <<semaphoreVars, eventVars, timerVars>>
  \/ FlushProcessesToBlock /\ UNCHANGED agentVars
  \/ TimersEnd \/ EventsEnd \/ SemGetsEnd \/ SemPutsEnd \/ MailboxesEnd
  \/ Advance /\ UNCHANGED agentVars

Next == RunStep \/ RunEnds \/ FlushStep

Spec == Init /\ [][Next]_vars

\* One thread executes the loop, so it never stops between two flushes.
FairSpec == Spec /\ WF_vars(FlushStep)
=============================================================================
