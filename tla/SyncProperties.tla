--------------------------- MODULE SyncProperties ---------------------------
(***************************************************************************)
(* What the delta cycle of SyncKernel.tla guarantees, whatever record the  *)
(* scheduler chooses to run next.                                          *)
(***************************************************************************)
EXTENDS SyncKernel

Reasons == [why : {"Initial", "SemaphoreGet", "SemaphorePut", "MailboxGet",
                   "MailboxPut", "Event", "TimerDone"},
            obj : Agents \cup Elements \cup {NoAgent}]

SyncTypeOK ==
  /\ sync \in [Records -> Waits \cup {Free}]
  /\ unblocked \in [Records -> BOOLEAN]
  /\ reasons \in [Records -> Seq(Reasons)]
  /\ toBlock \in Seq([proc : Records, wait : Waits])
  /\ current \in Processes \cup {NoProcess}
  /\ waited \in BOOLEAN
  /\ calls \in Nat
  /\ phase \in Phases
  /\ flushing \in Seq(Semaphores \cup Mailboxes)
  /\ deltaEvents \in BOOLEAN
  /\ fault \in Faults

SemaphoreTypeOK ==
  /\ keysRemaining \in [Semaphores -> Int]
  /\ getPending \in [Semaphores -> Seq(SemaphoreInfos)]
  /\ putPending \in [Semaphores -> Seq(SemaphoreInfos)]
  /\ held \in [Semaphores -> [Processes -> Int]]
  /\ semGetList \in Seq(Semaphores)
  /\ semPutList \in Seq(Semaphores)

MailboxTypeOK ==
  /\ putters \in [Mailboxes -> Seq(Processes)]
  /\ elms \in [Mailboxes -> Seq(Elements)]
  /\ getters \in [Mailboxes -> Seq(Processes)]
  /\ mailboxEvaluate \in BOOLEAN
  /\ sent \in [Mailboxes -> Seq(Processes \X Elements)]
  /\ delivered \in [Mailboxes -> Seq(Processes \X Elements)]

EventTypeOK ==
  /\ waiting \in [Events -> Seq(Processes)]
  /\ eventSetList \in Seq(Events)

TimerTypeOK ==
  /\ timerState \in [Timers -> TimerStates]
  /\ timerScheduled \in [Timers -> BOOLEAN]
  /\ watchers \in [Timers -> Seq(Processes)]
  /\ timerDoneList \in Seq(Timers)

\* Every variable keeps the type the code gives it.
TypeOK == SyncTypeOK /\ SemaphoreTypeOK /\ MailboxTypeOK /\ EventTypeOK /\ TimerTypeOK

-----------------------------------------------------------------------------
(* Semaphores.                                                             *)

\* Every semaphore is a key pool: across queued requests, grants in any policy
\* and returns at the end of later delta cycles, the keys handed out never
\* exceed mKeysTotal (Semaphore::FlushGets and FlushPuts).
Pool == INSTANCE KeyPool WITH Clients <- Processes, Pools <- Semaphores,
          Capacity <- TotalKeys, asked <- getPending, owned <- held
KeyPoolSpec == Pool!Spec

\* A semaphore with one key is a lock: while a process holds the key no other
\* does and none remains, else the one key remains.
BinaryMutex ==
  \A s \in Semaphores : TotalKeys[s] = 1 =>
    \/ /\ keysRemaining[s] = 1
       /\ \A p \in Processes : held[s][p] = 0
    \/ /\ keysRemaining[s] = 0
       /\ \E p \in Processes :
            /\ held[s][p] = 1
            /\ \A q \in Processes \ {p} : held[s][q] = 0

\* A Put accepted while its process ran is still covered by allocated keys
\* when FlushPuts takes it, gets granted in between notwithstanding: the
\* asserts on found and keys_to_put hold for clients that return what they got.
PutsCovered ==
  /\ fault # "putWithoutGet"
  /\ \A s \in Semaphores : \A i \in DOMAIN putPending[s] :
       putPending[s][i].keys <= held[s][putPending[s][i].proc]

\* No request is stranded: when the delta cycles of a time step have come to
\* rest, no semaphore has a request it could grant (the puts are flushed after
\* the gets, so this needs another delta cycle after each put), and no put is
\* left in its queue.
NoStrandedRequest ==
  phase \in {"Advance", "Finished"} =>
    \A s \in Semaphores :
      /\ putPending[s] = <<>>
      /\ \A i \in DOMAIN getPending[s] : ~ Picked(s, i)

-----------------------------------------------------------------------------
(* Mailboxes.                                                              *)

\* The entries of a mailbox, from its list of putters and its list of elements.
Paired(ps, es) == [i \in DOMAIN ps |-> <<ps[i], es[i]>>]

\* Exactly once, in order, and never split: what was put is what was handed
\* over followed by what still waits, and the waiting putters and elements,
\* which the code keeps in two lists, belong together entry by entry.
MailboxFIFO ==
  \A m \in Mailboxes :
    /\ Len(putters[m]) = Len(elms[m])
    /\ Len(putters[m]) <= MailboxMax[m]
    /\ sent[m] = delivered[m] \o Paired(putters[m], elms[m])

-----------------------------------------------------------------------------
(* Blocking.                                                               *)

Woken(p) == Len(reasons'[p]) > Len(reasons[p])

\* Exclusive wait: a blocked process is woken only by the agent, and the side
\* of it, that it waits for, and is unblocked by that step.  Semaphore puts
\* are the exception: FlushSemaphorePuts wakes the process without asking.
ExclusiveWait ==
  [][\A p \in Processes :
       Woken(p) /\ IsBlocked(p) /\ phase # "SemPuts" =>
         LET why == Last(reasons'[p]).why
             obj == Last(reasons'[p]).obj
         IN /\ sync'[p] = Free /\ unblocked'[p]
            /\ \/ why = "SemaphoreGet" /\ sync[p] = WaitOn(obj, "get")
               \/ why = "MailboxPut" /\ sync[p] = WaitOn(obj, "put")
               \/ why = "MailboxGet" /\ sync[p] \in {WaitOn(m, "get") : m \in Mailboxes}
               \/ why \in {"Event", "TimerDone"} /\ sync[p] = WaitOn(obj, "none")
    ]_vars

\* A process that an agent has unblocked, and that no other agent may wake
\* until it has run, has a reason to run.
UnblockedWillRun ==
  fault = "none" => \A p \in Software : unblocked[p] => p = current \/ reasons[p] # <<>>

\* A timer that counts as scheduled is running and its record has a reason
\* queued, so it can still fire.
ScheduledTimerFires ==
  \A t \in Timers : timerScheduled[t] => timerState[t] = "Running" /\ reasons[t] # <<>>

\* Who listens to an event as Event::Flush needs it: listed once, waiting for
\* nothing or for that event, and not marked as unblocked before.
ListenersWait ==
  \A e \in Events :
    /\ IsInjective(waiting[e])
    /\ \A p \in ToSet(waiting[e]) :
         /\ sync[p] \in {Free, WaitOn(e, "none")}
         /\ p \in Synchronous => ~ unblocked[p]

\* Every delta cycle ends: while the listeners of events are as Flush needs
\* them, processes run again, or the simulation is over or stopped by an
\* assert, once the flush functions are entered.  No flush loop goes on for
\* ever: a step that hangs (eventHang) is no end.
DeltaCycleEnds ==
  []ListenersWait =>
    ((phase = "Timers") ~> (\/ phase \in {"Run", "Step8", "Finished"}
                            \/ fault \notin {"none", "eventHang"}))
=============================================================================
