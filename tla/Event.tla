-------------------------------- MODULE Event --------------------------------
(***************************************************************************)
(* src/Event.cc with Scheduler::FlushEventsSet.  Get registers the running *)
(* process, Set schedules the event, and the end of the delta cycle        *)
(* flushes the waiting processes of each event that was set.               *)
(***************************************************************************)
EXTENDS ProcessSync

VARIABLES
  waiting,      \* event -> mProcessesWaitingForEventList
  eventSetList  \* mEventSetList

eventVars == <<waiting, eventSetList>>

EventInit ==
  /\ waiting = [e \in Events |-> <<>>]
  /\ eventSetList = <<>>

EventSet(e) ==
  /\ Call
  /\ eventSetList' = IF Contains(eventSetList, e) THEN eventSetList
                                                  ELSE Append(eventSetList, e)
  /\ UNCHANGED <<blockVars, reasons, current, waited, loopVars, fault, waiting>>

EventGet(e) ==
  /\ Call
  /\ waiting' = [waiting EXCEPT ![e] = Append(@, current)]
  /\ UNCHANGED <<blockVars, reasons, current, waited, loopVars, fault, eventSetList>>

\* Event::Flush retries a process it may not wake for ever: one blocked on
\* something else, or one listed twice that its first entry has unblocked.
EventStuck(e) ==
  \E i \in DOMAIN waiting[e] :
    \/ ~ Reachable(waiting[e][i], WaitOn(e, "none"))
    \/ /\ sync[waiting[e][i]] = WaitOn(e, "none")
       /\ \E j \in 1..(i-1) : waiting[e][j] = waiting[e][i]

\* Every waiting process is removed and unblocked, but Flush returns only the
\* last one and the scheduler gives a reason to no other.
EventFlush(e) ==
  /\ phase = "Events" /\ fault = "none"
  /\ eventSetList # <<>> /\ e = Head(eventSetList)
  /\ waiting[e] # <<>>
  /\ IF EventStuck(e)
       THEN Abort("eventHang", <<sync, unblocked, reasons, eventVars, deltaEvents>>)
       ELSE /\ Unblock({<<p, WaitOn(e, "none")>> : p \in ToSet(waiting[e])})
            /\ SetReasons(WithReason(reasons, Last(waiting[e]), "Event", e))
            /\ waiting' = [waiting EXCEPT ![e] = <<>>]
            /\ eventSetList' = Tail(eventSetList)
            /\ deltaEvents' = TRUE
  /\ UNCHANGED <<toBlock, runVars, phase, flushing>>

EventKeptSet(e) ==  \* mutant: the event stays in the list
  /\ phase = "Events" /\ fault = "none"
  /\ eventSetList # <<>> /\ e = Head(eventSetList)
  /\ waiting[e] = <<>>
  /\ UNCHANGED <<baseVars, eventVars>>

EventFlushUnheard(e) ==
  /\ phase = "Events" /\ fault = "none"
  /\ eventSetList # <<>> /\ e = Head(eventSetList)
  /\ waiting[e] = <<>>
  /\ eventSetList' = Tail(eventSetList)
  /\ UNCHANGED <<blockVars, reasons, runVars, loopVars, fault, waiting>>

EventCall      == \E e \in Events : EventSet(e) \/ EventGet(e)
EventFlushNext == \E e \in Events : EventFlush(e) \/ EventFlushUnheard(e)
=============================================================================
