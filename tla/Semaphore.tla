------------------------------ MODULE Semaphore ------------------------------
(***************************************************************************)
(* src/Semaphore.cc with the loops of Scheduler::FlushSemaphoreGets and    *)
(* FlushSemaphorePuts.  Get and Put only queue a request; keys change      *)
(* hands when the delta cycle ends, gets before puts.                      *)
(***************************************************************************)
EXTENDS ProcessSync

CONSTANTS
  TotalKeys,  \* semaphore -> mKeysTotal
  Policy      \* semaphore -> mPolicy

Policies == {"RoundRobinWithBlock", "RoundRobinWithNoBlock", "Random"}

ASSUME SemaphoreAssumption ==
  /\ TotalKeys \in [Semaphores -> Nat \ {0}]
  /\ Policy \in [Semaphores -> Policies]

VARIABLES
  keysRemaining,  \* semaphore -> mKeysRemaining
  getPending,     \* semaphore -> mSemInfoGetPending
  putPending,     \* semaphore -> mSemInfoPutPending
  held,           \* semaphore -> process -> keys in mSemInfoGetAllocated
  semGetList,     \* mSemaphoreGetList
  semPutList      \* mSemaphorePutList

semaphoreVars == <<keysRemaining, getPending, putPending, held, semGetList, semPutList>>

SemaphoreInfos == [proc : Processes, keys : Nat \ {0}]

SemaphoreInit ==
  /\ keysRemaining = TotalKeys
  /\ getPending = [s \in Semaphores |-> <<>>]
  /\ putPending = [s \in Semaphores |-> <<>>]
  /\ held = [s \in Semaphores |-> [p \in Processes |-> 0]]
  /\ semGetList = <<>>
  /\ semPutList = <<>>

\* ScheduleSemaphoreGet / ScheduleSemaphorePut: at most once in the list.
Scheduled(list, s) == IF Contains(list, s) THEN list ELSE Append(list, s)

\* Get asserts 0 < num_keys <= mKeysTotal.
SemaphoreGet(s, n) ==
  /\ Call
  /\ n \in 1..TotalKeys[s]
  /\ getPending' = [getPending EXCEPT ![s] = Append(@, [proc |-> current, keys |-> n])]
  /\ semGetList' = Scheduled(semGetList, s)
  /\ UNCHANGED <<blockVars, reasons, current, waited, loopVars, fault,
                 keysRemaining, putPending, held, semPutList>>

\* The client's side of Put: it gives back keys it holds, and has one Put
\* under way at a time.  Nothing in Put checks it, FlushPuts asserts it.
MayPut(s, n) ==
  /\ n \in 1..held[s][current]
  /\ \A i \in DOMAIN putPending[s] : putPending[s][i].proc # current

SemaphorePut(s, n) ==
  /\ Call
  /\ MayPut(s, n)
  /\ putPending' = [putPending EXCEPT ![s] = Append(@, [proc |-> current, keys |-> n])]
  /\ semPutList' = Scheduled(semPutList, s)
  /\ UNCHANGED <<blockVars, reasons, current, waited, loopVars, fault,
                 keysRemaining, getPending, held, semGetList>>

\* M_ListIterateAndDelete takes the link of s out of the list.
Unlinked(list, s) == {RemoveAt(list, i) : i \in {j \in DOMAIN list : list[j] = s}}

-----------------------------------------------------------------------------
(* FlushSemaphoreGets: visit each listed semaphore until it grants nothing. *)

EnoughInAll(s, i) == getPending[s][i].keys <= TotalKeys[s]  \* mutant
HeadGetter(s, i)  == Head(getPending[s]).proc               \* mutant

Enough(s, i)    == getPending[s][i].keys <= keysRemaining[s]
Getter(s, i)    == getPending[s][i].proc
Grantable(s, i) == Enough(s, i) /\ Reachable(Getter(s, i), WaitOn(s, "get"))

\* The entry FlushGets stops at.  The round-robin policies take the first
\* grantable one; with block, an earlier entry that lacks keys ends the search,
\* while one whose process is blocked elsewhere is passed over.  At random, the
\* search starts anywhere and then covers the whole list.
Picked(s, i) ==
  /\ i \in DOMAIN getPending[s] /\ Grantable(s, i)
  /\ Policy[s] # "Random" => \A j \in 1..(i-1) : ~ Grantable(s, j)
  /\ Policy[s] = "RoundRobinWithBlock" => \A j \in 1..(i-1) : Enough(s, j)

SemaphoreFlushGet(s, i) ==
  /\ Flushing("SemGets", s)
  /\ Picked(s, i)
  /\ LET keys == getPending[s][i].keys
     IN /\ keysRemaining' = [keysRemaining EXCEPT ![s] = @ - keys]
        /\ held' = [held EXCEPT ![s][Getter(s, i)] = @ + keys]
  /\ getPending' = [getPending EXCEPT ![s] = RemoveAt(@, i)]
  /\ Unblock({<<Getter(s, i), WaitOn(s, "get")>>})
  /\ SetReasons(WithReason(reasons, Getter(s, i), "SemaphoreGet", s))
  /\ deltaEvents' = TRUE
  /\ UNCHANGED <<toBlock, runVars, phase, flushing, putPending, semGetList, semPutList>>

\* A semaphore stays listed while it has requests.
UnlinkedAlways(s)  == Unlinked(semGetList, s)  \* mutant
GetListAfter(s)    == IF getPending[s] = <<>> THEN Unlinked(semGetList, s) ELSE {semGetList}

SemaphoreFlushGetDone(s) ==
  /\ Flushing("SemGets", s)
  /\ \A i \in DOMAIN getPending[s] : ~ Picked(s, i)
  /\ flushing' = Tail(flushing)
  /\ semGetList' \in GetListAfter(s)
  /\ UNCHANGED <<blockVars, reasons, runVars, phase, deltaEvents, fault,
                 keysRemaining, getPending, putPending, held, semPutList>>

-----------------------------------------------------------------------------
(* FlushSemaphorePuts: every queued Put returns its keys and wakes its      *)
(* process, blocked or not.  The keys are taken from the allocated entries  *)
(* of the process, which together hold held[s][proc].                       *)

PutsButLast(s) == Front(putPending[s])  \* mutant
PutsLeft(s)    == Tail(putPending[s])

SemaphoreFlushPut(s) ==
  /\ Flushing("SemPuts", s)
  /\ putPending[s] # <<>>
  /\ LET info == Head(putPending[s])
     IN IF info.keys > held[s][info.proc]
          THEN Abort("putWithoutGet", <<keysRemaining, held, putPending, reasons>>)
          ELSE /\ keysRemaining' = [keysRemaining EXCEPT ![s] = @ + info.keys]
               /\ held' = [held EXCEPT ![s][info.proc] = @ - info.keys]
               /\ putPending' = [putPending EXCEPT ![s] = PutsLeft(s)]
               /\ SetReasons(WithReason(reasons, info.proc, "SemaphorePut", s))
  /\ deltaEvents' = TRUE
  /\ UNCHANGED <<blockVars, runVars, phase, flushing, getPending, semGetList, semPutList>>

SemaphoreFlushPutDone(s) ==
  /\ Flushing("SemPuts", s)
  /\ putPending[s] = <<>>
  /\ flushing' = Tail(flushing)
  /\ semPutList' \in Unlinked(semPutList, s)
  /\ deltaEvents' = TRUE
  /\ UNCHANGED <<blockVars, reasons, runVars, phase, fault,
                 keysRemaining, getPending, putPending, held, semGetList>>

\* The calls a process makes, and the iterations of the two flush loops.
SemaphoreCall  == \E s \in Semaphores : \E n \in 1..TotalKeys[s] : SemaphoreGet(s, n) \/ SemaphorePut(s, n)
SemaphoreFlush == \E s \in Semaphores :
  \/ \E i \in DOMAIN getPending[s] : SemaphoreFlushGet(s, i)
  \/ SemaphoreFlushGetDone(s)
  \/ SemaphoreFlushPut(s)
  \/ SemaphoreFlushPutDone(s)
=============================================================================
