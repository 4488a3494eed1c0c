----------------------------- MODULE KernelProofs -----------------------------
(***************************************************************************)
(* The delta cycle, SyncKernel.tla, for any processes, agents and bounds:  *)
(* every variable keeps its type; and who may wake whom, what it takes to  *)
(* run, and what a mailbox hands over: ScheduledTimerFires, ExclusiveWait, *)
(* MailboxFIFO and, without events, UnblockedWillRun hold in every         *)
(* execution of Spec.  Keys are neither lost nor lent twice, and no        *)
(* request for them is stranded: BinaryMutex, PutsCovered and              *)
(* NoStrandedRequest hold, and Spec implements KeyPool.tla.                *)
(***************************************************************************)
EXTENDS SyncProperties, DataLemmas

-----------------------------------------------------------------------------
(* Types.  One lemma for each group of operations of the code.             *)

\* The queue that a flush function pushes a reason on grows at its end.
LEMMA WithReasonTyped ==
  ASSUME NEW queues \in [Records -> Seq(Reasons)], NEW r \in Records,
         NEW why, NEW obj, [why |-> why, obj |-> obj] \in Reasons
  PROVE  WithReason(queues, r, why, obj) \in [Records -> Seq(Reasons)]
BY AppendProperties DEF WithReason

\* Unblocking leaves a record free, whatever it waited for.
LEMMA UnblockTyped ==
  ASSUME SyncTypeOK, NEW woken, Unblock(woken)
  PROVE  /\ sync' \in [Records -> Waits \cup {Free}]
         /\ unblocked' \in [Records -> BOOLEAN]
BY DEF SyncTypeOK, Unblock

LEMMA SetReasonsTyped ==
  ASSUME NEW queues \in [Records -> Seq(Reasons)], SetReasons(queues)
  PROVE  /\ reasons' \in [Records -> Seq(Reasons)]
         /\ fault' \in Faults
BY DEF SetReasons, Faults

\* Wait, and Stop of a timer, list a record and what it is to wait for.
LEMMA ToBlockTyped ==
  ASSUME SyncTypeOK, NEW r \in Records, NEW wait \in Waits,
         toBlock' = Append(toBlock, [proc |-> r, wait |-> wait])
  PROVE  toBlock' \in Seq([proc : Records, wait : Waits])
BY AppendProperties DEF SyncTypeOK

\* The API calls are made by a process.
LEMMA CallTyped ==
  ASSUME SyncTypeOK, Call
  PROVE  current \in Processes /\ calls' \in Nat
BY DEF SyncTypeOK, Call

-----------------------------------------------------------------------------
(* Running processes, blocking them, and the loop of Step7.                 *)

LEMMA ProcessSyncTyped ==
  ASSUME SyncTypeOK, ProcessStep \/ FlushProcessesToBlock \/ Advance
  PROVE  SyncTypeOK'
<1>1. ASSUME NEW p \in Processes, Dispatch(p)
      PROVE  SyncTypeOK'
  <2>1. reasons' \in [Records -> Seq(Reasons)]
    BY <1>1, HeadTailProperties DEF SyncTypeOK, Dispatch, Records, Software
  <2> QED
    BY <1>1, <2>1 DEF SyncTypeOK, Dispatch, Running, blockVars, loopVars
<1>2. ASSUME NEW r \in Records, DispatchIdle(r)
      PROVE  SyncTypeOK'
  BY <1>2 DEF SyncTypeOK, DispatchIdle, runVars, loopVars
<1>3. CASE NextReason
  <2>1. reasons' \in [Records -> Seq(Reasons)]
    BY <1>3, HeadTailProperties DEF SyncTypeOK, NextReason, Records
  <2> QED
    BY <1>3, <2>1 DEF SyncTypeOK, NextReason, Running, blockVars, loopVars
<1>4. CASE Return
  BY <1>4 DEF SyncTypeOK, Return, Running, loopVars
<1>5. ASSUME NEW w \in ClientWaits, Wait(w)
      PROVE  SyncTypeOK'
  <2>1. w \in Waits
    BY DEF ClientWaits, Waits, WaitOn, SyncArgs, Agents
  <2>2. current \in Processes /\ calls' \in Nat
    BY <1>5, CallTyped DEF Wait
  <2>3. toBlock' \in Seq([proc : Records, wait : Waits])
    BY <1>5, <2>1, <2>2, ToBlockTyped DEF Wait, Records
  <2> QED
    BY <1>5, <2>2, <2>3 DEF SyncTypeOK, Wait, loopVars
<1>6. CASE FlushProcessesToBlock
  <2>1. CASE BlockConflict
    BY <1>6, <2>1 DEF SyncTypeOK, FlushProcessesToBlock, Abort, blockVars, runVars,
       loopVars, Faults
  <2>2. CASE ~ BlockConflict
    <3> DEFINE entries == [proc : Records, wait : Waits]
    <3>0. toBlock \in Seq(entries)
      BY DEF SyncTypeOK
    <3>1. \A i \in DOMAIN toBlock : toBlock[i].wait \in Waits
      <4> HIDE DEF entries
      <4>1. \A i \in DOMAIN toBlock : toBlock[i] \in entries
        BY <3>0, LenProperties
      <4> QED
        BY <4>1 DEF entries
    <3>2. sync' \in [Records -> Waits \cup {Free}]
      BY <1>6, <2>2, <3>1 DEF SyncTypeOK, FlushProcessesToBlock
    <3>3. toBlock' = <<>> /\ <<>> \in Seq(entries)
      BY <1>6, <2>2, EmptySeq DEF FlushProcessesToBlock
    <3>4. phase' \in Phases /\ deltaEvents' \in BOOLEAN
      BY <1>6, <2>2 DEF FlushProcessesToBlock, Phases
    <3> QED
      BY <1>6, <2>2, <3>2, <3>3, <3>4 DEF SyncTypeOK, FlushProcessesToBlock, runVars
  <2> QED
    BY <2>1, <2>2
<1>7. CASE Advance
  BY <1>7 DEF SyncTypeOK, Advance, blockVars, runVars, Phases
<1>8. ASSUME NEW p \in Synchronous, ExecuteOnEdge(p)
      PROVE  SyncTypeOK'
  BY <1>8, ProcessSyncAssumption DEF SyncTypeOK, ExecuteOnEdge, blockVars, loopVars
<1>9. CASE ReturnOnEdge
  BY <1>9 DEF SyncTypeOK, ReturnOnEdge, blockVars, loopVars
<1>10. CASE EdgeEnds
  BY <1>10 DEF SyncTypeOK, EdgeEnds, blockVars, runVars, Phases
<1> QED
  BY <1>1, <1>2, <1>3, <1>4, <1>5, <1>6, <1>7, <1>8, <1>9, <1>10 DEF ProcessStep

-----------------------------------------------------------------------------
(* Semaphores.                                                             *)

\* A flush loop goes on to its next agent.
LEMMA FlushingTail ==
  ASSUME SyncTypeOK, flushing # <<>>
  PROVE  Tail(flushing) \in Seq(Semaphores \cup Mailboxes)
BY HeadTailProperties DEF SyncTypeOK

LEMMA ScheduledTyped ==
  ASSUME NEW S, NEW s \in S, NEW l \in Seq(S)
  PROVE  Scheduled(l, s) \in Seq(S)
BY AppendProperties DEF Scheduled

LEMMA UnlinkedTyped ==
  ASSUME NEW S, NEW s, NEW l \in Seq(S)
  PROVE  Unlinked(l, s) \subseteq Seq(S)
BY RemoveAtProperties DEF Unlinked

LEMMA SemaphoreCallTyped ==
  ASSUME SyncTypeOK, SemaphoreTypeOK, SemaphoreCall
  PROVE  SyncTypeOK' /\ SemaphoreTypeOK'
<1>0. PICK s \in Semaphores : \E n \in 1..TotalKeys[s] : SemaphoreGet(s, n) \/ SemaphorePut(s, n)
  BY DEF SemaphoreCall
<1>1. PICK n \in 1..TotalKeys[s] : SemaphoreGet(s, n) \/ SemaphorePut(s, n)
  BY <1>0
<1>2. current \in Processes /\ calls' \in Nat
  BY <1>1, CallTyped DEF SemaphoreGet, SemaphorePut
<1>3. SyncTypeOK'
  BY <1>1, <1>2 DEF SyncTypeOK, SemaphoreGet, SemaphorePut, blockVars, loopVars
<1> DEFINE info == [proc |-> current, keys |-> n]
<1>4. n \in Nat \ {0}
  BY <1>1, SemaphoreAssumption
<1>5. info \in SemaphoreInfos
  BY <1>2, <1>4 DEF SemaphoreInfos
<1>6. CASE SemaphoreGet(s, n)
  <2>1. getPending' \in [Semaphores -> Seq(SemaphoreInfos)]
    BY <1>5, <1>6, AppendProperties DEF SemaphoreGet, SemaphoreTypeOK
  <2>2. semGetList' \in Seq(Semaphores)
    BY <1>6, ScheduledTyped DEF SemaphoreGet, SemaphoreTypeOK
  <2> QED
    BY <1>3, <1>6, <2>1, <2>2 DEF SemaphoreGet, SemaphoreTypeOK
<1>7. CASE SemaphorePut(s, n)
  <2>1. putPending' \in [Semaphores -> Seq(SemaphoreInfos)]
    BY <1>5, <1>7, AppendProperties DEF SemaphorePut, SemaphoreTypeOK
  <2>2. semPutList' \in Seq(Semaphores)
    BY <1>7, ScheduledTyped DEF SemaphorePut, SemaphoreTypeOK
  <2> QED
    BY <1>3, <1>7, <2>1, <2>2 DEF SemaphorePut, SemaphoreTypeOK
<1> QED
  BY <1>1, <1>6, <1>7

\* The entries a flush function looks at name a process and a number of keys.
LEMMA PendingEntries ==
  ASSUME SemaphoreTypeOK, NEW s \in Semaphores
  PROVE  /\ \A i \in DOMAIN getPending[s] :
              getPending[s][i].proc \in Processes /\ getPending[s][i].keys \in Nat \ {0}
         /\ \A i \in DOMAIN putPending[s] :
              putPending[s][i].proc \in Processes /\ putPending[s][i].keys \in Nat \ {0}
         /\ putPending[s] # <<>> =>
              /\ Head(putPending[s]) = putPending[s][1]
              /\ 1 \in DOMAIN putPending[s]
<1>1. getPending[s] \in Seq(SemaphoreInfos) /\ putPending[s] \in Seq(SemaphoreInfos)
  BY DEF SemaphoreTypeOK
<1>2. \A i \in DOMAIN getPending[s] : getPending[s][i] \in SemaphoreInfos
  BY <1>1, LenProperties
<1>3. \A i \in DOMAIN putPending[s] : putPending[s][i] \in SemaphoreInfos
  BY <1>1, LenProperties
<1>4. putPending[s] # <<>> => Head(putPending[s]) = putPending[s][1] /\ 1 \in DOMAIN putPending[s]
  BY <1>1, EmptySeq, LenProperties
<1> QED
  BY <1>2, <1>3, <1>4 DEF SemaphoreInfos

LEMMA SemaphoreReasons ==
  ASSUME NEW s \in Semaphores, NEW why \in {"SemaphoreGet", "SemaphorePut"}
  PROVE  [why |-> why, obj |-> s] \in Reasons
BY DEF Reasons, Agents

LEMMA SemaphoreFlushTyped ==
  ASSUME SyncTypeOK, SemaphoreTypeOK, SemaphoreFlush
  PROVE  SyncTypeOK' /\ SemaphoreTypeOK'
<1>1. PICK s \in Semaphores :
        \/ \E i \in DOMAIN getPending[s] : SemaphoreFlushGet(s, i)
        \/ SemaphoreFlushGetDone(s)
        \/ SemaphoreFlushPut(s)
        \/ SemaphoreFlushPutDone(s)
  BY DEF SemaphoreFlush
<1>2. ASSUME NEW i \in DOMAIN getPending[s], SemaphoreFlushGet(s, i)
      PROVE  SyncTypeOK' /\ SemaphoreTypeOK'
  <2> DEFINE info == getPending[s][i]
             queues == WithReason(reasons, info.proc, "SemaphoreGet", s)
  <2>1. info.proc \in Processes /\ info.keys \in Nat \ {0}
    BY PendingEntries
  <2>2. queues \in [Records -> Seq(Reasons)]
    BY <2>1, SemaphoreReasons, WithReasonTyped DEF SyncTypeOK, Records
  <2>3. Unblock({<<info.proc, WaitOn(s, "get")>>}) /\ SetReasons(queues)
    BY <1>2 DEF SemaphoreFlushGet, Getter
  <2> HIDE DEF queues
  <2>4. SyncTypeOK'
    BY <1>2, <2>2, <2>3, UnblockTyped, SetReasonsTyped
       DEF SyncTypeOK, SemaphoreFlushGet, runVars
  <2>5. /\ keysRemaining' \in [Semaphores -> Int]
        /\ held' \in [Semaphores -> [Processes -> Int]]
    BY <1>2, <2>1 DEF SemaphoreFlushGet, SemaphoreTypeOK, Getter
  <2>6. getPending' \in [Semaphores -> Seq(SemaphoreInfos)]
    BY <1>2, RemoveAtProperties DEF SemaphoreFlushGet, SemaphoreTypeOK
  <2> QED
    BY <1>2, <2>4, <2>5, <2>6 DEF SemaphoreFlushGet, SemaphoreTypeOK
<1>3. CASE SemaphoreFlushGetDone(s)
  <2>1. SyncTypeOK'
    BY <1>3, FlushingTail DEF SyncTypeOK, SemaphoreFlushGetDone, Flushing, blockVars, runVars
  <2>2. semGetList' \in Seq(Semaphores)
    BY <1>3, UnlinkedTyped DEF SemaphoreFlushGetDone, GetListAfter, SemaphoreTypeOK
  <2> QED
    BY <1>3, <2>1, <2>2 DEF SemaphoreFlushGetDone, SemaphoreTypeOK
<1>4. CASE SemaphoreFlushPut(s)
  <2> DEFINE info == Head(putPending[s])
             queues == WithReason(reasons, info.proc, "SemaphorePut", s)
  <2>1. info.proc \in Processes /\ info.keys \in Nat \ {0}
    BY <1>4, PendingEntries DEF SemaphoreFlushPut
  <2>2. queues \in [Records -> Seq(Reasons)]
    BY <2>1, SemaphoreReasons, WithReasonTyped DEF SyncTypeOK, Records
  <2>3. CASE info.keys > held[s][info.proc]
    <3>1. SyncTypeOK'
      BY <1>4, <2>3 DEF SyncTypeOK, SemaphoreFlushPut, Abort, Faults, blockVars, runVars
    <3> QED
      BY <1>4, <2>3, <3>1 DEF SemaphoreFlushPut, SemaphoreTypeOK, Abort
  <2>4. CASE ~ (info.keys > held[s][info.proc])
    <3>1. /\ keysRemaining' = [keysRemaining EXCEPT ![s] = @ + info.keys]
          /\ held' = [held EXCEPT ![s][info.proc] = @ - info.keys]
          /\ putPending' = [putPending EXCEPT ![s] = Tail(@)]
          /\ SetReasons(queues)
      BY <1>4, <2>1, <2>4 DEF SemaphoreFlushPut, SemaphoreTypeOK, PutsLeft
    <3>2. SyncTypeOK'
      BY <1>4, <2>2, <3>1, SetReasonsTyped DEF SyncTypeOK, SemaphoreFlushPut, blockVars, runVars
    <3>3. putPending' \in [Semaphores -> Seq(SemaphoreInfos)]
      BY <1>4, <3>1, HeadTailProperties DEF SemaphoreFlushPut, SemaphoreTypeOK
    <3>4. /\ keysRemaining' \in [Semaphores -> Int]
          /\ held' \in [Semaphores -> [Processes -> Int]]
      BY <2>1, <3>1, SMTT(40) DEF SemaphoreTypeOK
    <3> QED
      BY <1>4, <3>2, <3>3, <3>4 DEF SemaphoreFlushPut, SemaphoreTypeOK
  <2> QED
    BY <2>3, <2>4
<1>5. CASE SemaphoreFlushPutDone(s)
  <2>1. SyncTypeOK'
    BY <1>5, FlushingTail DEF SyncTypeOK, SemaphoreFlushPutDone, Flushing, blockVars, runVars
  <2>2. semPutList' \in Seq(Semaphores)
    BY <1>5, UnlinkedTyped DEF SemaphoreFlushPutDone, SemaphoreTypeOK
  <2> QED
    BY <1>5, <2>1, <2>2 DEF SemaphoreFlushPutDone, SemaphoreTypeOK
<1> QED
  BY <1>1, <1>2, <1>3, <1>4, <1>5

-----------------------------------------------------------------------------
(* Mailboxes.  The element that is handed over exists because the two lists *)
(* of a mailbox have the same length.                                      *)

PairedLists == \A m \in Mailboxes : Len(putters[m]) = Len(elms[m])

LEMMA MailboxCallTyped ==
  ASSUME SyncTypeOK, MailboxTypeOK, PairedLists, MailboxCall
  PROVE  SyncTypeOK' /\ MailboxTypeOK' /\ PairedLists'
<1>1. PICK m \in Mailboxes : MailboxGet(m) \/ \E e \in Elements : MailboxPut(m, e)
  BY DEF MailboxCall
<1>2. current \in Processes /\ calls' \in Nat
  BY <1>1, CallTyped DEF MailboxGet, MailboxPut
<1>3. SyncTypeOK'
  BY <1>1, <1>2 DEF SyncTypeOK, MailboxGet, MailboxPut, blockVars, loopVars
<1>4. CASE MailboxGet(m)
  <2>1. getters' \in [Mailboxes -> Seq(Processes)]
    BY <1>2, <1>4, AppendProperties DEF MailboxGet, MailboxTypeOK
  <2> QED
    BY <1>3, <1>4, <2>1 DEF MailboxGet, MailboxTypeOK, PairedLists
<1>5. ASSUME NEW e \in Elements, MailboxPut(m, e)
      PROVE  MailboxTypeOK' /\ PairedLists'
  <2>1. CASE Len(putters[m]) = MailboxMax[m]
    BY <1>5, <2>1 DEF MailboxPut, Full, MailboxTypeOK, PairedLists, mailboxVars
  <2>2. CASE Len(putters[m]) # MailboxMax[m]
    <3>1. /\ putters' = [putters EXCEPT ![m] = Append(@, current)]
          /\ elms' = [elms EXCEPT ![m] = Append(@, e)]
          /\ sent' = [sent EXCEPT ![m] = Append(@, <<current, e>>)]
          /\ mailboxEvaluate' = TRUE
          /\ UNCHANGED <<getters, delivered>>
      BY <1>5, <2>2 DEF MailboxPut, Full
    <3>2. /\ putters[m] \in Seq(Processes) /\ elms[m] \in Seq(Elements)
          /\ sent[m] \in Seq(Processes \X Elements)
      BY DEF MailboxTypeOK
    <3>3. /\ Append(putters[m], current) \in Seq(Processes)
          /\ Len(Append(putters[m], current)) = Len(putters[m]) + 1
      BY <1>2, <3>2, AppendProperties
    <3>4. /\ Append(elms[m], e) \in Seq(Elements)
          /\ Len(Append(elms[m], e)) = Len(elms[m]) + 1
      BY <3>2, AppendProperties
    <3>5. Append(sent[m], <<current, e>>) \in Seq(Processes \X Elements)
      BY <1>2, <3>2, AppendProperties
    <3>6. MailboxTypeOK'
      BY <3>1, <3>3, <3>4, <3>5 DEF MailboxTypeOK
    <3>7. PairedLists'
      BY <3>1, <3>3, <3>4 DEF PairedLists, MailboxTypeOK
    <3> QED
      BY <3>6, <3>7
  <2> QED
    BY <2>1, <2>2
<1> QED
  BY <1>1, <1>3, <1>4, <1>5

LEMMA MailboxFlushTyped ==
  ASSUME SyncTypeOK, MailboxTypeOK, PairedLists, MailboxFlush
  PROVE  SyncTypeOK' /\ MailboxTypeOK' /\ PairedLists'
<1>1. PICK m \in Mailboxes :
        MailboxNoPair(m) \/ \E i \in DOMAIN getters[m] : MailboxTransfer(m, i)
  BY DEF MailboxFlush
<1>2. CASE MailboxNoPair(m)
  <2>1. fault' \in Faults
    BY <1>2 DEF MailboxNoPair, Faults
  <2> QED
    BY <1>2, <2>1, FlushingTail
       DEF MailboxNoPair, Flushing, SyncTypeOK, MailboxTypeOK, PairedLists, blockVars,
           runVars, mailboxVars
<1>3. ASSUME NEW i \in DOMAIN getters[m], MailboxTransfer(m, i)
      PROVE  SyncTypeOK' /\ MailboxTypeOK' /\ PairedLists'
  <2> DEFINE put == Head(putters[m])
             get == getters[m][i]
             elm == Head(elms[m])
             first == WithReason(reasons, put, "MailboxPut", m)
             both == WithReason(first, get, "MailboxGet", elm)
             pairs == Processes \X Elements
  <2>1. /\ putters[m] \in Seq(Processes) /\ putters[m] # <<>>
        /\ elms[m] \in Seq(Elements) /\ elms[m] # <<>>
        /\ getters[m] \in Seq(Processes)
        /\ delivered[m] \in Seq(pairs)
    BY <1>3, EmptySeq DEF MailboxTransfer, MailboxTypeOK, PairedLists
  <2>2. put \in Processes /\ get \in Processes /\ elm \in Elements
    BY <2>1, HeadTailProperties, LenProperties
  <2>3. both \in [Records -> Seq(Reasons)]
    <3>1. first \in [Records -> Seq(Reasons)]
      BY <2>2, WithReasonTyped DEF SyncTypeOK, Records, Reasons, Agents
    <3> HIDE DEF first, elm, get
    <3> QED
      BY <2>2, <3>1, WithReasonTyped DEF Records, Reasons
  <2>4. Unblock({<<get, WaitOn(m, "get")>>, <<put, WaitOn(m, "put")>>})
    BY <1>3 DEF MailboxTransfer
  <2>5. reasons' \in [Records -> Seq(Reasons)] /\ fault' \in Faults
    <3>1. CASE PutterReachable(m, i)
      <4>1. SetReasons(both)
        BY <1>3, <3>1 DEF MailboxTransfer
      <4> HIDE DEF both
      <4> QED
        BY <2>3, <4>1, SetReasonsTyped
    <3>2. CASE ~ PutterReachable(m, i)
      BY <1>3, <3>2 DEF MailboxTransfer, Abort, SyncTypeOK, Faults
    <3> QED
      BY <3>1, <3>2
  <2>6. SyncTypeOK'
    <3>1. flushing # <<>>
      BY <1>3 DEF MailboxTransfer, Flushing
    <3> HIDE DEF put, get
    <3> QED
      BY <1>3, <2>4, <2>5, <3>1, FlushingTail, UnblockTyped
         DEF MailboxTransfer, SyncTypeOK, runVars
  <2>7. /\ getters' = [getters EXCEPT ![m] = RemoveAt(@, i)]
        /\ putters' = [putters EXCEPT ![m] = Tail(@)]
        /\ elms' = [elms EXCEPT ![m] = Tail(@)]
        /\ delivered' = [delivered EXCEPT ![m] = Append(@, <<put, elm>>)]
        /\ UNCHANGED <<mailboxEvaluate, sent>>
    BY <1>3 DEF MailboxTransfer
  <2>8. /\ RemoveAt(getters[m], i) \in Seq(Processes)
        /\ Tail(putters[m]) \in Seq(Processes)
        /\ Tail(elms[m]) \in Seq(Elements)
        /\ Len(Tail(putters[m])) = Len(putters[m]) - 1
        /\ Len(Tail(elms[m])) = Len(elms[m]) - 1
    BY <2>1, HeadTailProperties, RemoveAtProperties
  <2>9. Append(delivered[m], <<put, elm>>) \in Seq(pairs)
    BY <2>1, <2>2, AppendProperties
  <2>10. MailboxTypeOK'
    BY <2>7, <2>8, <2>9 DEF MailboxTypeOK
  <2>11. PairedLists'
    BY <2>7, <2>8 DEF PairedLists, MailboxTypeOK
  <2> QED
    BY <2>6, <2>10, <2>11
<1> QED
  BY <1>1, <1>2, <1>3

-----------------------------------------------------------------------------
(* Events.                                                                 *)

LEMMA EventTyped ==
  ASSUME SyncTypeOK, EventTypeOK, EventCall \/ EventFlushNext
  PROVE  SyncTypeOK' /\ EventTypeOK'
<1>1. PICK e \in Events : EventSet(e) \/ EventGet(e) \/ EventFlush(e) \/ EventFlushUnheard(e)
  BY DEF EventCall, EventFlushNext
<1>2. CASE EventSet(e)
  <2>1. calls' \in Nat /\ eventSetList' \in Seq(Events)
    BY <1>2, CallTyped, AppendProperties DEF EventSet, EventTypeOK
  <2> QED
    BY <1>2, <2>1 DEF EventSet, SyncTypeOK, EventTypeOK, blockVars, loopVars
<1>3. CASE EventGet(e)
  <2>1. calls' \in Nat /\ waiting' \in [Events -> Seq(Processes)]
    BY <1>3, CallTyped, AppendProperties DEF EventGet, EventTypeOK
  <2> QED
    BY <1>3, <2>1 DEF EventGet, SyncTypeOK, EventTypeOK, blockVars, loopVars
<1>4. CASE EventFlush(e)
  <2>1. CASE EventStuck(e)
    BY <1>4, <2>1 DEF EventFlush, Abort, SyncTypeOK, EventTypeOK, eventVars, runVars, Faults
  <2>2. CASE ~ EventStuck(e)
    <3> DEFINE queues == WithReason(reasons, Last(waiting[e]), "Event", e)
    <3>1. waiting[e] \in Seq(Processes) /\ waiting[e] # <<>>
      BY <1>4 DEF EventFlush, EventTypeOK
    <3>2. Last(waiting[e]) \in Processes
      BY <3>1, EmptySeq, LenProperties DEF Last
    <3>3. queues \in [Records -> Seq(Reasons)]
      BY <3>2, WithReasonTyped DEF SyncTypeOK, Records, Reasons, Agents
    <3>4. SetReasons(queues) /\ Unblock({<<p, WaitOn(e, "none")>> : p \in ToSet(waiting[e])})
      BY <1>4, <2>2 DEF EventFlush
    <3>5. /\ waiting' = [waiting EXCEPT ![e] = <<>>]
          /\ eventSetList # <<>> /\ eventSetList' = Tail(eventSetList)
          /\ deltaEvents' = TRUE
          /\ UNCHANGED <<toBlock, runVars, phase, flushing>>
      BY <1>4, <2>2 DEF EventFlush
    <3>6. EventTypeOK'
      BY <3>5, EmptySeq, HeadTailProperties DEF EventTypeOK
    <3> HIDE DEF queues
    <3>7. SyncTypeOK'
      BY <3>3, <3>4, <3>5, UnblockTyped, SetReasonsTyped DEF SyncTypeOK, runVars
    <3> QED
      BY <3>6, <3>7
  <2> QED
    BY <2>1, <2>2
<1>5. CASE EventFlushUnheard(e)
  <2>1. eventSetList' \in Seq(Events)
    BY <1>5, HeadTailProperties DEF EventFlushUnheard, EventTypeOK
  <2> QED
    BY <1>5, <2>1 DEF EventFlushUnheard, SyncTypeOK, EventTypeOK, blockVars, runVars, loopVars
<1> QED
  BY <1>1, <1>2, <1>3, <1>4, <1>5

-----------------------------------------------------------------------------
(* Timers.                                                                 *)

\* Starting a timer queues a reason on its record, flushing it one on a process.
LEMMA TimerReasonTyped ==
  ASSUME SyncTypeOK, NEW t \in Timers, NEW r \in Records,
         SetReasons(WithReason(reasons, r, "TimerDone", t))
  PROVE  reasons' \in [Records -> Seq(Reasons)] /\ fault' \in Faults
<1> DEFINE queues == WithReason(reasons, r, "TimerDone", t)
<1>1. queues \in [Records -> Seq(Reasons)]
  BY WithReasonTyped DEF SyncTypeOK, Reasons, Agents
<1> HIDE DEF queues
<1> QED
  BY <1>1, SetReasonsTyped DEF queues

LEMMA TimerCallTyped ==
  ASSUME SyncTypeOK, TimerTypeOK, TimerCall
  PROVE  SyncTypeOK' /\ TimerTypeOK'
<1>1. PICK t \in Timers :
        \/ \E w \in Processes \cup {NoProcess} : TimerStart(t, w)
        \/ TimerStop(t) \/ TimerRestart(t) \/ TimerWatch(t) \/ TimerWait(t)
  BY DEF TimerCall
<1>2. current \in Processes /\ calls' \in Nat
  BY <1>1, CallTyped DEF TimerStart, TimerStop, TimerRestart, TimerWatch, TimerWait
<1>3. t \in Records /\ WaitOn(t, "none") \in Waits
  BY DEF Records, Waits, WaitOn, SyncArgs, Agents
<1>4. ASSUME NEW w \in Processes \cup {NoProcess}, TimerStart(t, w)
      PROVE  SyncTypeOK' /\ TimerTypeOK'
  <2>1. reasons' \in [Records -> Seq(Reasons)] /\ fault' \in Faults
    BY <1>3, <1>4, TimerReasonTyped DEF TimerStart
  <2>2. watchers' \in [Timers -> Seq(Processes)]
    BY <1>4, AppendProperties DEF TimerStart, WatchedBy, TimerTypeOK
  <2> QED
    BY <1>2, <1>4, <2>1, <2>2
       DEF TimerStart, SyncTypeOK, TimerTypeOK, TimerStates, blockVars, loopVars
<1>5. CASE TimerStop(t)
  <2>1. toBlock' \in Seq([proc : Records, wait : Waits])
    BY <1>3, <1>5, ToBlockTyped DEF TimerStop
  <2> QED
    BY <1>2, <1>5, <2>1 DEF TimerStop, SyncTypeOK, TimerTypeOK, loopVars
<1>6. CASE TimerRestart(t)
  <2>1. toBlock' \in Seq([proc : Records, wait : Waits])
    BY <1>3, <1>6, ToBlockTyped DEF TimerRestart
  <2>2. reasons' \in [Records -> Seq(Reasons)] /\ fault' \in Faults
    BY <1>3, <1>6, TimerReasonTyped DEF TimerRestart
  <2> QED
    BY <1>2, <1>6, <2>1, <2>2 DEF TimerRestart, SyncTypeOK, TimerTypeOK, TimerStates, loopVars
<1>7. ASSUME watchers' = [watchers EXCEPT ![t] = Append(@, current)]
      PROVE  watchers' \in [Timers -> Seq(Processes)]
  BY <1>2, <1>7, AppendProperties DEF TimerTypeOK
<1>8. CASE TimerWatch(t)
  BY <1>2, <1>7, <1>8 DEF TimerWatch, SyncTypeOK, TimerTypeOK, blockVars, loopVars
<1>9. CASE TimerWait(t)
  <2>1. toBlock' \in Seq([proc : Records, wait : Waits])
    BY <1>2, <1>3, <1>9, ToBlockTyped DEF TimerWait, Records
  <2> QED
    BY <1>2, <1>7, <1>9, <2>1 DEF TimerWait, SyncTypeOK, TimerTypeOK, loopVars
<1> QED
  BY <1>1, <1>4, <1>5, <1>6, <1>8, <1>9

LEMMA TimerFlushTyped ==
  ASSUME SyncTypeOK, TimerTypeOK, TimerFlushNext \/ \E t \in Timers : TimerExecute(t)
  PROVE  SyncTypeOK' /\ TimerTypeOK'
<1>1. PICK t \in Timers :
        TimerFlushDone(t) \/ (\E i \in DOMAIN watchers[t] : TimerFlush(t, i)) \/ TimerExecute(t)
  BY DEF TimerFlushNext
<1>2. CASE TimerFlushDone(t)
  <2>1. CASE timerState[t] # "Completed"
    BY <1>2, <2>1 DEF TimerFlushDone, Abort, SyncTypeOK, TimerTypeOK, timerVars, blockVars,
       runVars, loopVars, Faults
  <2>2. CASE timerState[t] = "Completed"
    <3>0. /\ watchers' = [watchers EXCEPT ![t] = <<>>]
          /\ timerDoneList' = Tail(timerDoneList)
          /\ timerDoneList # <<>>
      BY <1>2, <2>2 DEF TimerFlushDone, AtTimer
    <3>1. timerDoneList' \in Seq(Timers) /\ watchers' \in [Timers -> Seq(Processes)]
      BY <3>0, EmptySeq, HeadTailProperties DEF TimerTypeOK
    <3> QED
      BY <1>2, <2>2, <3>1
         DEF TimerFlushDone, SyncTypeOK, TimerTypeOK, blockVars, runVars, loopVars
  <2> QED
    BY <2>1, <2>2
<1>3. ASSUME NEW i \in DOMAIN watchers[t], TimerFlush(t, i)
      PROVE  SyncTypeOK' /\ TimerTypeOK'
  <2>1. watchers[t] \in Seq(Processes) /\ watchers[t][i] \in Records
    BY LenProperties DEF TimerTypeOK, Records
  <2>2. reasons' \in [Records -> Seq(Reasons)] /\ fault' \in Faults
    BY <1>3, <2>1, TimerReasonTyped DEF TimerFlush
  <2>3. SubSeq(watchers[t], i + 1, Len(watchers[t])) \in Seq(Processes)
    <3>1. /\ i + 1 \in Int /\ Len(watchers[t]) \in Int
          /\ \A k \in i + 1..Len(watchers[t]) : watchers[t][k] \in Processes
      BY <2>1, LenProperties
    <3> QED
      BY <3>1, SubSeqProperties
  <2>4. watchers' \in [Timers -> Seq(Processes)]
    BY <1>3, <2>3 DEF TimerFlush, TimerTypeOK
  <2> QED
    BY <1>3, <2>2, <2>4, UnblockTyped DEF TimerFlush, SyncTypeOK, TimerTypeOK, runVars
<1>4. CASE TimerExecute(t)
  <2>1. CASE timerState[t] = "Running" /\ Len(reasons[t]) = 1
    <3>0. /\ timerState' = [timerState EXCEPT ![t] = "Completed"]
          /\ timerScheduled' = [timerScheduled EXCEPT ![t] = FALSE]
          /\ timerDoneList' = Append(timerDoneList, t)
          /\ reasons' = [reasons EXCEPT ![t] = <<>>]
          /\ unblocked' = [unblocked EXCEPT ![t] = FALSE]
          /\ UNCHANGED <<fault, watchers, sync, toBlock, runVars, loopVars>>
      BY <1>4, <2>1 DEF TimerExecute
    <3>1. timerDoneList' \in Seq(Timers)
      BY <3>0, AppendProperties DEF TimerTypeOK
    <3>2. reasons' \in [Records -> Seq(Reasons)]
      BY <3>0, EmptySeq DEF SyncTypeOK
    <3> QED
      BY <3>0, <3>1, <3>2 DEF SyncTypeOK, TimerTypeOK, TimerStates, runVars, loopVars
  <2>2. CASE ~ (timerState[t] = "Running" /\ Len(reasons[t]) = 1)
    BY <1>4, <2>2 DEF TimerExecute, Abort, SyncTypeOK, TimerTypeOK, timerVars, runVars,
       loopVars, Faults
  <2> QED
    BY <2>1, <2>2
<1> QED
  BY <1>1, <1>2, <1>3, <1>4

-----------------------------------------------------------------------------
(* The whole delta cycle.                                                  *)

LEMMA LoopTyped ==
  ASSUME TypeOK, RunEnds \/ TimersEnd \/ EventsEnd \/ SemGetsEnd \/ SemPutsEnd \/ MailboxesEnd
  PROVE  TypeOK'
<1> DEFINE S == Semaphores \cup Mailboxes
<1>1. /\ <<>> \in Seq(S) /\ semGetList \in Seq(S) /\ semPutList \in Seq(S)
      /\ MailboxOrder \in Seq(S)
  <2>1. /\ \A l \in Seq(Semaphores) : l \in Seq(S)
        /\ \A l \in Seq(Mailboxes) : l \in Seq(S)
    BY SeqMonotonic
  <2> QED
    BY <2>1, EmptySeq, MailboxAssumption DEF TypeOK, SemaphoreTypeOK
<1>2. flushing' \in Seq(S) /\ phase' \in Phases
  BY <1>1 DEF RunEnds, TimersEnd, EventsEnd, SemGetsEnd, SemPutsEnd, MailboxesEnd, Enter, Phases
<1>3. UNCHANGED <<blockVars, reasons, runVars, deltaEvents, fault,
                  semaphoreVars, eventVars, timerVars, putters, elms, getters, sent, delivered>>
  BY DEF RunEnds, TimersEnd, EventsEnd, SemGetsEnd, SemPutsEnd, MailboxesEnd, Enter, mailboxVars
<1>4. mailboxEvaluate' \in BOOLEAN
  BY DEF RunEnds, TimersEnd, EventsEnd, SemGetsEnd, SemPutsEnd, MailboxesEnd, mailboxVars,
     TypeOK, MailboxTypeOK
<1>5. SyncTypeOK'
  BY <1>2, <1>3 DEF TypeOK, SyncTypeOK, blockVars, runVars
<1>6. SemaphoreTypeOK' /\ EventTypeOK' /\ TimerTypeOK'
  BY <1>3 DEF TypeOK, SemaphoreTypeOK, EventTypeOK, TimerTypeOK, semaphoreVars, eventVars, timerVars
<1>7. MailboxTypeOK'
  BY <1>3, <1>4 DEF TypeOK, MailboxTypeOK
<1> QED
  BY <1>5, <1>6, <1>7 DEF TypeOK

LEMMA TypeInit == Init => TypeOK /\ PairedLists
<1> SUFFICES ASSUME Init
             PROVE  TypeOK /\ PairedLists
  OBVIOUS
<1>1. SyncTypeOK
  <2>1. \A S : <<>> \in Seq(S)
    BY EmptySeq
  <2>2. reasons \in [Records -> Seq(Reasons)]
    <3> DEFINE why == [why |-> "Initial", obj |-> NoAgent]
    <3>1. why \in Reasons
      BY DEF Reasons
    <3>2. <<why>> \in Seq(Reasons)
      BY <3>1
    <3> QED
      BY <2>1, <3>2 DEF Init, ProcessSyncInit
  <2> QED
    BY <2>1, <2>2 DEF Init, ProcessSyncInit, SyncTypeOK, Phases, Faults
<1>2. SemaphoreTypeOK
  BY SemaphoreAssumption DEF Init, SemaphoreInit, SemaphoreTypeOK
<1>3. MailboxTypeOK /\ PairedLists
  BY DEF Init, MailboxInit, MailboxTypeOK, PairedLists
<1>4. EventTypeOK /\ TimerTypeOK
  BY DEF Init, EventInit, TimerInit, EventTypeOK, TimerTypeOK, TimerStates
<1> QED
  BY <1>1, <1>2, <1>3, <1>4 DEF TypeOK

\* What leaves the variables of an agent alone leaves their types.
LEMMA UnchangedTyped ==
  ASSUME TypeOK, PairedLists
  PROVE  /\ UNCHANGED semaphoreVars => SemaphoreTypeOK'
         /\ UNCHANGED mailboxVars => MailboxTypeOK' /\ PairedLists'
         /\ UNCHANGED eventVars => EventTypeOK'
         /\ UNCHANGED timerVars => TimerTypeOK'
<1>1. UNCHANGED semaphoreVars => SemaphoreTypeOK'
  BY DEF TypeOK, SemaphoreTypeOK, semaphoreVars
<1>2. UNCHANGED mailboxVars => MailboxTypeOK' /\ PairedLists'
  BY DEF TypeOK, MailboxTypeOK, PairedLists, mailboxVars
<1>3. UNCHANGED eventVars => EventTypeOK'
  BY DEF TypeOK, EventTypeOK, eventVars
<1>4. UNCHANGED timerVars => TimerTypeOK'
  BY DEF TypeOK, TimerTypeOK, timerVars
<1> QED
  BY <1>1, <1>2, <1>3, <1>4

LEMMA TypeStep == TypeOK /\ PairedLists /\ [Next]_vars => TypeOK' /\ PairedLists'
<1> SUFFICES ASSUME TypeOK, PairedLists, [Next]_vars
             PROVE  TypeOK' /\ PairedLists'
  OBVIOUS
<1> USE DEF TypeOK
<1>1. ASSUME ProcessStep \/ FlushProcessesToBlock \/ Advance, UNCHANGED agentVars
      PROVE  TypeOK' /\ PairedLists'
  BY <1>1, ProcessSyncTyped, UnchangedTyped DEF agentVars
<1>2. ASSUME SemaphoreCall \/ SemaphoreFlush, UNCHANGED <<mailboxVars, eventVars, timerVars>>
      PROVE  TypeOK' /\ PairedLists'
  BY <1>2, SemaphoreCallTyped, SemaphoreFlushTyped, UnchangedTyped
<1>3. ASSUME MailboxCall \/ MailboxFlush, UNCHANGED <<semaphoreVars, eventVars, timerVars>>
      PROVE  TypeOK' /\ PairedLists'
  BY <1>3, MailboxCallTyped, MailboxFlushTyped, UnchangedTyped
<1>4. ASSUME EventCall \/ EventFlushNext, UNCHANGED <<semaphoreVars, mailboxVars, timerVars>>
      PROVE  TypeOK' /\ PairedLists'
  BY <1>4, EventTyped, UnchangedTyped
<1>5. ASSUME TimerCall \/ TimerFlushNext \/ \E t \in Timers : TimerExecute(t),
             UNCHANGED <<semaphoreVars, mailboxVars, eventVars>>
      PROVE  TypeOK' /\ PairedLists'
  BY <1>5, TimerCallTyped, TimerFlushTyped, UnchangedTyped
<1>6. CASE RunEnds \/ TimersEnd \/ EventsEnd \/ SemGetsEnd \/ SemPutsEnd \/ MailboxesEnd
  <2>1. TypeOK'
    BY <1>6, LoopTyped
  <2>2. UNCHANGED <<putters, elms>>
    BY <1>6 DEF RunEnds, TimersEnd, EventsEnd, SemGetsEnd, SemPutsEnd, MailboxesEnd, mailboxVars
  <2> QED
    BY <2>1, <2>2 DEF PairedLists
<1>7. CASE UNCHANGED vars
  <2>1. UNCHANGED <<semaphoreVars, mailboxVars, eventVars, timerVars, baseVars>>
    BY <1>7 DEF vars
  <2>2. SyncTypeOK'
    BY <2>1 DEF SyncTypeOK, baseVars, blockVars, runVars, loopVars
  <2> QED
    BY <2>1, <2>2, UnchangedTyped
<1>8. CASE RunStep
  BY <1>1, <1>2, <1>3, <1>4, <1>5, <1>8 DEF RunStep
<1>9. CASE FlushStep
  BY <1>1, <1>2, <1>3, <1>4, <1>5, <1>6, <1>9 DEF FlushStep
<1> QED
  BY <1>6, <1>7, <1>8, <1>9 DEF Next

\* In every execution of the delta-cycle loop, with any processes, agents,
\* policies and bounds, every variable keeps its type.
THEOREM Typing == Spec => [](TypeOK /\ PairedLists)
BY TypeInit, TypeStep, PTL DEF Spec

-----------------------------------------------------------------------------
(* Reasons, and the processes that wait for them.                          *)

\* A reason is pushed on one record and changes no other.
LEMMA WithReasonAdds ==
  ASSUME NEW queues \in [Records -> Seq(Reasons)], NEW r \in Records, NEW why, NEW obj,
         [why |-> why, obj |-> obj] \in Reasons,
         NEW after, after = WithReason(queues, r, why, obj)
  PROVE  /\ after \in [Records -> Seq(Reasons)]
         /\ \A q \in Records \ {r} : after[q] = queues[q]
         /\ Len(after[r]) = Len(queues[r]) + 1
         /\ after[r] # <<>>
         /\ Last(after[r]) = [why |-> why, obj |-> obj]
<1> DEFINE reason == [why |-> why, obj |-> obj]
           grown == Append(queues[r], reason)
<1>1. /\ grown \in Seq(Reasons) /\ Len(grown) = Len(queues[r]) + 1
      /\ grown[Len(queues[r]) + 1] = reason /\ Len(queues[r]) \in Nat
  BY AppendProperties, LenProperties
<1>2. after = [queues EXCEPT ![r] = grown]
  BY DEF WithReason
<1> HIDE DEF grown
<1>3. grown # <<>>
  BY <1>1, EmptySeq
<1>4. Last(grown) = reason
  BY <1>1 DEF Last
<1> QED
  BY <1>1, <1>2, <1>3, <1>4

LEMMA WithReasonKeeps ==
  ASSUME NEW queues \in [Records -> Seq(Reasons)], NEW r \in Records, NEW why, NEW obj,
         [why |-> why, obj |-> obj] \in Reasons,
         NEW after, after = WithReason(queues, r, why, obj),
         NEW q \in Records, queues[q] # <<>>
  PROVE  after[q] # <<>>
<1>1. (\A x \in Records \ {r} : after[x] = queues[x]) /\ after[r] # <<>>
  BY WithReasonAdds
<1> QED
  BY <1>1

\* Whom a mailbox, an event and a timer wake.
LEMMA TransferTyped ==
  ASSUME TypeOK, PairedLists, NEW m \in Mailboxes, NEW i \in DOMAIN getters[m],
         MailboxTransfer(m, i)
  PROVE  Head(putters[m]) \in Processes /\ getters[m][i] \in Processes /\ Head(elms[m]) \in Elements
<1>1. /\ putters[m] \in Seq(Processes) /\ putters[m] # <<>>
      /\ elms[m] \in Seq(Elements) /\ elms[m] # <<>>
      /\ getters[m] \in Seq(Processes)
  BY EmptySeq DEF MailboxTransfer, TypeOK, MailboxTypeOK, PairedLists
<1> QED
  BY <1>1, HeadTailProperties, LenProperties

LEMMA ListenersTyped ==
  ASSUME TypeOK, NEW e \in Events, waiting[e] # <<>>
  PROVE  /\ Last(waiting[e]) \in Processes
         /\ \E i \in DOMAIN waiting[e] : waiting[e][i] = Last(waiting[e])
<1>1. waiting[e] \in Seq(Processes)
  BY DEF TypeOK, EventTypeOK
<1>2. Len(waiting[e]) \in DOMAIN waiting[e]
  BY <1>1, EmptySeq, LenProperties
<1> QED
  BY <1>1, <1>2, LenProperties DEF Last

LEMMA WatcherTyped ==
  ASSUME TypeOK, NEW t \in Timers, NEW i \in DOMAIN watchers[t]
  PROVE  watchers[t][i] \in Processes
BY LenProperties DEF TypeOK, TimerTypeOK

-----------------------------------------------------------------------------
(* Timers.                                                                 *)

\* What does not touch a timer leaves it able to fire, if no reason of a record
\* of a timer is taken away.
LEMMA TimersUntouched ==
  ASSUME ScheduledTimerFires, UNCHANGED <<timerScheduled, timerState>>,
         \A t \in Timers : reasons[t] # <<>> => reasons'[t] # <<>>
  PROVE  ScheduledTimerFires'
BY DEF ScheduledTimerFires

LEMMA FiresInit == Init => ScheduledTimerFires
BY DEF Init, TimerInit, ScheduledTimerFires

\* Processes pop their own reasons, never those of a timer.
LEMMA ProcessKeepsTimers ==
  ASSUME TypeOK, ScheduledTimerFires, UNCHANGED timerVars,
         ProcessStep \/ FlushProcessesToBlock \/ Advance
  PROVE  ScheduledTimerFires'
<1>1. \A t \in Timers : reasons'[t] = reasons[t]
  <2>1. ASSUME NEW p \in Processes, reasons' = [reasons EXCEPT ![p] = Tail(@)]
        PROVE  \A t \in Timers : reasons'[t] = reasons[t]
    BY <2>1, ProcessSyncAssumption DEF TypeOK, SyncTypeOK, Records
  <2>2. CASE ProcessStep
    <3>1. reasons' = reasons \/ \E p \in Processes : reasons' = [reasons EXCEPT ![p] = Tail(@)]
      BY <2>2 DEF ProcessStep, Dispatch, DispatchIdle, NextReason, Return, ExecuteOnEdge,
         ReturnOnEdge, EdgeEnds, Wait, TypeOK, SyncTypeOK
    <3> QED
      BY <2>1, <3>1
  <2>3. CASE FlushProcessesToBlock \/ Advance
    BY <2>3 DEF FlushProcessesToBlock, Advance, Abort
  <2> QED
    BY <2>2, <2>3
<1> QED
  BY <1>1, TimersUntouched DEF timerVars

\* Whom the other agents wake gets one reason more.
LEMMA AgentsKeepTimers ==
  ASSUME TypeOK, PairedLists, ScheduledTimerFires, UNCHANGED timerVars,
         \/ SemaphoreCall \/ SemaphoreFlush \/ MailboxCall \/ MailboxFlush
         \/ EventCall \/ EventFlushNext
  PROVE  ScheduledTimerFires'
<1> SUFFICES \A t \in Timers : reasons[t] # <<>> => reasons'[t] # <<>>
  BY TimersUntouched DEF timerVars
<1>1. ASSUME NEW queues \in [Records -> Seq(Reasons)], NEW r \in Records,
             NEW why, NEW obj, [why |-> why, obj |-> obj] \in Reasons,
             NEW after, after = WithReason(queues, r, why, obj)
      PROVE  \A t \in Timers : queues[t] # <<>> => after[t] # <<>>
  BY <1>1, WithReasonKeeps DEF Records
<1>2. reasons \in [Records -> Seq(Reasons)]
  BY DEF TypeOK, SyncTypeOK
<1>3. CASE SemaphoreCall \/ MailboxCall \/ EventCall
  BY <1>3 DEF SemaphoreCall, SemaphoreGet, SemaphorePut, MailboxCall, MailboxGet, MailboxPut,
     EventCall, EventGet, EventSet
<1>4. CASE SemaphoreFlush
  <2>1. ASSUME NEW s \in Semaphores, NEW i \in DOMAIN getPending[s], SemaphoreFlushGet(s, i)
        PROVE  \A t \in Timers : reasons[t] # <<>> => reasons'[t] # <<>>
    <3>1. reasons' = WithReason(reasons, getPending[s][i].proc, "SemaphoreGet", s)
      BY <2>1 DEF SemaphoreFlushGet, SetReasons, Getter
    <3>2. getPending[s][i].proc \in Records
      BY PendingEntries DEF TypeOK, Records
    <3>3. [why |-> "SemaphoreGet", obj |-> s] \in Reasons
      BY SemaphoreReasons
    <3> QED
      BY <1>1, <1>2, <3>1, <3>2, <3>3
  <2>2. ASSUME NEW s \in Semaphores, SemaphoreFlushPut(s)
        PROVE  \A t \in Timers : reasons[t] # <<>> => reasons'[t] # <<>>
    <3>1. \/ reasons' = reasons
          \/ reasons' = WithReason(reasons, Head(putPending[s]).proc, "SemaphorePut", s)
      BY <2>2 DEF SemaphoreFlushPut, SetReasons, Abort
    <3>2. Head(putPending[s]).proc \in Records
      BY <2>2, PendingEntries DEF TypeOK, Records, SemaphoreFlushPut
    <3>3. [why |-> "SemaphorePut", obj |-> s] \in Reasons
      BY SemaphoreReasons
    <3> QED
      BY <1>1, <1>2, <3>1, <3>2, <3>3
  <2>3. ASSUME NEW s \in Semaphores, SemaphoreFlushGetDone(s) \/ SemaphoreFlushPutDone(s)
        PROVE  reasons' = reasons
    BY <2>3 DEF SemaphoreFlushGetDone, SemaphoreFlushPutDone
  <2> QED
    BY <1>4, <2>1, <2>2, <2>3 DEF SemaphoreFlush
<1>5. CASE MailboxFlush
  <2>1. ASSUME NEW m \in Mailboxes, NEW i \in DOMAIN getters[m], MailboxTransfer(m, i)
        PROVE  \A t \in Timers : reasons[t] # <<>> => reasons'[t] # <<>>
    <3> DEFINE put == Head(putters[m])
               get == getters[m][i]
               elm == Head(elms[m])
               one == WithReason(reasons, put, "MailboxPut", m)
    <3>1. reasons' = reasons \/ reasons' = WithReason(one, get, "MailboxGet", elm)
      BY <2>1 DEF MailboxTransfer, SetReasons, Abort
    <3>2. put \in Records /\ get \in Records /\ elm \in Elements
      BY <2>1, TransferTyped DEF Records
    <3>3. /\ [why |-> "MailboxPut", obj |-> m] \in Reasons
          /\ [why |-> "MailboxGet", obj |-> elm] \in Reasons
      BY <3>2 DEF Reasons, Agents
    <3>4. one \in [Records -> Seq(Reasons)]
      BY <1>2, <3>2, <3>3, WithReasonAdds
    <3> HIDE DEF put, get, elm
    <3>5. \A t \in Timers : reasons[t] # <<>> => one[t] # <<>>
      BY <1>1, <1>2, <3>2, <3>3
    <3> HIDE DEF one
    <3> QED
      BY <1>1, <3>1, <3>2, <3>3, <3>4, <3>5
  <2>2. ASSUME NEW m \in Mailboxes, MailboxNoPair(m)
        PROVE  reasons' = reasons
    BY <2>2 DEF MailboxNoPair
  <2> QED
    BY <1>5, <2>1, <2>2 DEF MailboxFlush
<1>6. CASE EventFlushNext
  <2>1. ASSUME NEW e \in Events, EventFlush(e)
        PROVE  \A t \in Timers : reasons[t] # <<>> => reasons'[t] # <<>>
    <3>1. reasons' = reasons \/ reasons' = WithReason(reasons, Last(waiting[e]), "Event", e)
      BY <2>1 DEF EventFlush, SetReasons, Abort
    <3>2. Last(waiting[e]) \in Records
      BY <2>1, ListenersTyped DEF EventFlush, Records
    <3>3. [why |-> "Event", obj |-> e] \in Reasons
      BY DEF Reasons, Agents
    <3> QED
      BY <1>1, <1>2, <3>1, <3>2, <3>3
  <2>2. ASSUME NEW e \in Events, EventFlushUnheard(e)
        PROVE  reasons' = reasons
    BY <2>2 DEF EventFlushUnheard
  <2> QED
    BY <1>6, <2>1, <2>2 DEF EventFlushNext
<1> QED
  BY <1>3, <1>4, <1>5, <1>6

\* A timer that is started or restarted gets its reason, one that is stopped or
\* run is not scheduled any more.
LEMMA TimerCallKeepsTimers ==
  ASSUME TypeOK, ScheduledTimerFires, TimerCall
  PROVE  ScheduledTimerFires'
<1>1. PICK t \in Timers :
        \/ \E w \in Processes \cup {NoProcess} : TimerStart(t, w)
        \/ TimerStop(t) \/ TimerRestart(t) \/ TimerWatch(t) \/ TimerWait(t)
  BY DEF TimerCall
<1>2. CASE TimerRestart(t) \/ \E w \in Processes \cup {NoProcess} : TimerStart(t, w)
  <2>1. /\ reasons' = WithReason(reasons, t, "TimerDone", t)
        /\ timerState' = [timerState EXCEPT ![t] = "Running"]
        /\ timerScheduled' = [timerScheduled EXCEPT ![t] = TRUE]
    BY <1>2 DEF TimerStart, TimerRestart, SetReasons
  <2>2. /\ \A q \in Records \ {t} : reasons'[q] = reasons[q]
        /\ reasons'[t] # <<>>
    <3>1. [why |-> "TimerDone", obj |-> t] \in Reasons /\ t \in Records
      BY DEF Reasons, Agents, Records
    <3> QED
      BY <2>1, <3>1, WithReasonAdds DEF TypeOK, SyncTypeOK
  <2> QED
    BY <2>1, <2>2 DEF ScheduledTimerFires, Records, TypeOK, TimerTypeOK
<1>3. CASE TimerStop(t)
  BY <1>3 DEF TimerStop, ScheduledTimerFires, TypeOK, TimerTypeOK
<1>4. CASE TimerWatch(t) \/ TimerWait(t)
  BY <1>4, TimersUntouched DEF TimerWatch, TimerWait
<1> QED
  BY <1>1, <1>2, <1>3, <1>4

LEMMA TimerFlushKeepsTimers ==
  ASSUME TypeOK, ScheduledTimerFires, TimerFlushNext \/ \E t \in Timers : TimerExecute(t)
  PROVE  ScheduledTimerFires'
<1>1. ASSUME NEW t \in Timers, TimerExecute(t)
      PROVE  ScheduledTimerFires'
  <2>1. CASE timerState[t] = "Running" /\ Len(reasons[t]) = 1
    BY <1>1, <2>1 DEF TimerExecute, ScheduledTimerFires, TypeOK, TimerTypeOK, SyncTypeOK, Records
  <2>2. CASE ~ (timerState[t] = "Running" /\ Len(reasons[t]) = 1)
    BY <1>1, <2>2, TimersUntouched DEF TimerExecute, Abort, timerVars
  <2> QED
    BY <2>1, <2>2
<1>2. ASSUME NEW t \in Timers, NEW i \in DOMAIN watchers[t], TimerFlush(t, i)
      PROVE  ScheduledTimerFires'
  <2>1. reasons' = WithReason(reasons, watchers[t][i], "TimerDone", t)
    BY <1>2 DEF TimerFlush, SetReasons
  <2>2. [why |-> "TimerDone", obj |-> t] \in Reasons /\ watchers[t][i] \in Records
    BY WatcherTyped DEF Reasons, Agents, Records
  <2>3. reasons \in [Records -> Seq(Reasons)] /\ Timers \subseteq Records
    BY DEF TypeOK, SyncTypeOK, Records
  <2>4. \A u \in Timers : reasons[u] # <<>> => reasons'[u] # <<>>
    BY <2>1, <2>2, <2>3, WithReasonKeeps
  <2> QED
    BY <1>2, <2>4, TimersUntouched DEF TimerFlush
<1>3. ASSUME NEW t \in Timers, TimerFlushDone(t)
      PROVE  ScheduledTimerFires'
  BY <1>3, TimersUntouched DEF TimerFlushDone, Abort, timerVars
<1> QED
  BY <1>1, <1>2, <1>3 DEF TimerFlushNext

LEMMA FiresStep == TypeOK /\ PairedLists /\ ScheduledTimerFires /\ [Next]_vars => ScheduledTimerFires'
<1> SUFFICES ASSUME TypeOK, PairedLists, ScheduledTimerFires, [Next]_vars
             PROVE  ScheduledTimerFires'
  OBVIOUS
<1>1. CASE RunStep
  BY <1>1, ProcessKeepsTimers, AgentsKeepTimers, TimerCallKeepsTimers, TimerFlushKeepsTimers
     DEF RunStep, agentVars
<1>2. CASE RunEnds \/ TimersEnd \/ EventsEnd \/ SemGetsEnd \/ SemPutsEnd \/ MailboxesEnd
  BY <1>2, TimersUntouched DEF RunEnds, TimersEnd, EventsEnd, SemGetsEnd, SemPutsEnd,
     MailboxesEnd, Enter, timerVars
<1>3. CASE FlushStep
  BY <1>2, <1>3, ProcessKeepsTimers, AgentsKeepTimers, TimerFlushKeepsTimers
     DEF FlushStep, agentVars
<1>4. CASE UNCHANGED vars
  BY <1>4, TimersUntouched DEF vars, baseVars, timerVars
<1> QED
  BY <1>1, <1>2, <1>3, <1>4 DEF Next

\* A timer that counts as scheduled is running, and the reason that will make
\* its record complete it is queued, through any sequence of Start, Stop and
\* Restart and of expiries.
THEOREM TimersFire == Spec => []ScheduledTimerFires
BY Typing, FiresInit, FiresStep, PTL DEF Spec

-----------------------------------------------------------------------------
(* Exclusive wait.                                                         *)

\* ExclusiveWait, of one process in one step.
WokenByItsAgent(p) ==
  Woken(p) /\ IsBlocked(p) /\ phase # "SemPuts" =>
    LET why == Last(reasons'[p]).why
        obj == Last(reasons'[p]).obj
    IN /\ sync'[p] = Free /\ unblocked'[p]
       /\ \/ why = "SemaphoreGet" /\ sync[p] = WaitOn(obj, "get")
          \/ why = "MailboxPut" /\ sync[p] = WaitOn(obj, "put")
          \/ why = "MailboxGet" /\ sync[p] \in {WaitOn(m, "get") : m \in Mailboxes}
          \/ why \in {"Event", "TimerDone"} /\ sync[p] = WaitOn(obj, "none")

ExclusiveStep == \A p \in Processes : WokenByItsAgent(p)

\* Most steps wake nobody.
LEMMA NobodyWoken ==
  ASSUME TypeOK, \A p \in Processes : ~ Woken(p)
  PROVE  ExclusiveStep
BY DEF ExclusiveStep, WokenByItsAgent

LEMMA SameReasons ==
  ASSUME TypeOK, UNCHANGED reasons
  PROVE  ExclusiveStep
<1>1. \A p \in Processes : Len(reasons[p]) \in Nat
  BY LenProperties DEF TypeOK, SyncTypeOK, Records
<1> QED
  BY <1>1, NobodyWoken DEF Woken

\* A process that an agent may wake although it is blocked waits for it, and is
\* free afterwards.
LEMMA ReachableIsFreed ==
  ASSUME TypeOK, NEW p \in Processes, NEW wait, Reachable(p, wait), IsBlocked(p),
         NEW woken, <<p, wait>> \in woken, Unblock(woken)
  PROVE  sync[p] = wait /\ sync'[p] = Free /\ unblocked'[p]
<1>1. p \in Records /\ sync[p] = wait
  BY DEF Reachable, Records
<1> QED
  BY <1>1 DEF Unblock, TypeOK, SyncTypeOK

\* A flush function that wakes one record.
LEMMA OneWoken ==
  ASSUME TypeOK, NEW r \in Records, NEW why, NEW obj, [why |-> why, obj |-> obj] \in Reasons,
         reasons' = WithReason(reasons, r, why, obj),
         NEW p \in Processes, Woken(p)
  PROVE  p = r /\ Last(reasons'[p]) = [why |-> why, obj |-> obj]
<1>1. reasons \in [Records -> Seq(Reasons)] /\ p \in Records /\ Len(reasons[p]) \in Nat
  BY LenProperties DEF TypeOK, SyncTypeOK, Records
<1>2. /\ \A q \in Records \ {r} : reasons'[q] = reasons[q]
      /\ Last(reasons'[r]) = [why |-> why, obj |-> obj]
  BY <1>1, WithReasonAdds
<1> QED
  BY <1>1, <1>2 DEF Woken

LEMMA ProcessStepExclusive ==
  ASSUME TypeOK, ProcessStep \/ FlushProcessesToBlock \/ Advance
  PROVE  ExclusiveStep
<1>1. ASSUME NEW q \in Processes, reasons[q] # <<>>, reasons' = [reasons EXCEPT ![q] = Tail(@)]
      PROVE  ExclusiveStep
  <2> DEFINE rest == Tail(reasons[q])
  <2>1. \A p \in Processes : Len(reasons[p]) \in Nat /\ p \in Records
    BY LenProperties DEF TypeOK, SyncTypeOK, Records
  <2>2. Len(rest) = Len(reasons[q]) - 1
    BY <1>1, HeadTailProperties DEF TypeOK, SyncTypeOK, Records
  <2>3. \A p \in Processes : reasons'[p] = IF p = q THEN rest ELSE reasons[p]
    BY <1>1, <2>1 DEF TypeOK, SyncTypeOK
  <2> HIDE DEF rest
  <2>4. \A p \in Processes : ~ Woken(p)
    BY <2>1, <2>2, <2>3 DEF Woken
  <2> QED
    BY <2>4, NobodyWoken
<1>2. CASE ProcessStep
  <2>1. \/ reasons' = reasons
        \/ \E q \in Processes : reasons[q] # <<>> /\ reasons' = [reasons EXCEPT ![q] = Tail(@)]
    BY <1>2 DEF ProcessStep, Dispatch, DispatchIdle, NextReason, Return, ExecuteOnEdge,
       ReturnOnEdge, EdgeEnds, Wait, TypeOK, SyncTypeOK
  <2> QED
    BY <1>1, <2>1, SameReasons
<1>3. CASE FlushProcessesToBlock \/ Advance
  BY <1>3, SameReasons DEF FlushProcessesToBlock, Advance, Abort
<1> QED
  BY <1>2, <1>3

LEMMA CallExclusive ==
  ASSUME TypeOK, SemaphoreCall \/ MailboxCall \/ EventCall
  PROVE  ExclusiveStep
BY SameReasons DEF SemaphoreCall, SemaphoreGet, SemaphorePut, MailboxCall, MailboxGet,
   MailboxPut, EventCall, EventGet, EventSet

LEMMA SemaphoreFlushExclusive ==
  ASSUME TypeOK, SemaphoreFlush
  PROVE  ExclusiveStep
<1>1. ASSUME NEW s \in Semaphores, NEW i \in DOMAIN getPending[s], SemaphoreFlushGet(s, i),
             NEW p \in Processes, Woken(p), IsBlocked(p)
      PROVE  WokenByItsAgent(p)
  <2> DEFINE get == getPending[s][i].proc
  <2>1. /\ reasons' = WithReason(reasons, get, "SemaphoreGet", s)
        /\ Unblock({<<get, WaitOn(s, "get")>>})
        /\ Reachable(get, WaitOn(s, "get"))
    BY <1>1 DEF SemaphoreFlushGet, SetReasons, Getter, Picked, Grantable
  <2>2. get \in Records /\ [why |-> "SemaphoreGet", obj |-> s] \in Reasons
    BY PendingEntries, SemaphoreReasons DEF TypeOK, Records
  <2> HIDE DEF get
  <2>3. p = get /\ Last(reasons'[p]) = [why |-> "SemaphoreGet", obj |-> s]
    BY <1>1, <2>1, <2>2, OneWoken
  <2>4. sync[p] = WaitOn(s, "get") /\ sync'[p] = Free /\ unblocked'[p]
    BY <1>1, <2>1, <2>3, ReachableIsFreed
  <2> QED
    BY <2>3, <2>4 DEF WokenByItsAgent
<1>2. ASSUME NEW s \in Semaphores, NEW i \in DOMAIN getPending[s], SemaphoreFlushGet(s, i)
      PROVE  ExclusiveStep
  BY <1>1, <1>2 DEF ExclusiveStep, WokenByItsAgent
<1>3. ASSUME NEW s \in Semaphores, SemaphoreFlushPut(s)
      PROVE  ExclusiveStep
  BY <1>3 DEF SemaphoreFlushPut, Flushing, ExclusiveStep, WokenByItsAgent
<1>4. ASSUME NEW s \in Semaphores, SemaphoreFlushGetDone(s) \/ SemaphoreFlushPutDone(s)
      PROVE  ExclusiveStep
  BY <1>4, SameReasons DEF SemaphoreFlushGetDone, SemaphoreFlushPutDone
<1> QED
  BY <1>2, <1>3, <1>4 DEF SemaphoreFlush

\* Of a mailbox both sides are woken; a process that is on both sides gets two
\* reasons, and then was not blocked.
LEMMA MailboxFlushExclusive ==
  ASSUME TypeOK, PairedLists, MailboxFlush
  PROVE  ExclusiveStep
<1>1. ASSUME NEW m \in Mailboxes, NEW i \in DOMAIN getters[m], MailboxTransfer(m, i),
             PutterReachable(m, i), NEW p \in Processes, Woken(p), IsBlocked(p)
      PROVE  WokenByItsAgent(p)
  <2> DEFINE put == Head(putters[m])
             get == getters[m][i]
             elm == Head(elms[m])
             one == WithReason(reasons, put, "MailboxPut", m)
             both == {<<get, WaitOn(m, "get")>>, <<put, WaitOn(m, "put")>>}
  <2>1. /\ reasons' = WithReason(one, get, "MailboxGet", elm)
        /\ Unblock(both)
        /\ Reachable(get, WaitOn(m, "get"))
        /\ Reachable(put, WaitOn(m, "put"))
        /\ ~ (put = get /\ sync[get] = WaitOn(m, "get"))
    BY <1>1 DEF MailboxTransfer, SetReasons, FirstGetter, PutterReachable
  <2>2. put \in Processes /\ get \in Processes /\ elm \in Elements
    BY <1>1, TransferTyped
  <2>3. /\ [why |-> "MailboxPut", obj |-> m] \in Reasons
        /\ [why |-> "MailboxGet", obj |-> elm] \in Reasons
    BY <2>2 DEF Reasons, Agents
  <2>4. /\ reasons \in [Records -> Seq(Reasons)] /\ Processes \subseteq Records
        /\ Len(reasons[p]) \in Nat
    BY LenProperties DEF TypeOK, SyncTypeOK, Records
  <2>5. <<get, WaitOn(m, "get")>> \in both /\ <<put, WaitOn(m, "put")>> \in both
    OBVIOUS
  <2>11. one = WithReason(reasons, put, "MailboxPut", m)
    OBVIOUS
  <2> HIDE DEF put, get, elm, both, one
  <2>6. /\ one \in [Records -> Seq(Reasons)]
        /\ \A q \in Records \ {put} : one[q] = reasons[q]
        /\ Last(one[put]) = [why |-> "MailboxPut", obj |-> m]
    <3>1. put \in Records
      BY <2>2, <2>4
    <3> QED
      BY <2>3, <2>4, <2>11, <3>1, WithReasonAdds, SMTT(40)
  <2>7. /\ \A q \in Records \ {get} : reasons'[q] = one[q]
        /\ Last(reasons'[get]) = [why |-> "MailboxGet", obj |-> elm]
    <3>1. get \in Records /\ reasons' = WithReason(one, get, "MailboxGet", elm)
      BY <2>1, <2>2, <2>4
    <3> QED
      BY <2>3, <2>6, <3>1, WithReasonAdds
  <2>8. CASE p = get
    <3>1. sync[p] = WaitOn(m, "get") /\ sync'[p] = Free /\ unblocked'[p]
      BY <1>1, <2>1, <2>5, <2>8, ReachableIsFreed
    <3>2. Last(reasons'[p]).why = "MailboxGet"
      BY <2>7, <2>8
    <3> QED
      BY <3>1, <3>2 DEF WokenByItsAgent
  <2>9. CASE p # get
    <3>1. p = put
      BY <1>1, <2>4, <2>6, <2>7, <2>9 DEF Woken
    <3>2. sync[p] = WaitOn(m, "put") /\ sync'[p] = Free /\ unblocked'[p]
      BY <1>1, <2>1, <2>5, <3>1, ReachableIsFreed
    <3>3. Last(reasons'[p]) = [why |-> "MailboxPut", obj |-> m]
      BY <2>4, <2>6, <2>7, <2>9, <3>1
    <3> QED
      BY <3>2, <3>3 DEF WokenByItsAgent
  <2> QED
    BY <2>8, <2>9
<1>2. ASSUME NEW m \in Mailboxes, NEW i \in DOMAIN getters[m], MailboxTransfer(m, i)
      PROVE  ExclusiveStep
  <2>1. CASE PutterReachable(m, i)
    BY <1>1, <1>2, <2>1 DEF ExclusiveStep, WokenByItsAgent
  <2>2. CASE ~ PutterReachable(m, i)
    BY <1>2, <2>2, SameReasons DEF MailboxTransfer, Abort
  <2> QED
    BY <2>1, <2>2
<1>3. ASSUME NEW m \in Mailboxes, MailboxNoPair(m)
      PROVE  ExclusiveStep
  BY <1>3, SameReasons DEF MailboxNoPair
<1> QED
  BY <1>2, <1>3 DEF MailboxFlush

\* Event::Flush unblocks every process that waits and reaches the last one.
LEMMA EventFlushExclusive ==
  ASSUME TypeOK, EventFlushNext
  PROVE  ExclusiveStep
<1>1. ASSUME NEW e \in Events, EventFlush(e), ~ EventStuck(e),
             NEW p \in Processes, Woken(p), IsBlocked(p)
      PROVE  WokenByItsAgent(p)
  <2> DEFINE heard == Last(waiting[e])
             woken == {<<q, WaitOn(e, "none")>> : q \in ToSet(waiting[e])}
  <2>1. reasons' = WithReason(reasons, heard, "Event", e) /\ Unblock(woken)
    BY <1>1 DEF EventFlush, SetReasons
  <2>2. PICK i \in DOMAIN waiting[e] : waiting[e][i] = heard
    BY <1>1, ListenersTyped DEF EventFlush
  <2>3. Reachable(heard, WaitOn(e, "none"))
    BY <1>1, <2>2 DEF EventStuck
  <2>4. <<heard, WaitOn(e, "none")>> \in woken
    BY <2>2 DEF ToSet
  <2>5. heard \in Records /\ [why |-> "Event", obj |-> e] \in Reasons
    BY <1>1, ListenersTyped DEF EventFlush, Records, Reasons, Agents
  <2> HIDE DEF heard, woken
  <2>6. p = heard /\ Last(reasons'[p]) = [why |-> "Event", obj |-> e]
    BY <1>1, <2>1, <2>5, OneWoken
  <2>7. sync[p] = WaitOn(e, "none") /\ sync'[p] = Free /\ unblocked'[p]
    BY <1>1, <2>1, <2>3, <2>4, <2>6, ReachableIsFreed
  <2> QED
    BY <2>6, <2>7 DEF WokenByItsAgent
<1>2. ASSUME NEW e \in Events, EventFlush(e)
      PROVE  ExclusiveStep
  <2>1. CASE EventStuck(e)
    BY <1>2, <2>1, SameReasons DEF EventFlush, Abort
  <2>2. CASE ~ EventStuck(e)
    BY <1>1, <1>2, <2>2 DEF ExclusiveStep, WokenByItsAgent
  <2> QED
    BY <2>1, <2>2
<1>3. ASSUME NEW e \in Events, EventFlushUnheard(e)
      PROVE  ExclusiveStep
  BY <1>3, SameReasons DEF EventFlushUnheard
<1> QED
  BY <1>2, <1>3 DEF EventFlushNext

\* Calls push reasons on records of timers only.
LEMMA TimerExclusive ==
  ASSUME TypeOK, TimerCall \/ TimerFlushNext \/ \E t \in Timers : TimerExecute(t)
  PROVE  ExclusiveStep
<1> USE DEF ExclusiveStep
<1>1. ASSUME NEW t \in Timers, reasons' = WithReason(reasons, t, "TimerDone", t)
      PROVE  ExclusiveStep
  <2>1. t \in Records /\ t \notin Processes /\ [why |-> "TimerDone", obj |-> t] \in Reasons
    BY ProcessSyncAssumption DEF Records, Reasons, Agents
  <2>2. \A p \in Processes : ~ Woken(p)
    BY <1>1, <2>1, OneWoken
  <2> QED
    BY <2>2, NobodyWoken
<1>2. CASE TimerCall
  <2>1. PICK t \in Timers :
          \/ \E w \in Processes \cup {NoProcess} : TimerStart(t, w)
          \/ TimerStop(t) \/ TimerRestart(t) \/ TimerWatch(t) \/ TimerWait(t)
    BY <1>2 DEF TimerCall
  <2>2. reasons' = reasons \/ reasons' = WithReason(reasons, t, "TimerDone", t)
    BY <2>1 DEF TimerStart, TimerStop, TimerRestart, TimerWatch, TimerWait, SetReasons
  <2> QED
    BY <1>1, <2>2, SameReasons
<1>3. ASSUME NEW t \in Timers, NEW i \in DOMAIN watchers[t], TimerFlush(t, i),
             NEW p \in Processes, Woken(p), IsBlocked(p)
      PROVE  WokenByItsAgent(p)
  <2> DEFINE watcher == watchers[t][i]
  <2>1. /\ reasons' = WithReason(reasons, watcher, "TimerDone", t)
        /\ Unblock({<<watcher, WaitOn(t, "none")>>})
        /\ Reachable(watcher, WaitOn(t, "none"))
    BY <1>3 DEF TimerFlush, SetReasons
  <2>2. watcher \in Records /\ [why |-> "TimerDone", obj |-> t] \in Reasons
    BY WatcherTyped DEF Records, Reasons, Agents
  <2> HIDE DEF watcher
  <2>3. p = watcher /\ Last(reasons'[p]) = [why |-> "TimerDone", obj |-> t]
    BY <1>3, <2>1, <2>2, OneWoken
  <2>4. sync[p] = WaitOn(t, "none") /\ sync'[p] = Free /\ unblocked'[p]
    BY <1>3, <2>1, <2>3, ReachableIsFreed
  <2> QED
    BY <2>3, <2>4 DEF WokenByItsAgent
<1>4. ASSUME NEW t \in Timers, NEW i \in DOMAIN watchers[t], TimerFlush(t, i)
      PROVE  ExclusiveStep
  BY <1>3, <1>4 DEF WokenByItsAgent
<1>5. ASSUME NEW t \in Timers, TimerFlushDone(t)
      PROVE  ExclusiveStep
  BY <1>5, SameReasons DEF TimerFlushDone
<1>6. ASSUME NEW t \in Timers, TimerExecute(t)
      PROVE  ExclusiveStep
  <2>1. reasons' = reasons \/ reasons' = [reasons EXCEPT ![t] = <<>>]
    BY <1>6 DEF TimerExecute, Abort
  <2>2. \A p \in Processes : reasons'[p] = reasons[p] /\ Len(reasons[p]) \in Nat
    BY <2>1, LenProperties, ProcessSyncAssumption DEF TypeOK, SyncTypeOK, Records
  <2> QED
    BY <2>2, NobodyWoken DEF Woken
<1> QED
  BY <1>2, <1>4, <1>5, <1>6 DEF TimerFlushNext

LEMMA ExclusiveNext ==
  ASSUME TypeOK, PairedLists, [Next]_vars
  PROVE  ExclusiveStep
<1>1. CASE RunStep
  BY <1>1, ProcessStepExclusive, CallExclusive, TimerExclusive DEF RunStep
<1>2. CASE RunEnds \/ TimersEnd \/ EventsEnd \/ SemGetsEnd \/ SemPutsEnd \/ MailboxesEnd
  BY <1>2, SameReasons
     DEF RunEnds, TimersEnd, EventsEnd, SemGetsEnd, SemPutsEnd, MailboxesEnd, Enter
<1>3. CASE FlushStep
  BY <1>2, <1>3, ProcessStepExclusive, SemaphoreFlushExclusive, MailboxFlushExclusive,
     EventFlushExclusive, TimerExclusive DEF FlushStep
<1>4. CASE UNCHANGED vars
  BY <1>4, SameReasons DEF vars, baseVars
<1> QED
  BY <1>1, <1>2, <1>3, <1>4 DEF Next

\* A blocked process is woken only by the agent, and by the side of it, that it
\* waits for, and that step frees it: for any mix of semaphores, mailboxes,
\* events and timers that the process has asked before it blocked.
THEOREM WaitIsExclusive == Spec => ExclusiveWait
<1>1. TypeOK /\ PairedLists /\ [Next]_vars => [ExclusiveStep]_vars
  BY ExclusiveNext
<1>2. Spec => [][ExclusiveStep]_vars
  BY <1>1, Typing, PTL DEF Spec
<1> QED
  BY <1>2 DEF ExclusiveWait, ExclusiveStep, WokenByItsAgent

-----------------------------------------------------------------------------
(* Unblocked processes.                                                    *)

SoftwareRunsInStep7 == phase # "Run" => current \notin Software

WakeInv == UnblockedWillRun /\ SoftwareRunsInStep7

\* A step that takes no reasons away, and gives one to every software process
\* that it unblocks.
LEMMA WakeupsKept ==
  ASSUME TypeOK, WakeInv, fault = "none", UNCHANGED current,
         phase' # "Run" => phase # "Run" \/ current = NoProcess,
         fault' = "none" => \A p \in Software :
           /\ unblocked'[p] => unblocked[p] \/ reasons'[p] # <<>>
           /\ reasons[p] # <<>> => reasons'[p] # <<>>
  PROVE  WakeInv'
BY ProcessSyncAssumption DEF WakeInv, UnblockedWillRun, SoftwareRunsInStep7, Software

LEMMA WakeInit == Init => WakeInv
BY ProcessSyncAssumption
   DEF Init, ProcessSyncInit, WakeInv, UnblockedWillRun, SoftwareRunsInStep7, Software, Records

LEMMA ProcessKeepsWakeups ==
  ASSUME TypeOK, WakeInv, ProcessStep \/ FlushProcessesToBlock \/ Advance
  PROVE  WakeInv'
<1> USE DEF WakeInv, UnblockedWillRun, SoftwareRunsInStep7, Software, Records, TypeOK, SyncTypeOK
<1>1. ASSUME NEW p \in Processes, Dispatch(p)
      PROVE  WakeInv'
  BY <1>1, ProcessSyncAssumption DEF Dispatch, Running, blockVars, loopVars
<1>2. ASSUME NEW r \in Records, DispatchIdle(r)
      PROVE  WakeInv'
  BY <1>2 DEF DispatchIdle, Running, runVars, loopVars
<1>3. CASE NextReason
  BY <1>3 DEF NextReason, Running, blockVars, loopVars
<1>4. CASE Return
  BY <1>4, ProcessSyncAssumption DEF Return, Running, loopVars
<1>5. ASSUME NEW p \in Synchronous, ExecuteOnEdge(p)
      PROVE  WakeInv'
  BY <1>5, ProcessSyncAssumption DEF ExecuteOnEdge, OnClock, blockVars, loopVars
<1>6. CASE ReturnOnEdge
  BY <1>6, ProcessSyncAssumption DEF ReturnOnEdge, OnClock, blockVars, loopVars
<1>7. CASE EdgeEnds
  BY <1>7 DEF EdgeEnds, OnClock, blockVars, runVars
<1>8. ASSUME NEW w \in ClientWaits, Wait(w)
      PROVE  WakeInv'
  BY <1>8 DEF Wait, Call, Running, OnClock, loopVars
<1>9. CASE FlushProcessesToBlock
  BY <1>9 DEF FlushProcessesToBlock, Abort, blockVars, runVars, loopVars
<1>10. CASE Advance
  BY <1>10 DEF Advance, blockVars, runVars
<1> QED
  BY <1>1, <1>2, <1>3, <1>4, <1>5, <1>6, <1>7, <1>8, <1>9, <1>10 DEF ProcessStep

\* Unblock, of one record or two.
LEMMA OneUnblocked ==
  ASSUME NEW r, NEW wait, Unblock({<<r, wait>>})
  PROVE  \A p \in Processes : unblocked'[p] => unblocked[p] \/ p = r
BY DEF Unblock, Records

LEMMA TwoUnblocked ==
  ASSUME NEW r, NEW waitR, NEW s, NEW waitS, Unblock({<<r, waitR>>, <<s, waitS>>})
  PROVE  \A p \in Processes : unblocked'[p] => unblocked[p] \/ p = r \/ p = s
BY DEF Unblock, Records

LEMMA CallKeepsWakeups ==
  ASSUME TypeOK, WakeInv, SemaphoreCall \/ MailboxCall \/ EventCall \/ TimerCall
  PROVE  WakeInv'
<1>1. UNCHANGED <<current, phase, unblocked>> /\ fault = "none"
  BY DEF SemaphoreCall, SemaphoreGet, SemaphorePut, MailboxCall, MailboxGet, MailboxPut,
     EventCall, EventGet, EventSet, TimerCall, TimerStart, TimerStop, TimerRestart, TimerWatch,
     TimerWait, Call, Running, OnClock, blockVars, loopVars
<1>2. reasons' = reasons \/ \E t \in Timers : reasons' = WithReason(reasons, t, "TimerDone", t)
  BY DEF SemaphoreCall, SemaphoreGet, SemaphorePut, MailboxCall, MailboxGet, MailboxPut,
     EventCall, EventGet, EventSet, TimerCall, TimerStart, TimerStop, TimerRestart, TimerWatch,
     TimerWait, SetReasons
<1>3. \A t \in Timers : t \in Records /\ [why |-> "TimerDone", obj |-> t] \in Reasons
  BY DEF Records, Reasons, Agents
<1>4. reasons \in [Records -> Seq(Reasons)]
  BY DEF TypeOK, SyncTypeOK
<1>5. \A p \in Software : reasons[p] # <<>> => reasons'[p] # <<>>
  BY <1>2, <1>3, <1>4, WithReasonKeeps DEF Software, Records
<1> QED
  BY <1>1, <1>5, WakeupsKept

LEMMA SemaphoreFlushKeepsWakeups ==
  ASSUME TypeOK, WakeInv, SemaphoreFlush
  PROVE  WakeInv'
<1>1. UNCHANGED <<current, phase>> /\ fault = "none"
  BY DEF SemaphoreFlush, SemaphoreFlushGet, SemaphoreFlushGetDone, SemaphoreFlushPut,
     SemaphoreFlushPutDone, Flushing, runVars
<1>2. reasons \in [Records -> Seq(Reasons)] /\ Software \subseteq Records /\ Software \subseteq Processes
  BY DEF TypeOK, SyncTypeOK, Records, Software
<1>3. ASSUME NEW s \in Semaphores, NEW i \in DOMAIN getPending[s], SemaphoreFlushGet(s, i)
      PROVE  WakeInv'
  <2> DEFINE get == getPending[s][i].proc
  <2>1. /\ reasons' = WithReason(reasons, get, "SemaphoreGet", s)
        /\ Unblock({<<get, WaitOn(s, "get")>>})
    BY <1>3 DEF SemaphoreFlushGet, SetReasons, Getter
  <2>2. get \in Records /\ [why |-> "SemaphoreGet", obj |-> s] \in Reasons
    BY PendingEntries, SemaphoreReasons DEF TypeOK, Records
  <2> HIDE DEF get
  <2>3. reasons'[get] # <<>>
    BY <1>2, <2>1, <2>2, WithReasonAdds, SMTT(40)
  <2>4. \A p \in Software : reasons[p] # <<>> => reasons'[p] # <<>>
    BY <1>2, <2>1, <2>2, WithReasonKeeps
  <2>5. \A p \in Software : unblocked'[p] => unblocked[p] \/ p = get
    BY <1>2, <2>1, OneUnblocked
  <2> QED
    BY <1>1, <2>3, <2>4, <2>5, WakeupsKept
<1>4. ASSUME NEW s \in Semaphores, SemaphoreFlushPut(s)
      PROVE  WakeInv'
  <2> DEFINE put == Head(putPending[s]).proc
  <2>1. /\ reasons' = reasons \/ reasons' = WithReason(reasons, put, "SemaphorePut", s)
        /\ UNCHANGED unblocked
    BY <1>4 DEF SemaphoreFlushPut, SetReasons, Abort, blockVars
  <2>2. put \in Records /\ [why |-> "SemaphorePut", obj |-> s] \in Reasons
    BY <1>4, PendingEntries, SemaphoreReasons DEF TypeOK, Records, SemaphoreFlushPut
  <2> HIDE DEF put
  <2>3. \A p \in Software : reasons[p] # <<>> => reasons'[p] # <<>>
    BY <1>2, <2>1, <2>2, WithReasonKeeps
  <2> QED
    BY <1>1, <2>1, <2>3, WakeupsKept
<1>5. ASSUME NEW s \in Semaphores, SemaphoreFlushGetDone(s) \/ SemaphoreFlushPutDone(s)
      PROVE  WakeInv'
  BY <1>1, <1>5, WakeupsKept DEF SemaphoreFlushGetDone, SemaphoreFlushPutDone, blockVars
<1> QED
  BY <1>3, <1>4, <1>5 DEF SemaphoreFlush

LEMMA MailboxFlushKeepsWakeups ==
  ASSUME TypeOK, PairedLists, WakeInv, MailboxFlush
  PROVE  WakeInv'
<1>1. UNCHANGED <<current, phase>> /\ fault = "none"
  BY DEF MailboxFlush, MailboxTransfer, MailboxNoPair, Flushing, runVars
<1>2. reasons \in [Records -> Seq(Reasons)] /\ Software \subseteq Records /\ Software \subseteq Processes
  BY DEF TypeOK, SyncTypeOK, Records, Software
<1>3. ASSUME NEW m \in Mailboxes, NEW i \in DOMAIN getters[m], MailboxTransfer(m, i)
      PROVE  WakeInv'
  <2> DEFINE put == Head(putters[m])
             get == getters[m][i]
             elm == Head(elms[m])
             one == WithReason(reasons, put, "MailboxPut", m)
  <2>1. /\ Unblock({<<get, WaitOn(m, "get")>>, <<put, WaitOn(m, "put")>>})
        /\ fault' = "none" => reasons' = WithReason(one, get, "MailboxGet", elm)
    BY <1>3 DEF MailboxTransfer, SetReasons, Abort
  <2>2. put \in Records /\ get \in Records /\ elm \in Elements
    BY <1>3, TransferTyped DEF Records
  <2>3. /\ [why |-> "MailboxPut", obj |-> m] \in Reasons
        /\ [why |-> "MailboxGet", obj |-> elm] \in Reasons
    BY <2>2 DEF Reasons, Agents
  <2>4. one = WithReason(reasons, put, "MailboxPut", m)
    OBVIOUS
  <2> HIDE DEF put, get, elm, one
  <2>5. one \in [Records -> Seq(Reasons)] /\ one[put] # <<>>
    BY <1>2, <2>2, <2>3, <2>4, WithReasonAdds
  <2>6. \A p \in Software : reasons[p] # <<>> => one[p] # <<>>
    BY <1>2, <2>2, <2>3, <2>4, WithReasonKeeps
  <2>7. ASSUME fault' = "none"
        PROVE  reasons'[get] # <<>> /\ \A p \in Records : one[p] # <<>> => reasons'[p] # <<>>
    <3>1. reasons' = WithReason(one, get, "MailboxGet", elm)
      BY <2>1, <2>7
    <3>2. reasons'[get] # <<>>
      BY <2>2, <2>3, <2>5, <3>1, WithReasonAdds
    <3>3. \A p \in Records : one[p] # <<>> => reasons'[p] # <<>>
      BY <2>2, <2>3, <2>5, <3>1, WithReasonKeeps
    <3> QED
      BY <3>2, <3>3
  <2>8. \A p \in Software : unblocked'[p] => unblocked[p] \/ p = get \/ p = put
    BY <1>2, <2>1, TwoUnblocked
  <2> QED
    BY <1>1, <1>2, <2>2, <2>5, <2>6, <2>7, <2>8, WakeupsKept
<1>4. ASSUME NEW m \in Mailboxes, MailboxNoPair(m)
      PROVE  WakeInv'
  BY <1>1, <1>4, WakeupsKept DEF MailboxNoPair, blockVars
<1> QED
  BY <1>3, <1>4 DEF MailboxFlush

LEMMA TimerFlushKeepsWakeups ==
  ASSUME TypeOK, WakeInv, TimerFlushNext \/ \E t \in Timers : TimerExecute(t)
  PROVE  WakeInv'
<1>1. UNCHANGED <<current, phase>> /\ fault = "none"
  BY DEF TimerFlushNext, TimerFlush, TimerFlushDone, TimerExecute, AtTimer, Running, runVars, loopVars
<1>2. reasons \in [Records -> Seq(Reasons)] /\ Software \subseteq Records /\ Software \subseteq Processes
  BY DEF TypeOK, SyncTypeOK, Records, Software
<1>3. ASSUME NEW t \in Timers, NEW i \in DOMAIN watchers[t], TimerFlush(t, i)
      PROVE  WakeInv'
  <2> DEFINE watcher == watchers[t][i]
  <2>1. /\ reasons' = WithReason(reasons, watcher, "TimerDone", t)
        /\ Unblock({<<watcher, WaitOn(t, "none")>>})
    BY <1>3 DEF TimerFlush, SetReasons
  <2>2. watcher \in Records /\ [why |-> "TimerDone", obj |-> t] \in Reasons
    BY WatcherTyped DEF Records, Reasons, Agents
  <2> HIDE DEF watcher
  <2>3. reasons'[watcher] # <<>>
    BY <1>2, <2>1, <2>2, WithReasonAdds, SMTT(40)
  <2>4. \A p \in Software : reasons[p] # <<>> => reasons'[p] # <<>>
    BY <1>2, <2>1, <2>2, WithReasonKeeps
  <2>5. \A p \in Software : unblocked'[p] => unblocked[p] \/ p = watcher
    BY <1>2, <2>1, OneUnblocked
  <2> QED
    BY <1>1, <2>3, <2>4, <2>5, WakeupsKept
<1>4. ASSUME NEW t \in Timers, TimerFlushDone(t)
      PROVE  WakeInv'
  BY <1>1, <1>4, WakeupsKept DEF TimerFlushDone, blockVars
<1>5. ASSUME NEW t \in Timers, TimerExecute(t)
      PROVE  WakeInv'
  <2>1. /\ reasons' = reasons \/ reasons' = [reasons EXCEPT ![t] = <<>>]
        /\ unblocked' = unblocked \/ unblocked' = [unblocked EXCEPT ![t] = FALSE]
    BY <1>5 DEF TimerExecute, Abort
  <2>2. \A p \in Software : reasons'[p] = reasons[p] /\ unblocked'[p] = unblocked[p]
    BY <1>2, <2>1, ProcessSyncAssumption DEF TypeOK, SyncTypeOK
  <2> QED
    BY <1>1, <2>2, WakeupsKept
<1> QED
  BY <1>3, <1>4, <1>5 DEF TimerFlushNext

LEMMA WakeStep ==
  ASSUME TypeOK, PairedLists, WakeInv, Events = {}, [Next]_vars
  PROVE  WakeInv'
<1>1. CASE RunStep
  BY <1>1, ProcessKeepsWakeups, CallKeepsWakeups, TimerFlushKeepsWakeups DEF RunStep
<1>2. CASE RunEnds \/ TimersEnd \/ EventsEnd \/ SemGetsEnd \/ SemPutsEnd \/ MailboxesEnd
  <2>1. /\ UNCHANGED <<current, reasons, unblocked>> /\ fault = "none"
        /\ phase # "Run" \/ current = NoProcess
    BY <1>2 DEF RunEnds, TimersEnd, EventsEnd, SemGetsEnd, SemPutsEnd, MailboxesEnd, Enter,
       blockVars, runVars
  <2> QED
    BY <2>1, WakeupsKept
<1>3. CASE FlushStep
  <2>1. ~ EventFlushNext
    BY DEF EventFlushNext
  <2> QED
    BY <1>2, <1>3, <2>1, ProcessKeepsWakeups, SemaphoreFlushKeepsWakeups,
       MailboxFlushKeepsWakeups, TimerFlushKeepsWakeups DEF FlushStep
<1>4. CASE UNCHANGED vars
  BY <1>4 DEF vars, baseVars, blockVars, runVars, loopVars, WakeInv, UnblockedWillRun,
     SoftwareRunsInStep7
<1> QED
  BY <1>1, <1>2, <1>3, <1>4 DEF Next

\* A process that was unblocked, and that no other agent may wake until it has
\* run, has a reason to run: semaphores, mailboxes and timers never unblock one
\* for nothing.  (Events do: Event::Flush unblocks all, and one gets a reason.)
THEOREM UnblockedHaveReasons ==
  ASSUME Events = {}
  PROVE  Spec => []UnblockedWillRun
<1>1. TypeOK /\ PairedLists /\ WakeInv /\ [Next]_vars => WakeInv'
  BY WakeStep
<1>2. WakeInv => UnblockedWillRun
  BY DEF WakeInv
<1> QED
  BY <1>1, <1>2, Typing, WakeInit, PTL DEF Spec

-----------------------------------------------------------------------------
(* A mailbox hands over exactly what was put, once, in order and with its  *)
(* putter.  MailboxFIFO is inductive together with the types; the work is  *)
(* in the two lists the code keeps, which must be appended to and          *)
(* shortened in step.                                                      *)

PutEntries == Processes \X Elements

LEMMA PairedTyped ==
  ASSUME NEW ps \in Seq(Processes), NEW es \in Seq(Elements), Len(ps) = Len(es)
  PROVE  /\ Paired(ps, es) \in Seq(PutEntries)
         /\ Len(Paired(ps, es)) = Len(ps)
         /\ \A i \in 1..Len(ps) : Paired(ps, es)[i] = <<ps[i], es[i]>>
<1>1. /\ Len(ps) \in Nat /\ DOMAIN ps = 1..Len(ps)
      /\ \A i \in 1..Len(ps) : ps[i] \in Processes /\ es[i] \in Elements
  BY LenProperties
<1>2. Paired(ps, es) = [i \in 1..Len(ps) |-> <<ps[i], es[i]>>]
  BY <1>1 DEF Paired
<1>3. [i \in 1..Len(ps) |-> <<ps[i], es[i]>>] \in [1..Len(ps) -> PutEntries]
  BY <1>1 DEF PutEntries
<1>4. Paired(ps, es) \in Seq(PutEntries)
  BY <1>1, <1>2, <1>3, SeqDef
<1>5. DOMAIN Paired(ps, es) = 1..Len(ps)
  BY <1>2
<1>6. Len(Paired(ps, es)) = Len(ps)
  BY <1>1, <1>4, <1>5, LenProperties
<1> QED
  BY <1>2, <1>4, <1>6

LEMMA PairedAppend ==
  ASSUME NEW ps \in Seq(Processes), NEW es \in Seq(Elements), Len(ps) = Len(es),
         NEW p \in Processes, NEW e \in Elements
  PROVE  Paired(Append(ps, p), Append(es, e)) = Append(Paired(ps, es), <<p, e>>)
<1> DEFINE more == Append(ps, p)
           moreElms == Append(es, e)
           left == Paired(more, moreElms)
           right == Append(Paired(ps, es), <<p, e>>)
           n == Len(ps)
<1>1. /\ n \in Nat
      /\ more \in Seq(Processes) /\ Len(more) = n + 1
      /\ \A i \in 1..n : more[i] = ps[i]
      /\ more[n + 1] = p
  BY AppendProperties, LenProperties
<1>2. /\ moreElms \in Seq(Elements) /\ Len(moreElms) = n + 1
      /\ \A i \in 1..n : moreElms[i] = es[i]
      /\ moreElms[n + 1] = e
  BY AppendProperties
<1>3. /\ Paired(ps, es) \in Seq(PutEntries) /\ Len(Paired(ps, es)) = n
      /\ \A i \in 1..n : Paired(ps, es)[i] = <<ps[i], es[i]>>
  BY PairedTyped
<1> HIDE DEF more, moreElms
<1>4. /\ left \in Seq(PutEntries) /\ Len(left) = n + 1
      /\ \A i \in 1..n + 1 : left[i] = <<more[i], moreElms[i]>>
  BY <1>1, <1>2, PairedTyped
<1>5. <<p, e>> \in PutEntries
  BY DEF PutEntries
<1>6. /\ right \in Seq(PutEntries) /\ Len(right) = n + 1
      /\ \A i \in 1..n : right[i] = Paired(ps, es)[i]
      /\ right[n + 1] = <<p, e>>
  BY <1>3, <1>5, AppendProperties, SMTT(40)
<1> HIDE DEF left, right, n
<1>7. \A i \in 1..n + 1 : left[i] = right[i]
  <2> TAKE i \in 1..n + 1
  <2>1. CASE i \in 1..n
    BY <1>1, <1>2, <1>3, <1>4, <1>6, <2>1, ZenonT(60)
  <2>2. CASE i = n + 1
    BY <1>1, <1>2, <1>4, <1>6, <2>2
  <2> QED
    BY <1>1, <2>1, <2>2
<1>8. left = right
  BY <1>4, <1>6, <1>7, SeqEqual
<1> QED
  BY <1>8 DEF left, right, more, moreElms

LEMMA PairedTail ==
  ASSUME NEW ps \in Seq(Processes), NEW es \in Seq(Elements), Len(ps) = Len(es), ps # <<>>
  PROVE  Paired(ps, es) = <<<<Head(ps), Head(es)>>>> \o Paired(Tail(ps), Tail(es))
<1> DEFINE first == <<Head(ps), Head(es)>>
           rest == Paired(Tail(ps), Tail(es))
           all == Paired(ps, es)
           n == Len(ps)
<1>1. n \in Nat \ {0} /\ es # <<>>
  BY EmptySeq
<1>2. /\ Tail(ps) \in Seq(Processes) /\ Len(Tail(ps)) = n - 1
      /\ Tail(es) \in Seq(Elements) /\ Len(Tail(es)) = n - 1
      /\ \A i \in 1..n - 1 : Tail(ps)[i] = ps[i + 1] /\ Tail(es)[i] = es[i + 1]
  BY <1>1, HeadTailProperties
<1>3. Head(ps) = ps[1] /\ Head(es) = es[1] /\ ps[1] \in Processes /\ es[1] \in Elements
  BY <1>1, LenProperties
<1>4. first \in PutEntries
  BY <1>3 DEF PutEntries
<1>5. /\ rest \in Seq(PutEntries) /\ Len(rest) = n - 1
      /\ \A i \in 1..n - 1 : rest[i] = <<ps[i + 1], es[i + 1]>>
  <2>1. \A i \in 1..n - 1 : rest[i] = <<Tail(ps)[i], Tail(es)[i]>>
    BY <1>2, PairedTyped
  <2> QED
    BY <1>2, <2>1, PairedTyped
<1>6. /\ all \in Seq(PutEntries) /\ Len(all) = n
      /\ \A i \in 1..n : all[i] = <<ps[i], es[i]>>
  BY PairedTyped
<1>7. <<first>> \in Seq(PutEntries) /\ Len(<<first>>) = 1 /\ <<first>>[1] = first
  BY <1>4
<1> HIDE DEF rest, all, first, n
<1>8. /\ <<first>> \o rest \in Seq(PutEntries) /\ Len(<<first>> \o rest) = n
      /\ \A i \in 1..n : (<<first>> \o rest)[i] = IF i <= 1 THEN first ELSE rest[i - 1]
  BY <1>1, <1>5, <1>7, ConcatProperties
<1>9. \A i \in 1..n : all[i] = (<<first>> \o rest)[i]
  <2> TAKE i \in 1..n
  <2>1. CASE i = 1
    BY <1>1, <1>3, <1>6, <1>8, <2>1 DEF first
  <2>2. CASE i # 1
    <3>1. i - 1 \in 1..n - 1 /\ (i - 1) + 1 = i
      BY <1>1, <2>2
    <3>2. rest[i - 1] = <<ps[i], es[i]>>
      BY <1>5, <3>1
    <3>3. (<<first>> \o rest)[i] = rest[i - 1]
      BY <1>1, <1>8, <2>2
    <3> QED
      BY <1>6, <3>2, <3>3
  <2> QED
    BY <2>1, <2>2
<1>10. all = <<first>> \o rest
  BY <1>6, <1>8, <1>9, SeqEqual
<1> QED
  BY <1>10 DEF all, first, rest

-----------------------------------------------------------------------------

LEMMA FIFOInit == Init => MailboxFIFO
<1> SUFFICES ASSUME Init, NEW m \in Mailboxes
             PROVE  /\ Len(putters[m]) = Len(elms[m])
                    /\ Len(putters[m]) <= MailboxMax[m]
                    /\ sent[m] = delivered[m] \o Paired(putters[m], elms[m])
  BY DEF MailboxFIFO
<1>1. putters[m] = <<>> /\ elms[m] = <<>> /\ sent[m] = <<>> /\ delivered[m] = <<>>
  BY DEF Init, MailboxInit
<1>2. <<>> \in Seq(Processes) /\ <<>> \in Seq(Elements) /\ Len(<<>>) = 0
  BY EmptySeq
<1>3. Paired(<<>>, <<>>) \in Seq(PutEntries) /\ Len(Paired(<<>>, <<>>)) = 0
  BY <1>2, PairedTyped
<1>4. Paired(<<>>, <<>>) = <<>>
  BY <1>3, EmptySeq
<1>5. <<>> = <<>> \o <<>>
  BY <1>2, ConcatEmptySeq
<1> QED
  BY <1>1, <1>2, <1>4, <1>5, MailboxAssumption

\* Put adds an entry at the end of what was sent and of what waits.
LEMMA PutKeepsOrder ==
  ASSUME TypeOK, MailboxFIFO, NEW m \in Mailboxes, NEW e \in Elements, MailboxPut(m, e)
  PROVE  MailboxFIFO'
<1>1. CASE Len(putters[m]) = MailboxMax[m]
  BY <1>1 DEF MailboxPut, Full, MailboxFIFO, mailboxVars
<1>2. CASE Len(putters[m]) # MailboxMax[m]
  <2> DEFINE waits == Paired(putters[m], elms[m])
             entry == <<current, e>>
  <2>1. /\ putters' = [putters EXCEPT ![m] = Append(@, current)]
        /\ elms' = [elms EXCEPT ![m] = Append(@, e)]
        /\ sent' = [sent EXCEPT ![m] = Append(@, entry)]
        /\ UNCHANGED delivered
    BY <1>2 DEF MailboxPut, Full
  <2>2. /\ putters[m] \in Seq(Processes) /\ elms[m] \in Seq(Elements)
        /\ sent[m] \in Seq(PutEntries) /\ delivered[m] \in Seq(PutEntries)
        /\ current \in Processes
    BY CallTyped DEF MailboxPut, TypeOK, MailboxTypeOK, PutEntries
  <2>3. /\ Len(putters[m]) = Len(elms[m]) /\ Len(putters[m]) <= MailboxMax[m]
        /\ sent[m] = delivered[m] \o waits
    BY DEF MailboxFIFO
  <2>4. waits \in Seq(PutEntries) /\ entry \in PutEntries /\ <<entry>> \in Seq(PutEntries)
    BY <2>2, <2>3, PairedTyped DEF PutEntries
  <2>5. Paired(putters'[m], elms'[m]) = Append(waits, entry)
    BY <2>1, <2>2, <2>3, PairedAppend DEF TypeOK, MailboxTypeOK
  <2>6. sent'[m] = Append(delivered[m] \o waits, entry)
    BY <2>1, <2>3 DEF TypeOK, MailboxTypeOK
  <2>7. /\ Len(putters'[m]) = Len(putters[m]) + 1
        /\ Len(elms'[m]) = Len(elms[m]) + 1
    BY <2>1, <2>2, AppendProperties DEF TypeOK, MailboxTypeOK
  <2>8. \A q \in Mailboxes \ {m} :
          putters'[q] = putters[q] /\ elms'[q] = elms[q] /\ sent'[q] = sent[q]
    BY <2>1
  <2> HIDE DEF waits, entry
  <2>9. sent'[m] = delivered[m] \o Append(waits, entry)
    <3>1. delivered[m] \o waits \in Seq(PutEntries)
      BY <2>2, <2>4, ConcatProperties
    <3>2. Append(delivered[m] \o waits, entry) = (delivered[m] \o waits) \o <<entry>>
      BY <2>4, <3>1, AppendIsConcat
    <3>3. Append(waits, entry) = waits \o <<entry>>
      BY <2>4, AppendIsConcat
    <3> DEFINE one == <<entry>>
               before == delivered[m]
    <3>4. (before \o waits) \o one = before \o (waits \o one)
      <4>1. before \in Seq(PutEntries) /\ waits \in Seq(PutEntries) /\ one \in Seq(PutEntries)
        BY <2>2, <2>4
      <4> HIDE DEF one, before
      <4> QED
        BY <4>1, ConcatAssociative
    <3> QED
      BY <2>6, <3>2, <3>3, <3>4
  <2>10. Len(putters'[m]) <= MailboxMax[m]
    <3>1. Len(putters[m]) \in Nat /\ MailboxMax[m] \in Nat
      BY <2>2, LenProperties, MailboxAssumption
    <3> QED
      BY <1>2, <2>3, <2>7, <3>1
  <2>11. Len(putters'[m]) = Len(elms'[m])
    BY <2>3, <2>7
  <2> QED
    BY <2>1, <2>5, <2>8, <2>9, <2>10, <2>11 DEF MailboxFIFO
<1> QED
  BY <1>1, <1>2

\* A transfer moves the first waiting entry to the end of what was delivered.
LEMMA TransferKeepsOrder ==
  ASSUME TypeOK, MailboxFIFO, NEW m \in Mailboxes, NEW i \in DOMAIN getters[m],
         MailboxTransfer(m, i)
  PROVE  MailboxFIFO'
<1> DEFINE waits == Paired(putters[m], elms[m])
           rest == Paired(Tail(putters[m]), Tail(elms[m]))
           entry == <<Head(putters[m]), Head(elms[m])>>
<1>1. /\ putters' = [putters EXCEPT ![m] = Tail(@)]
      /\ elms' = [elms EXCEPT ![m] = Tail(@)]
      /\ delivered' = [delivered EXCEPT ![m] = Append(@, entry)]
      /\ UNCHANGED sent
      /\ putters[m] # <<>>
  BY DEF MailboxTransfer
<1>2. /\ putters[m] \in Seq(Processes) /\ elms[m] \in Seq(Elements)
      /\ delivered[m] \in Seq(PutEntries)
  BY DEF TypeOK, MailboxTypeOK, PutEntries
<1>3. /\ Len(putters[m]) = Len(elms[m]) /\ Len(putters[m]) <= MailboxMax[m]
      /\ sent[m] = delivered[m] \o waits
  BY DEF MailboxFIFO
<1>4. Len(putters[m]) \in Nat \ {0} /\ elms[m] # <<>> /\ MailboxMax[m] \in Nat
  BY <1>1, <1>2, <1>3, EmptySeq, MailboxAssumption
<1>5. /\ Tail(putters[m]) \in Seq(Processes) /\ Len(Tail(putters[m])) = Len(putters[m]) - 1
      /\ Tail(elms[m]) \in Seq(Elements) /\ Len(Tail(elms[m])) = Len(elms[m]) - 1
      /\ Head(putters[m]) \in Processes /\ Head(elms[m]) \in Elements
  BY <1>1, <1>2, <1>4, HeadTailProperties
<1>6. /\ rest \in Seq(PutEntries) /\ entry \in PutEntries /\ <<entry>> \in Seq(PutEntries)
  <2>1. Len(Tail(putters[m])) = Len(Tail(elms[m]))
    BY <1>3, <1>5
  <2>2. rest \in Seq(PutEntries)
    BY <1>5, <2>1, PairedTyped
  <2>3. entry \in PutEntries
    BY <1>5 DEF PutEntries
  <2> HIDE DEF entry
  <2> QED
    BY <2>2, <2>3
<1>7. waits = <<entry>> \o rest
  BY <1>1, <1>2, <1>3, PairedTail
<1>8. /\ Paired(putters'[m], elms'[m]) = rest
      /\ delivered'[m] = Append(delivered[m], entry)
      /\ Len(putters'[m]) = Len(putters[m]) - 1
      /\ Len(elms'[m]) = Len(elms[m]) - 1
  BY <1>1, <1>5 DEF TypeOK, MailboxTypeOK
<1>9. \A q \in Mailboxes \ {m} :
        putters'[q] = putters[q] /\ elms'[q] = elms[q] /\ delivered'[q] = delivered[q]
  BY <1>1
<1> HIDE DEF waits, rest, entry
<1>10. sent[m] = Append(delivered[m], entry) \o rest
  <2>1. Append(delivered[m], entry) = delivered[m] \o <<entry>>
    BY <1>2, <1>6, AppendIsConcat
  <2> DEFINE one == <<entry>>
             before == delivered[m]
  <2>2. (before \o one) \o rest = before \o (one \o rest)
    <3>1. before \in Seq(PutEntries) /\ one \in Seq(PutEntries) /\ rest \in Seq(PutEntries)
      BY <1>2, <1>6
    <3> HIDE DEF one, before
    <3> QED
      BY <3>1, ConcatAssociative
  <2> QED
    BY <1>3, <1>7, <2>1, <2>2
<1>11. Len(putters'[m]) = Len(elms'[m]) /\ Len(putters'[m]) <= MailboxMax[m]
  BY <1>3, <1>4, <1>8
<1> QED
  BY <1>1, <1>8, <1>9, <1>10, <1>11 DEF MailboxFIFO

LEMMA FIFOStep == TypeOK /\ MailboxFIFO /\ [Next]_vars => MailboxFIFO'
<1> SUFFICES ASSUME TypeOK, MailboxFIFO, [Next]_vars
             PROVE  MailboxFIFO'
  OBVIOUS
<1>1. ASSUME UNCHANGED <<putters, elms, sent, delivered>>
      PROVE  MailboxFIFO'
  BY <1>1 DEF MailboxFIFO
<1>2. ASSUME UNCHANGED mailboxVars
      PROVE  MailboxFIFO'
  BY <1>1, <1>2 DEF mailboxVars
<1>3. CASE MailboxCall
  BY <1>1, <1>3, PutKeepsOrder DEF MailboxCall, MailboxGet
<1>4. CASE MailboxFlush
  BY <1>2, <1>4, TransferKeepsOrder DEF MailboxFlush, MailboxNoPair
<1>5. CASE RunEnds \/ TimersEnd \/ EventsEnd \/ SemGetsEnd \/ SemPutsEnd \/ MailboxesEnd
  BY <1>1, <1>2, <1>5 DEF RunEnds, TimersEnd, EventsEnd, SemGetsEnd, SemPutsEnd, MailboxesEnd
<1>6. CASE RunStep
  BY <1>2, <1>3, <1>6 DEF RunStep, agentVars
<1>7. CASE FlushStep
  BY <1>2, <1>4, <1>5, <1>7 DEF FlushStep, agentVars
<1>8. CASE UNCHANGED vars
  BY <1>2, <1>8 DEF vars
<1> QED
  BY <1>5, <1>6, <1>7, <1>8 DEF Next

\* Every mailbox delivers exactly what was put into it, in order, each element
\* with its putter, and never holds more than its capacity.
THEOREM MailboxDeliversInOrder == Spec => []MailboxFIFO
<1>1. Spec => []TypeOK
  BY Typing, PTL
<1> QED
  BY <1>1, FIFOInit, FIFOStep, PTL DEF Spec

-----------------------------------------------------------------------------
(* Keys and their holders.  Neither BinaryMutex nor PutsCovered is          *)
(* inductive: a Put that is flushed must find the keys it returns, and      *)
(* stays covered while other puts of the same semaphore are flushed only    *)
(* because they belong to other processes (OnePutEach); a lock that is free *)
(* has no holder only because no count of held keys is negative             *)
(* (HeldNatural).                                                           *)

OnePutEach ==
  \A s \in Semaphores : \A i, j \in DOMAIN putPending[s] :
    putPending[s][i].proc = putPending[s][j].proc => i = j

HeldNatural == \A s \in Semaphores : \A p \in Processes : held[s][p] >= 0

KeysInv == BinaryMutex /\ PutsCovered /\ OnePutEach /\ HeldNatural

LEMMA KeysInit == Init => KeysInv
<1> SUFFICES ASSUME Init
             PROVE  KeysInv
  OBVIOUS
<1>1. /\ fault = "none" /\ keysRemaining = TotalKeys
      /\ putPending = [s \in Semaphores |-> <<>>]
      /\ held = [s \in Semaphores |-> [p \in Processes |-> 0]]
  BY DEF Init, ProcessSyncInit, SemaphoreInit
<1>2. BinaryMutex /\ HeldNatural
  BY <1>1 DEF BinaryMutex, HeldNatural
<1>3. \A s \in Semaphores : DOMAIN putPending[s] = {}
  BY <1>1
<1> QED
  BY <1>1, <1>2, <1>3 DEF KeysInv, PutsCovered, OnePutEach

\* A step that leaves the keys and the queued puts alone.
LEMMA KeysUntouched ==
  ASSUME KeysInv, UNCHANGED <<keysRemaining, held, putPending>>, fault' # "putWithoutGet"
  PROVE  KeysInv'
BY DEF KeysInv, BinaryMutex, PutsCovered, OnePutEach, HeldNatural

\* A process queues a Put for keys it holds, and has none queued yet.
LEMMA PutKeepsKeys ==
  ASSUME TypeOK, KeysInv, NEW s \in Semaphores, NEW n, SemaphorePut(s, n)
  PROVE  KeysInv'
<1> USE DEF TypeOK, SemaphoreTypeOK
<1>1. current \in Processes
  BY CallTyped DEF SemaphorePut
<1> DEFINE info == [proc |-> current, keys |-> n]
           queue == putPending[s]
<1>2. /\ n \in 1..held[s][current]
      /\ \A i \in DOMAIN queue : queue[i].proc # current
      /\ putPending' = [putPending EXCEPT ![s] = Append(queue, info)]
      /\ UNCHANGED <<keysRemaining, held, fault>>
  BY DEF SemaphorePut, MayPut
<1>3. info \in SemaphoreInfos
  BY <1>1, <1>2 DEF SemaphoreInfos
<1>4. /\ queue \in Seq(SemaphoreInfos) /\ DOMAIN queue = 1..Len(queue) /\ Len(queue) \in Nat
      /\ Append(queue, info) \in Seq(SemaphoreInfos)
      /\ Len(Append(queue, info)) = Len(queue) + 1
      /\ \A i \in 1..Len(queue) : Append(queue, info)[i] = queue[i]
      /\ Append(queue, info)[Len(queue) + 1] = info
  BY <1>3, AppendProperties, LenProperties
<1>5. /\ DOMAIN putPending'[s] = 1..Len(queue) + 1
      /\ \A i \in DOMAIN putPending'[s] :
           putPending'[s][i] = IF i <= Len(queue) THEN queue[i] ELSE info
  <2>1. putPending'[s] = Append(queue, info)
    BY <1>2
  <2>2. DOMAIN Append(queue, info) = 1..Len(queue) + 1
    BY <1>4, LenProperties
  <2> HIDE DEF queue, info
  <2> QED
    BY <1>4, <2>1, <2>2
<1>6. \A q \in Semaphores \ {s} : putPending'[q] = putPending[q]
  BY <1>2
<1> HIDE DEF queue
<1>7. PutsCovered'
  <2>1. \A i \in DOMAIN putPending'[s] :
          putPending'[s][i].keys <= held'[s][putPending'[s][i].proc]
    <3> TAKE i \in DOMAIN putPending'[s]
    <3>1. CASE i <= Len(queue)
      <4>1. i \in DOMAIN queue /\ putPending'[s][i] = queue[i]
        BY <1>4, <1>5, <3>1
      <4>2. queue[i].keys <= held[s][queue[i].proc]
        BY <4>1 DEF queue, KeysInv, PutsCovered
      <4> QED
        BY <1>2, <4>1, <4>2
    <3>2. CASE i > Len(queue)
      <4>1. putPending'[s][i] = info
        BY <1>4, <1>5, <3>2
      <4> QED
        BY <1>1, <1>2, <4>1
    <3> QED
      BY <1>4, <1>5, <3>1, <3>2
  <2> QED
    BY <1>2, <1>6, <2>1 DEF KeysInv, PutsCovered
<1>8. OnePutEach'
  <2>1. ASSUME NEW i \in DOMAIN putPending'[s], NEW j \in DOMAIN putPending'[s],
               putPending'[s][i].proc = putPending'[s][j].proc
        PROVE  i = j
    <3>1. info.proc = current
      OBVIOUS
    <3> HIDE DEF info
    <3>2. \A k, l \in DOMAIN queue : queue[k].proc = queue[l].proc => k = l
      BY DEF KeysInv, OnePutEach, queue
    <3>3. i \in 1..Len(queue) + 1 /\ j \in 1..Len(queue) + 1
      BY <1>5, <2>1
    <3>4. /\ putPending'[s][i] = IF i <= Len(queue) THEN queue[i] ELSE info
          /\ putPending'[s][j] = IF j <= Len(queue) THEN queue[j] ELSE info
      BY <1>5, <2>1
    <3>5. \A k \in 1..Len(queue) : queue[k].proc # current
      BY <1>2, <1>4 DEF queue
    <3> QED
      BY <1>4, <2>1, <3>1, <3>2, <3>3, <3>4, <3>5
  <2> QED
    BY <1>6, <2>1 DEF KeysInv, OnePutEach
<1> QED
  BY <1>2, <1>7, <1>8 DEF KeysInv, BinaryMutex, HeldNatural

\* FlushGets grants keys that remain: of a lock, the one key, held by nobody.
LEMMA GetKeepsKeys ==
  ASSUME TypeOK, KeysInv, NEW s \in Semaphores, NEW i \in DOMAIN getPending[s],
         SemaphoreFlushGet(s, i)
  PROVE  KeysInv'
<1> USE DEF TypeOK, SemaphoreTypeOK
<1> DEFINE p == getPending[s][i].proc
           k == getPending[s][i].keys
<1>1. p \in Processes /\ k \in Nat \ {0}
  BY PendingEntries
<1>2. /\ k <= keysRemaining[s]
      /\ keysRemaining' = [keysRemaining EXCEPT ![s] = @ - k]
      /\ held' = [held EXCEPT ![s][p] = @ + k]
      /\ UNCHANGED putPending
  BY DEF SemaphoreFlushGet, Picked, Grantable, Enough, Getter
<1>3. fault' # "putWithoutGet"
  BY DEF SemaphoreFlushGet, SetReasons
<1> HIDE DEF p, k
<1>4. /\ held'[s][p] = held[s][p] + k
      /\ \A q \in Processes \ {p} : held'[s][q] = held[s][q]
      /\ \A r \in Semaphores \ {s} : held'[r] = held[r] /\ keysRemaining'[r] = keysRemaining[r]
      /\ keysRemaining'[s] = keysRemaining[s] - k
  BY <1>1, <1>2
<1>5. \A r \in Semaphores : \A q \in Processes :
        held[r][q] \in Int /\ held'[r][q] \in Int /\ held'[r][q] >= held[r][q]
  <2> TAKE r \in Semaphores
  <2> TAKE q \in Processes
  <2>1. held[r][q] \in Int
    OBVIOUS
  <2>2. held'[r][q] = held[r][q] + k \/ held'[r][q] = held[r][q]
    BY <1>4
  <2> QED
    BY <1>1, <2>1, <2>2
<1>6. HeldNatural'
  BY <1>5 DEF KeysInv, HeldNatural
<1>7. PutsCovered'
  <2> SUFFICES ASSUME NEW r \in Semaphores, NEW j \in DOMAIN putPending[r]
               PROVE  putPending[r][j].keys <= held'[r][putPending[r][j].proc]
    BY <1>2, <1>3 DEF PutsCovered
  <2>1. putPending[r][j].proc \in Processes /\ putPending[r][j].keys \in Nat
    BY PendingEntries
  <2>2. putPending[r][j].keys <= held[r][putPending[r][j].proc]
    BY DEF KeysInv, PutsCovered
  <2> QED
    BY <1>5, <2>1, <2>2, SMTT(40)
<1>8. BinaryMutex'
  <2> SUFFICES ASSUME NEW r \in Semaphores, TotalKeys[r] = 1
               PROVE  \/ /\ keysRemaining'[r] = 1
                         /\ \A q \in Processes : held'[r][q] = 0
                      \/ /\ keysRemaining'[r] = 0
                         /\ \E q \in Processes :
                              /\ held'[r][q] = 1
                              /\ \A x \in Processes \ {q} : held'[r][x] = 0
    BY DEF BinaryMutex
  <2>1. CASE r # s
    BY <1>4, <2>1 DEF KeysInv, BinaryMutex
  <2>2. CASE r = s
    <3>0. keysRemaining[s] # 0
      BY <1>1, <1>2
    <3>1. keysRemaining[s] = 1 /\ k = 1 /\ \A q \in Processes : held[s][q] = 0
      <4>1. keysRemaining[s] = 1 /\ \A q \in Processes : held[s][q] = 0
        BY <2>2, <3>0 DEF KeysInv, BinaryMutex
      <4> QED
        BY <1>1, <1>2, <4>1
    <3>2. keysRemaining'[s] = 0 /\ held'[s][p] = 1
      BY <1>1, <1>4, <3>1
    <3>3. \A x \in Processes \ {p} : held'[s][x] = 0
      BY <1>4, <3>1
    <3> QED
      BY <1>1, <2>2, <3>2, <3>3
  <2> QED
    BY <2>1, <2>2
<1>9. OnePutEach'
  BY <1>2 DEF KeysInv, OnePutEach
<1> QED
  BY <1>6, <1>7, <1>8, <1>9 DEF KeysInv

\* FlushPuts returns keys of the process whose Put it takes, and leaves what
\* the other queued puts return with their processes.
LEMMA ReturnKeepsKeys ==
  ASSUME TypeOK, KeysInv, NEW s \in Semaphores, SemaphoreFlushPut(s)
  PROVE  KeysInv'
<1> USE DEF TypeOK, SemaphoreTypeOK
<1> DEFINE queue == putPending[s]
           p == Head(queue).proc
           k == Head(queue).keys
<1>1. /\ queue \in Seq(SemaphoreInfos) /\ queue # <<>>
      /\ Head(queue) = queue[1] /\ 1 \in DOMAIN queue
      /\ p \in Processes /\ k \in Nat \ {0}
  BY PendingEntries DEF SemaphoreFlushPut
<1>2. k <= held[s][p]
  BY <1>1 DEF KeysInv, PutsCovered
<1>3. /\ keysRemaining' = [keysRemaining EXCEPT ![s] = @ + k]
      /\ held' = [held EXCEPT ![s][p] = @ - k]
      /\ putPending' = [putPending EXCEPT ![s] = Tail(queue)]
      /\ fault' # "putWithoutGet"
  <2>1. ~ (k > held[s][p])
    BY <1>1, <1>2
  <2> QED
    BY <1>1, <2>1 DEF SemaphoreFlushPut, SetReasons, PutsLeft
<1>4. /\ DOMAIN putPending'[s] = 1..Len(queue) - 1
      /\ Len(queue) \in Nat /\ DOMAIN queue = 1..Len(queue)
      /\ \A j \in DOMAIN putPending'[s] : putPending'[s][j] = queue[j+1]
  <2>1. putPending'[s] = Tail(queue)
    BY <1>3
  <2> HIDE DEF queue
  <2> QED
    BY <1>1, <2>1, HeadTailProperties, LenProperties
<1>5. \A j \in DOMAIN putPending'[s] :
        /\ queue[j+1].proc \in Processes \ {p}
        /\ queue[j+1].keys \in Nat
        /\ queue[j+1].keys <= held[s][queue[j+1].proc]
  <2> TAKE j \in DOMAIN putPending'[s]
  <2>1. j+1 \in DOMAIN queue /\ j+1 # 1
    BY <1>4
  <2>2. queue[j+1].proc # p
    BY <1>1, <2>1 DEF KeysInv, OnePutEach
  <2> QED
    BY <2>1, <2>2, PendingEntries DEF KeysInv, PutsCovered
<1> HIDE DEF p, k, queue
<1>6. /\ held'[s][p] = held[s][p] - k
      /\ \A q \in Processes \ {p} : held'[s][q] = held[s][q]
      /\ \A r \in Semaphores \ {s} :
           /\ held'[r] = held[r] /\ keysRemaining'[r] = keysRemaining[r]
           /\ putPending'[r] = putPending[r]
      /\ keysRemaining'[s] = keysRemaining[s] + k
  BY <1>1, <1>3
<1>7. HeldNatural'
  <2>1. held[s][p] - k >= 0
    BY <1>1, <1>2
  <2>2. \A q \in Processes : held'[s][q] >= 0
    BY <1>6, <2>1 DEF KeysInv, HeldNatural
  <2> QED
    BY <1>6, <2>2 DEF KeysInv, HeldNatural
<1>8. PutsCovered'
  <2>1. \A j \in DOMAIN putPending'[s] :
          putPending'[s][j].keys <= held'[s][putPending'[s][j].proc]
    BY <1>4, <1>5, <1>6, ZenonT(60)
  <2> QED
    BY <1>3, <1>6, <2>1 DEF KeysInv, PutsCovered
<1>9. BinaryMutex'
  <2> SUFFICES ASSUME NEW r \in Semaphores, TotalKeys[r] = 1
               PROVE  \/ /\ keysRemaining'[r] = 1
                         /\ \A q \in Processes : held'[r][q] = 0
                      \/ /\ keysRemaining'[r] = 0
                         /\ \E q \in Processes :
                              /\ held'[r][q] = 1
                              /\ \A x \in Processes \ {q} : held'[r][x] = 0
    BY DEF BinaryMutex
  <2>1. CASE r # s
    BY <1>6, <2>1 DEF KeysInv, BinaryMutex
  <2>2. CASE r = s
    <3>1. held[s][p] # 0
      BY <1>1, <1>2
    <3>2. /\ keysRemaining[s] = 0
          /\ \E q \in Processes :
               /\ held[s][q] = 1 /\ \A x \in Processes \ {q} : held[s][x] = 0
      BY <1>1, <2>2, <3>1 DEF KeysInv, BinaryMutex
    <3>3. held[s][p] = 1 /\ k = 1 /\ \A x \in Processes \ {p} : held[s][x] = 0
      BY <1>1, <1>2, <3>1, <3>2
    <3>4. keysRemaining'[s] = 1 /\ held'[s][p] = 0
      BY <1>6, <3>2, <3>3
    <3>5. \A q \in Processes : held'[s][q] = 0
      BY <1>6, <3>3, <3>4
    <3> QED
      BY <2>2, <3>4, <3>5
  <2> QED
    BY <2>1, <2>2
<1>10. OnePutEach'
  <2>1. ASSUME NEW i \in DOMAIN putPending'[s], NEW j \in DOMAIN putPending'[s],
               putPending'[s][i].proc = putPending'[s][j].proc
        PROVE  i = j
    <3>1. i+1 \in DOMAIN queue /\ j+1 \in DOMAIN queue /\ queue[i+1].proc = queue[j+1].proc
      BY <1>4, <2>1, SMTT(40)
    <3>2. i+1 = j+1
      BY <3>1 DEF KeysInv, OnePutEach, queue
    <3> QED
      BY <1>4, <3>2
  <2>2. ASSUME NEW r \in Semaphores \ {s}
        PROVE  \A i, j \in DOMAIN putPending'[r] :
                 putPending'[r][i].proc = putPending'[r][j].proc => i = j
    BY <1>6 DEF KeysInv, OnePutEach
  <2> QED
    BY <2>1, <2>2 DEF OnePutEach
<1> QED
  BY <1>7, <1>8, <1>9, <1>10 DEF KeysInv

LEMMA KeysStep == TypeOK /\ KeysInv /\ [Next]_vars => KeysInv'
<1> SUFFICES ASSUME TypeOK, KeysInv, [Next]_vars
             PROVE  KeysInv'
  OBVIOUS
<1> DEFINE kept == /\ UNCHANGED <<keysRemaining, held, putPending>>
                   /\ fault' # "putWithoutGet"
<1>0. fault # "putWithoutGet"
  BY DEF KeysInv, PutsCovered
<1>1. ASSUME NEW s \in Semaphores, NEW n, SemaphoreGet(s, n)
      PROVE  kept
  BY <1>0, <1>1 DEF SemaphoreGet
<1>2. ASSUME NEW s \in Semaphores, SemaphoreFlushGetDone(s) \/ SemaphoreFlushPutDone(s)
      PROVE  kept
  BY <1>0, <1>2 DEF SemaphoreFlushGetDone, SemaphoreFlushPutDone
<1>3. ASSUME UNCHANGED semaphoreVars, fault' # "putWithoutGet"
      PROVE  kept
  BY <1>3 DEF semaphoreVars
<1>4. ASSUME NEW s \in Semaphores, NEW n, SemaphorePut(s, n)
      PROVE  KeysInv'
  BY <1>4, PutKeepsKeys
<1>5. CASE SemaphoreCall
  BY <1>1, <1>4, <1>5, KeysUntouched DEF SemaphoreCall
<1>6. CASE SemaphoreFlush
  BY <1>2, <1>6, GetKeepsKeys, ReturnKeepsKeys, KeysUntouched DEF SemaphoreFlush
<1>7. ASSUME ProcessStep \/ FlushProcessesToBlock \/ Advance
      PROVE  fault' # "putWithoutGet"
  BY <1>0, <1>7 DEF ProcessStep, Dispatch, DispatchIdle, NextReason, Return, ExecuteOnEdge,
     ReturnOnEdge, EdgeEnds, Wait, FlushProcessesToBlock, Advance, Abort
<1>8. ASSUME MailboxCall \/ MailboxFlush \/ EventCall \/ EventFlushNext
      PROVE  fault' # "putWithoutGet"
  BY <1>0, <1>8 DEF MailboxCall, MailboxPut, MailboxGet, MailboxFlush, MailboxNoPair,
     MailboxTransfer, EventCall, EventSet, EventGet, EventFlushNext, EventFlush,
     EventFlushUnheard, SetReasons, Abort
<1>9. ASSUME TimerCall \/ TimerFlushNext \/ \E t \in Timers : TimerExecute(t)
      PROVE  fault' # "putWithoutGet"
  BY <1>0, <1>9 DEF TimerCall, TimerStart, TimerStop, TimerRestart, TimerWatch, TimerWait,
     TimerFlushNext, TimerFlushDone, TimerFlush, TimerExecute, SetReasons, Abort
<1>10. CASE RunEnds \/ TimersEnd \/ EventsEnd \/ SemGetsEnd \/ SemPutsEnd \/ MailboxesEnd
  BY <1>0, <1>3, <1>10, KeysUntouched
     DEF RunEnds, TimersEnd, EventsEnd, SemGetsEnd, SemPutsEnd, MailboxesEnd, Enter
<1>11. CASE UNCHANGED vars
  BY <1>0, <1>3, <1>11, KeysUntouched DEF vars, baseVars
<1> HIDE DEF kept
<1>12. CASE RunStep
  BY <1>3, <1>5, <1>7, <1>8, <1>9, <1>12, KeysUntouched DEF RunStep, agentVars, kept
<1>13. CASE FlushStep
  BY <1>3, <1>6, <1>7, <1>8, <1>9, <1>10, <1>13, KeysUntouched DEF FlushStep, agentVars, kept
<1> QED
  BY <1>10, <1>11, <1>12, <1>13 DEF Next

LEMMA KeysInvariant == Spec => [](TypeOK /\ KeysInv)
<1>1. Spec => []TypeOK
  BY Typing, PTL
<1> QED
  BY <1>1, KeysInit, KeysStep, PTL DEF Spec

\* A one-key semaphore is a lock in every execution: at most one process holds
\* its key, through any sequence of Get, Put and flushes of delta cycles.
THEOREM MutualExclusion == Spec => []BinaryMutex
BY KeysInvariant, PTL DEF KeysInv

\* The asserts of Semaphore::FlushPuts never fail for clients that return keys
\* they hold and queue one Put at a time.
THEOREM PutsAreCovered == Spec => []PutsCovered
BY KeysInvariant, PTL DEF KeysInv

-----------------------------------------------------------------------------
(* A semaphore implements a key pool.  The pool counts the keys that are   *)
(* given out, the code those that are left: the refinement rests on their  *)
(* sum being the keys there are (Conserved).                               *)

Conserved ==
  \A s \in Semaphores :
    /\ keysRemaining[s] + SumFunction(held[s]) = TotalKeys[s]
    /\ \A i \in DOMAIN putPending[s] : putPending[s][i].keys <= TotalKeys[s]

LEMMA GivenOutIsSum ==
  \A s \in Semaphores : Pool!GivenOut(s) = SumFunction(held[s])
BY DEF Pool!GivenOut, Pool!SumFunction, Pool!SumFunctionOnSet, Pool!FoldFunctionOnSet,
   Pool!MapThenFoldSet, SumFunction, SumFunctionOnSet, FoldFunctionOnSet, MapThenFoldSet

\* The keys a process holds change, and with them the sum.
LEMMA HeldSum ==
  ASSUME TypeOK, NEW s \in Semaphores, NEW p \in Processes, NEW n \in Int
  PROVE  /\ SumFunction(held[s]) \in Int
         /\ SumFunction([held[s] EXCEPT ![p] = n]) = SumFunction(held[s]) - held[s][p] + n
<1>1. IsFiniteSet(Processes)
  BY ProcessSyncAssumption
<1> DEFINE f == held[s]
<1>2. f \in [Processes -> Int]
  BY DEF TypeOK, SemaphoreTypeOK
<1> HIDE DEF f
<1>3. SumFunction(f) \in Int
  BY <1>1, <1>2, SumTyped
<1>4. SumFunction([f EXCEPT ![p] = n]) = SumFunction(f) - f[p] + n
  BY <1>1, <1>2, SumOfChange
<1> QED
  BY <1>3, <1>4 DEF f

LEMMA ConservedInit == Init => Conserved /\ Pool!Init
<1> SUFFICES ASSUME Init PROVE Conserved /\ Pool!Init
  OBVIOUS
<1>1. /\ keysRemaining = TotalKeys
      /\ getPending = [s \in Semaphores |-> <<>>]
      /\ putPending = [s \in Semaphores |-> <<>>]
      /\ held = [s \in Semaphores |-> [p \in Processes |-> 0]]
  BY DEF Init, SemaphoreInit
<1>2. SumFunction([p \in Processes |-> 0]) = 0
  BY SumOfZeros, ProcessSyncAssumption
<1>3. \A s \in Semaphores : SumFunction(held[s]) = 0 /\ DOMAIN putPending[s] = {}
  BY <1>1, <1>2
<1>4. \A s \in Semaphores : TotalKeys[s] \in Nat
  BY SemaphoreAssumption
<1> QED
  BY <1>1, <1>3, <1>4 DEF Conserved, Pool!Init

\* A Get only asks.
LEMMA GetAsks ==
  ASSUME TypeOK, NEW s \in Semaphores, NEW n, SemaphoreGet(s, n)
  PROVE  UNCHANGED <<keysRemaining, held, putPending>> /\ Pool!Next
<1>1. current \in Processes /\ n \in 1..TotalKeys[s]
  BY CallTyped DEF SemaphoreGet, TypeOK
<1>2. Pool!Ask(s, current, n)
  BY DEF SemaphoreGet, Pool!Ask
<1> QED
  BY <1>1, <1>2 DEF SemaphoreGet, Pool!Next

\* A Put only queues what it will give back.
LEMMA PutStutters ==
  ASSUME TypeOK, Conserved, NEW s \in Semaphores, NEW n \in 1..TotalKeys[s], SemaphorePut(s, n)
  PROVE  Conserved' /\ UNCHANGED <<getPending, held>>
<1>1. n \in Int /\ n <= TotalKeys[s]
  BY SemaphoreAssumption
<1> DEFINE queue == putPending[s]
           info == [proc |-> current, keys |-> n]
<1>2. /\ \A r \in Semaphores \ {s} : putPending'[r] = putPending[r]
      /\ putPending'[s] = Append(queue, info)
      /\ queue \in Seq(SemaphoreInfos)
  BY DEF SemaphorePut, TypeOK, SemaphoreTypeOK
<1>3. \A i \in DOMAIN queue : queue[i].keys <= TotalKeys[s]
  BY DEF Conserved
<1> HIDE DEF queue
<1>4. \A i \in DOMAIN putPending'[s] :
        \/ i \in DOMAIN queue /\ putPending'[s][i] = queue[i]
        \/ putPending'[s][i] = info
  BY <1>2, AppendProperties, LenProperties
<1>5. \A i \in DOMAIN putPending'[s] : putPending'[s][i].keys <= TotalKeys[s]
  BY <1>1, <1>3, <1>4
<1> QED
  BY <1>2, <1>5 DEF SemaphorePut, Conserved
\* A grant moves keys from those that are left to their new holder.
LEMMA GetGrants ==
  ASSUME TypeOK, Conserved, NEW s \in Semaphores, NEW i \in DOMAIN getPending[s],
         SemaphoreFlushGet(s, i)
  PROVE  Conserved' /\ Pool!Next
<1> USE DEF TypeOK, SemaphoreTypeOK
<1> DEFINE p == getPending[s][i].proc
           k == getPending[s][i].keys
<1>1. p \in Processes /\ k \in Nat \ {0}
  BY PendingEntries
<1>2. /\ k <= keysRemaining[s]
      /\ keysRemaining' = [keysRemaining EXCEPT ![s] = @ - k]
      /\ held' = [held EXCEPT ![s][p] = @ + k]
      /\ getPending' = [getPending EXCEPT ![s] = RemoveAt(@, i)]
      /\ UNCHANGED putPending
  BY DEF SemaphoreFlushGet, Picked, Grantable, Enough, Getter
<1> HIDE DEF p, k
<1>3. held'[s] = [held[s] EXCEPT ![p] = held[s][p] + k]
  BY <1>1, <1>2
<1>4. SumFunction(held'[s]) = SumFunction(held[s]) + k /\ SumFunction(held[s]) \in Int
  <2> DEFINE more == held[s][p] + k
  <2>1. more \in Int /\ held[s][p] \in Int
    BY <1>1
  <2>2. held'[s] = [held[s] EXCEPT ![p] = more] /\ more = held[s][p] + k
    BY <1>3
  <2> HIDE DEF more, TypeOK, SemaphoreTypeOK
  <2> QED
    BY <1>1, <2>1, <2>2, HeldSum
<1>5. /\ keysRemaining'[s] = keysRemaining[s] - k
      /\ \A r \in Semaphores \ {s} : held'[r] = held[r] /\ keysRemaining'[r] = keysRemaining[r]
      /\ keysRemaining[s] \in Int /\ TotalKeys[s] \in Nat
  BY <1>2, SemaphoreAssumption
<1>6. Conserved'
  <2> SUFFICES ASSUME NEW r \in Semaphores
               PROVE  keysRemaining'[r] + SumFunction(held'[r]) = TotalKeys[r]
    BY <1>2 DEF Conserved
  <2>1. CASE r = s
    BY <2>1, <1>1, <1>4, <1>5 DEF Conserved
  <2>2. CASE r # s
    BY <2>2, <1>5 DEF Conserved
  <2> QED
    BY <2>1, <2>2
<1>7. Pool!GivenOut(s) + k <= TotalKeys[s]
  BY <1>1, <1>2, <1>4, <1>5, GivenOutIsSum DEF Conserved
<1>8. Pool!Grant(s, i)
  BY <1>2, <1>7 DEF Pool!Grant, Pool!RemoveAt, RemoveAt, p, k
<1> QED
  BY <1>6, <1>8 DEF Pool!Next

\* A flushed Put moves them back.
LEMMA PutGivesBack ==
  ASSUME TypeOK, KeysInv, Conserved, NEW s \in Semaphores, SemaphoreFlushPut(s)
  PROVE  Conserved' /\ Pool!Next
<1> USE DEF TypeOK, SemaphoreTypeOK
<1> DEFINE queue == putPending[s]
           p == Head(queue).proc
           k == Head(queue).keys
<1>1. /\ queue \in Seq(SemaphoreInfos) /\ queue # <<>>
      /\ Head(queue) = queue[1] /\ 1 \in DOMAIN queue
      /\ p \in Processes /\ k \in Nat \ {0}
  BY PendingEntries DEF SemaphoreFlushPut
<1>2. k <= held[s][p] /\ k <= TotalKeys[s]
  BY <1>1 DEF KeysInv, PutsCovered, Conserved
<1>3. /\ keysRemaining' = [keysRemaining EXCEPT ![s] = @ + k]
      /\ held' = [held EXCEPT ![s][p] = @ - k]
      /\ putPending' = [putPending EXCEPT ![s] = Tail(queue)]
      /\ UNCHANGED getPending
  <2>1. ~ (k > held[s][p])
    BY <1>1, <1>2
  <2> QED
    BY <1>1, <2>1 DEF SemaphoreFlushPut, SetReasons, PutsLeft
<1>4. /\ DOMAIN putPending'[s] = 1..Len(queue) - 1
      /\ Len(queue) \in Nat /\ DOMAIN queue = 1..Len(queue)
      /\ \A j \in DOMAIN putPending'[s] : putPending'[s][j] = queue[j+1]
  <2>1. putPending'[s] = Tail(queue)
    BY <1>3
  <2> HIDE DEF queue
  <2> QED
    BY <1>1, <2>1, HeadTailProperties, LenProperties
<1>5. \A j \in DOMAIN putPending'[s] : putPending'[s][j].keys <= TotalKeys[s]
  <2>1. \A j \in DOMAIN queue : queue[j].keys <= TotalKeys[s]
    BY DEF Conserved
  <2> HIDE DEF queue
  <2>2. \A j \in DOMAIN putPending'[s] : j + 1 \in DOMAIN queue
    BY <1>4
  <2> QED
    BY <1>4, <2>1, <2>2
<1>6. \A r \in Semaphores \ {s} :
        held'[r] = held[r] /\ keysRemaining'[r] = keysRemaining[r] /\ putPending'[r] = putPending[r]
  BY <1>3
<1> HIDE DEF p, k, queue
<1>7. held'[s] = [held[s] EXCEPT ![p] = held[s][p] - k] /\ keysRemaining'[s] = keysRemaining[s] + k
  BY <1>1, <1>3
<1>8. SumFunction(held'[s]) = SumFunction(held[s]) - k /\ SumFunction(held[s]) \in Int
  <2> DEFINE left == held[s][p] - k
  <2>1. left \in Int /\ held[s][p] \in Int
    BY <1>1
  <2>2. held'[s] = [held[s] EXCEPT ![p] = left] /\ left = held[s][p] - k
    BY <1>7
  <2> HIDE DEF left, TypeOK, SemaphoreTypeOK
  <2> QED
    BY <1>1, <2>1, <2>2, HeldSum
<1>9. Conserved'
  <2> SUFFICES ASSUME NEW r \in Semaphores
               PROVE  /\ keysRemaining'[r] + SumFunction(held'[r]) = TotalKeys[r]
                      /\ \A j \in DOMAIN putPending'[r] : putPending'[r][j].keys <= TotalKeys[r]
    BY DEF Conserved
  <2>1. CASE r = s
    <3>1. keysRemaining[s] \in Int /\ keysRemaining[s] + SumFunction(held[s]) = TotalKeys[s]
      BY DEF Conserved
    <3> QED
      BY <2>1, <3>1, <1>1, <1>5, <1>7, <1>8
  <2>2. CASE r # s
    BY <2>2, <1>6 DEF Conserved
  <2> QED
    BY <2>1, <2>2
<1>10. k \in 1..TotalKeys[s]
  BY <1>1, <1>2, SemaphoreAssumption
<1>11. Pool!GiveBack(s, p, k)
  BY <1>2, <1>3 DEF Pool!GiveBack
<1> QED
  BY <1>1, <1>9, <1>10, <1>11 DEF Pool!Next

LEMMA PoolUntouched ==
  ASSUME Conserved, UNCHANGED <<keysRemaining, held, putPending, getPending>>
  PROVE  Conserved' /\ UNCHANGED Pool!poolVars
BY DEF Conserved, Pool!poolVars

LEMMA PoolStep ==
  TypeOK /\ KeysInv /\ Conserved /\ [Next]_vars => Conserved' /\ [Pool!Next]_(Pool!poolVars)
<1> SUFFICES ASSUME TypeOK, KeysInv, Conserved, [Next]_vars
             PROVE  Conserved' /\ [Pool!Next]_(Pool!poolVars)
  OBVIOUS
<1>1. ASSUME NEW s \in Semaphores, NEW n \in 1..TotalKeys[s], SemaphoreGet(s, n) \/ SemaphorePut(s, n)
      PROVE  Conserved' /\ [Pool!Next]_(Pool!poolVars)
  BY <1>1, GetAsks, PutStutters DEF Conserved, Pool!poolVars
<1>2. ASSUME NEW s \in Semaphores, SemaphoreFlushGetDone(s) \/ SemaphoreFlushPutDone(s)
      PROVE  Conserved' /\ UNCHANGED Pool!poolVars
  BY <1>2, PoolUntouched DEF SemaphoreFlushGetDone, SemaphoreFlushPutDone
<1>3. ASSUME UNCHANGED semaphoreVars
      PROVE  Conserved' /\ UNCHANGED Pool!poolVars
  BY <1>3, PoolUntouched DEF semaphoreVars
<1>4. CASE SemaphoreCall
  BY <1>1, <1>4 DEF SemaphoreCall
<1>5. CASE SemaphoreFlush
  BY <1>2, <1>5, GetGrants, PutGivesBack DEF SemaphoreFlush
<1>6. CASE RunEnds \/ TimersEnd \/ EventsEnd \/ SemGetsEnd \/ SemPutsEnd \/ MailboxesEnd
  BY <1>3, <1>6 DEF RunEnds, TimersEnd, EventsEnd, SemGetsEnd, SemPutsEnd, MailboxesEnd, Enter
<1>7. CASE UNCHANGED vars
  BY <1>3, <1>7 DEF vars
<1>8. CASE RunStep
  BY <1>3, <1>4, <1>8 DEF RunStep, agentVars
<1>9. CASE FlushStep
  BY <1>3, <1>5, <1>6, <1>9 DEF FlushStep, agentVars
<1> QED
  BY <1>6, <1>7, <1>8, <1>9 DEF Next

\* Whatever their policies, semaphores are key pools: a request is granted
\* whole and once, and the keys given out never exceed mKeysTotal.
THEOREM SemaphoresAreKeyPools == Spec => KeyPoolSpec
<1>1. Spec => [](TypeOK /\ KeysInv)
  BY KeysInvariant
<1>2. Init => Conserved /\ Pool!Init
  BY ConservedInit
<1>3. TypeOK /\ KeysInv /\ Conserved /\ [Next]_vars => Conserved' /\ [Pool!Next]_(Pool!poolVars)
  BY PoolStep
<1> QED
  BY <1>1, <1>2, <1>3, PTL DEF Spec, KeyPoolSpec, Pool!Spec

-----------------------------------------------------------------------------
(* No request is stranded.                                                 *)
(*                                                                         *)
(* The argument follows the loop of Step7.  A semaphore that FlushGets has *)
(* left is quiet: it has nothing to grant.  It stays so while others are   *)
(* visited, because waking a process only makes it harder to reach; after  *)
(* the gets, only what asks for another delta cycle can end it; and the    *)
(* processes that block at the end were reachable before.  (A synchronous  *)
(* process keeps the mark of having been unblocked; a request of it that   *)
(* is passed over for the mark becomes grantable when the process blocks:  *)
(* the theorem is about designs without.)                                  *)

Listed(l, x) == \E j \in DOMAIN l : l[j] = x

\* Nothing to grant: each request that could be granted is behind one that
\* lacks keys, in a semaphore that serves in order.
Quiet(s) ==
  \A i \in DOMAIN getPending[s] : Grantable(s, i) =>
    Policy[s] = "RoundRobinWithBlock" /\ \E j \in 1..(i-1) : ~ Enough(s, j)

OnlyRunCalls  == phase # "Run" => current = NoProcess
GetsListed    == \A s \in Semaphores : getPending[s] # <<>> => Listed(semGetList, s)
PutsListed    == \A s \in Semaphores : putPending[s] # <<>> => Listed(semPutList, s)
GetsVisited   == phase = "SemGets" => \A s \in Semaphores : Listed(flushing, s) \/ Quiet(s)
PutsVisited   == phase = "SemPuts" =>
                   \A s \in Semaphores : Listed(flushing, s) \/ putPending[s] = <<>>
QuietOrAgain  == phase \in {"SemPuts", "Mailboxes", "Block"} =>
                   deltaEvents \/ \A s \in Semaphores : Quiet(s)
PutsDone      == phase \in {"Mailboxes", "Block", "Advance", "Finished"} =>
                   \A s \in Semaphores : putPending[s] = <<>>
QuietAtEnd    == phase \in {"Advance", "Finished"} => \A s \in Semaphores : Quiet(s)

\* Who is about to block has not been woken since, unless there is another cycle.
BlocksUnwoken ==
  deltaEvents \/ \A i \in DOMAIN toBlock :
    toBlock[i].proc \in Processes => ~ unblocked[toBlock[i].proc] \/ toBlock[i].proc = current

Lists   == GetsListed /\ PutsListed
Rounds  == GetsVisited /\ PutsVisited /\ QuietOrAgain /\ PutsDone /\ QuietAtEnd
QueueInv == OnlyRunCalls /\ Lists /\ Rounds /\ BlocksUnwoken

-----------------------------------------------------------------------------
(* Lists and searches.                                                     *)

LEMMA ListedAppend ==
  ASSUME NEW S, NEW l \in Seq(S), NEW x \in S
  PROVE  /\ Listed(Append(l, x), x)
         /\ \A y : Listed(l, y) => Listed(Append(l, x), y)
<1> DEFINE longer == Append(l, x)
<1>1. /\ longer \in Seq(S) /\ Len(longer) = Len(l) + 1 /\ Len(l) \in Nat
      /\ \A j \in 1..Len(l) : longer[j] = l[j]
      /\ longer[Len(l) + 1] = x
      /\ DOMAIN l = 1..Len(l)
  BY AppendProperties, LenProperties
<1> HIDE DEF longer
<1>2. DOMAIN longer = 1..Len(l) + 1
  BY <1>1, LenProperties
<1>3. Listed(longer, x) /\ \A y : Listed(l, y) => Listed(longer, y)
  BY <1>1, <1>2 DEF Listed
<1> QED
  BY <1>3 DEF longer

LEMMA ListedScheduled ==
  ASSUME NEW S, NEW l \in Seq(S), NEW x \in S
  PROVE  /\ Listed(Scheduled(l, x), x)
         /\ \A y : Listed(l, y) => Listed(Scheduled(l, x), y)
<1>1. CASE Contains(l, x)
  BY <1>1, LenProperties DEF Scheduled, Contains, Listed
<1>2. CASE ~ Contains(l, x)
  BY <1>2, ListedAppend DEF Scheduled
<1> QED
  BY <1>1, <1>2

LEMMA ListedUnlinked ==
  ASSUME NEW S, NEW l \in Seq(S), NEW x, NEW shorter \in Unlinked(l, x),
         NEW y, y # x, Listed(l, y)
  PROVE  Listed(shorter, y)
<1>1. PICK i \in DOMAIN l : l[i] = x /\ shorter = RemoveAt(l, i)
  BY DEF Unlinked
<1>2. PICK k \in DOMAIN l : l[k] = y
  BY DEF Listed
<1>3. /\ Len(l) \in Nat /\ i \in 1..Len(l) /\ k \in 1..Len(l) /\ k # i
      /\ shorter \in Seq(S) /\ Len(shorter) = Len(l) - 1
      /\ \A j \in 1..Len(l) - 1 : shorter[j] = IF j < i THEN l[j] ELSE l[j+1]
  BY <1>1, <1>2, RemoveAtProperties, LenProperties
<1>4. DOMAIN shorter = 1..Len(l) - 1
  BY <1>3, LenProperties
<1>5. CASE k < i
  <2>1. k \in DOMAIN shorter /\ shorter[k] = y
    BY <1>2, <1>3, <1>4, <1>5
  <2> QED
    BY <2>1 DEF Listed
<1>6. CASE k > i
  <2>1. k - 1 \in DOMAIN shorter /\ shorter[k - 1] = l[k - 1 + 1]
    BY <1>3, <1>4, <1>6
  <2>2. shorter[k - 1] = y
    BY <1>2, <1>3, <2>1
  <2> QED
    BY <2>1, <2>2 DEF Listed
<1> QED
  BY <1>3, <1>5, <1>6

LEMMA ListedTail ==
  ASSUME NEW S, NEW l \in Seq(S), l # <<>>, NEW y, y # Head(l), Listed(l, y)
  PROVE  Listed(Tail(l), y)
<1> DEFINE rest == Tail(l)
<1>1. PICK k \in DOMAIN l : l[k] = y
  BY DEF Listed
<1>2. /\ Len(l) \in Nat /\ k \in 1..Len(l) /\ Head(l) = l[1]
      /\ rest \in Seq(S) /\ Len(rest) = Len(l) - 1
      /\ \A j \in 1..Len(rest) : rest[j] = l[j+1]
  BY HeadTailProperties, LenProperties
<1> HIDE DEF rest
<1>3. k # 1 /\ DOMAIN rest = 1..Len(l) - 1
  BY <1>1, <1>2, LenProperties
<1>4. k - 1 \in DOMAIN rest /\ rest[k - 1] = l[k - 1 + 1]
  BY <1>2, <1>3
<1>5. rest[k - 1] = y
  BY <1>1, <1>2, <1>4
<1> QED
  BY <1>4, <1>5 DEF Listed, rest

LEMMA NotListedEmpty == \A x : ~ Listed(<<>>, x)
BY EmptySeq DEF Listed

\* FlushGets stops at nothing only if there is nothing to grant: otherwise it
\* stops at the first request that can be granted, unless one before it lacks
\* keys and the policy blocks.
LEMMA NothingPicked ==
  ASSUME TypeOK, NEW s \in Semaphores, \A i \in DOMAIN getPending[s] : ~ Picked(s, i)
  PROVE  Quiet(s)
<1> SUFFICES ASSUME NEW i \in DOMAIN getPending[s], Grantable(s, i)
             PROVE  Policy[s] = "RoundRobinWithBlock" /\ \E j \in 1..(i-1) : ~ Enough(s, j)
  BY DEF Quiet
<1> DEFINE grantable == {j \in DOMAIN getPending[s] : Grantable(s, j)}
<1>1. DOMAIN getPending[s] \subseteq Nat /\ \A j \in DOMAIN getPending[s] : 1..(j-1) \subseteq DOMAIN getPending[s]
  BY LenProperties DEF TypeOK, SemaphoreTypeOK
<1>2. PICK first \in grantable : \A j \in grantable : first <= j
  <2>1. grantable \subseteq Nat /\ grantable # {}
    BY <1>1
  <2> HIDE DEF grantable
  <2> QED
    BY <2>1, LeastNatural
<1>3. first \in Nat /\ i \in Nat /\ first <= i
  BY <1>1, <1>2
<1>4. \A j \in 1..(first-1) : ~ Grantable(s, j)
  BY <1>1, <1>2, <1>3
<1>5. ~ Picked(s, first)
  BY <1>2
<1>6. Policy[s] = "RoundRobinWithBlock" /\ \E j \in 1..(first-1) : ~ Enough(s, j)
  BY <1>2, <1>4, <1>5 DEF Picked
<1> QED
  BY <1>3, <1>6

-----------------------------------------------------------------------------
(* What keeps a semaphore quiet.                                           *)

\* Its requests and keys are untouched, and no process is easier to reach.
LEMMA QuietKept ==
  ASSUME TypeOK, NEW s \in Semaphores, Quiet(s),
         getPending'[s] = getPending[s], keysRemaining'[s] = keysRemaining[s],
         \A p \in Processes : Reachable(p, WaitOn(s, "get"))' => Reachable(p, WaitOn(s, "get"))
  PROVE  Quiet(s)'
<1> SUFFICES ASSUME NEW i \in DOMAIN getPending'[s], Grantable(s, i)'
             PROVE  Policy[s] = "RoundRobinWithBlock" /\ \E j \in 1..(i-1) : ~ Enough(s, j)'
  BY DEF Quiet
<1>1. getPending[s][i].proc \in Processes
  BY PendingEntries DEF TypeOK
<1>2. Grantable(s, i)
  BY <1>1 DEF Grantable, Enough, Getter
<1>3. Policy[s] = "RoundRobinWithBlock" /\ \E j \in 1..(i-1) : ~ Enough(s, j)
  BY <1>2 DEF Quiet
<1> QED
  BY <1>3 DEF Enough

LEMMA QuietUnchanged ==
  ASSUME TypeOK, UNCHANGED <<getPending, keysRemaining, sync, unblocked>>
  PROVE  \A s \in Semaphores : Quiet(s) => Quiet(s)'
BY QuietKept DEF Reachable, IsBlocked

\* Who is unblocked is out of reach for every agent until it has run.
LEMMA UnblockHides ==
  ASSUME TypeOK, NEW woken, Unblock(woken), NEW s \in Semaphores, NEW p \in Processes,
         Reachable(p, WaitOn(s, "get"))'
  PROVE  Reachable(p, WaitOn(s, "get"))
<1>1. /\ p \in Records
      /\ sync'[p] = IF <<p, sync[p]>> \in woken THEN Free ELSE sync[p]
      /\ unblocked'[p] = (unblocked[p] \/ <<p, sync[p]>> \in woken)
  BY DEF Unblock, Records
<1>2. Free # WaitOn(s, "get")
  BY DEF Free, WaitOn
<1> QED
  BY <1>1, <1>2 DEF Reachable, IsBlocked

LEMMA EmptyIsQuiet ==
  ASSUME NEW s \in Semaphores, getPending[s] = <<>>
  PROVE  Quiet(s)
BY DEF Quiet

-----------------------------------------------------------------------------
(* The steps.                                                              *)

\* While processes run only the lists and the processes to block change.
LEMMA RunKeeps ==
  ASSUME OnlyRunCalls', Lists', BlocksUnwoken', phase' \in {"Run", "Step8", "Timers", "Events"}
  PROVE  QueueInv'
BY DEF QueueInv, Rounds, GetsVisited, PutsVisited, QuietOrAgain, PutsDone, QuietAtEnd

LEMMA ListsKept == Lists /\ UNCHANGED semaphoreVars => Lists'
BY DEF Lists, GetsListed, PutsListed, semaphoreVars

\* The processes to block are those of before.
LEMMA BlocksKept ==
  ASSUME BlocksUnwoken, UNCHANGED <<toBlock, unblocked, current, deltaEvents>>
  PROVE  BlocksUnwoken'
BY DEF BlocksUnwoken

\* One more is to block: the running process, or a timer.
LEMMA BlockAdded ==
  ASSUME TypeOK, BlocksUnwoken, UNCHANGED <<unblocked, current, deltaEvents>>,
         NEW r \in Records, NEW wait \in Waits, r = current \/ r \notin Processes,
         toBlock' = Append(toBlock, [proc |-> r, wait |-> wait])
  PROVE  BlocksUnwoken'
<1> DEFINE entries == [proc : Records, wait : Waits]
           entry == [proc |-> r, wait |-> wait]
           longer == Append(toBlock, entry)
<1>1. toBlock \in Seq(entries) /\ entry \in entries /\ entry.proc = r
  BY DEF TypeOK, SyncTypeOK
<1> HIDE DEF entries, entry
<1>2. /\ longer \in Seq(entries) /\ Len(longer) = Len(toBlock) + 1 /\ Len(toBlock) \in Nat
      /\ \A j \in 1..Len(toBlock) : longer[j] = toBlock[j]
      /\ longer[Len(toBlock) + 1] = entry
      /\ DOMAIN toBlock = 1..Len(toBlock)
  BY <1>1, AppendProperties, LenProperties
<1>3. toBlock' = longer
  BY DEF entry
<1> HIDE DEF longer
<1>4. \A i \in DOMAIN longer :
        (i \in DOMAIN toBlock /\ longer[i] = toBlock[i]) \/ longer[i] = entry
  BY <1>2, LenProperties
<1>5. ASSUME ~ deltaEvents, NEW i \in DOMAIN longer, longer[i].proc \in Processes
      PROVE  ~ unblocked[longer[i].proc] \/ longer[i].proc = current
  BY <1>1, <1>4, <1>5 DEF BlocksUnwoken
<1> QED
  BY <1>3, <1>5 DEF BlocksUnwoken

LEMMA QueueInit == Init => QueueInv
<1> SUFFICES ASSUME Init PROVE QueueInv
  OBVIOUS
<1>1. /\ phase = "Run" /\ toBlock = <<>>
      /\ \A s \in Semaphores : getPending[s] = <<>> /\ putPending[s] = <<>>
  BY DEF Init, ProcessSyncInit, SemaphoreInit
<1>2. OnlyRunCalls /\ Lists /\ BlocksUnwoken
  BY <1>1 DEF OnlyRunCalls, Lists, GetsListed, PutsListed, BlocksUnwoken
<1> QED
  BY <1>1, <1>2 DEF QueueInv, Rounds, GetsVisited, PutsVisited, QuietOrAgain, PutsDone, QuietAtEnd

LEMMA ProcessKeepsQueues ==
  ASSUME TypeOK, QueueInv, Synchronous = {}, ProcessStep, UNCHANGED agentVars
  PROVE  QueueInv'
<1> USE DEF QueueInv
<1>1. Lists'
  BY ListsKept DEF agentVars
<1>2. phase \in {"Run", "Step8"} /\ phase' \in {"Run", "Step8"}
  BY DEF ProcessStep, Dispatch, DispatchIdle, NextReason, Return, ExecuteOnEdge, ReturnOnEdge,
     EdgeEnds, Wait, Call, Running, OnClock, loopVars
<1>3. OnlyRunCalls'
  BY DEF ProcessStep, Dispatch, DispatchIdle, NextReason, Return, ExecuteOnEdge, ReturnOnEdge,
     EdgeEnds, Wait, Call, Running, OnClock, loopVars, runVars, OnlyRunCalls
<1>4. BlocksUnwoken'
  <2>1. ASSUME NEW p \in Processes, Dispatch(p)
        PROVE  BlocksUnwoken'
    BY <2>1, ProcessSyncAssumption DEF Dispatch, BlocksUnwoken, blockVars, loopVars
  <2>2. ASSUME NEW r \in Records, DispatchIdle(r)
        PROVE  BlocksUnwoken'
    BY <2>2 DEF DispatchIdle, BlocksUnwoken, runVars, loopVars, TypeOK, SyncTypeOK
  <2>3. CASE NextReason
    BY <2>3, BlocksKept DEF NextReason, blockVars, loopVars
  <2>4. CASE Return
    BY <2>4 DEF Return, BlocksUnwoken, loopVars, TypeOK, SyncTypeOK, Records
  <2>5. CASE ReturnOnEdge \/ EdgeEnds
    BY <2>5, BlocksKept DEF ReturnOnEdge, EdgeEnds, OnClock, OnlyRunCalls, blockVars, runVars, loopVars
  <2>6. ASSUME NEW w \in ClientWaits, Wait(w)
        PROVE  BlocksUnwoken'
    <3>1. w \in Waits /\ current \in Records
      BY <2>6, CallTyped DEF Wait, ClientWaits, Waits, WaitOn, SyncArgs, Agents, TypeOK, Records
    <3> QED
      BY <2>6, <3>1, BlockAdded DEF Wait, loopVars
  <2> QED
    BY <2>1, <2>2, <2>3, <2>4, <2>5, <2>6 DEF ProcessStep
<1> QED
  BY <1>1, <1>2, <1>3, <1>4, RunKeeps

LEMMA SemaphoreCallKeepsQueues ==
  ASSUME TypeOK, QueueInv, SemaphoreCall
  PROVE  QueueInv'
<1> USE DEF QueueInv
<1>0. PICK s \in Semaphores : \E n \in 1..TotalKeys[s] : SemaphoreGet(s, n) \/ SemaphorePut(s, n)
  BY DEF SemaphoreCall
<1>1. PICK n \in 1..TotalKeys[s] : SemaphoreGet(s, n) \/ SemaphorePut(s, n)
  BY <1>0
<1>2. UNCHANGED <<phase, current, toBlock, unblocked, deltaEvents>>
  BY <1>1 DEF SemaphoreGet, SemaphorePut, blockVars, loopVars
<1>3. phase \in {"Run", "Step8"}
  BY <1>1 DEF SemaphoreGet, SemaphorePut, Call, Running, OnClock
<1>4. Lists'
  <2>1. CASE SemaphoreGet(s, n)
    <3>1. /\ semGetList' = Scheduled(semGetList, s)
          /\ \A q \in Semaphores \ {s} : getPending'[q] = getPending[q]
          /\ UNCHANGED <<putPending, semPutList>>
      BY <2>1 DEF SemaphoreGet, TypeOK, SemaphoreTypeOK
    <3>2. semGetList \in Seq(Semaphores)
      BY DEF TypeOK, SemaphoreTypeOK
    <3> QED
      BY <3>1, <3>2, ListedScheduled DEF Lists, GetsListed, PutsListed
  <2>2. CASE SemaphorePut(s, n)
    <3>1. /\ semPutList' = Scheduled(semPutList, s)
          /\ \A q \in Semaphores \ {s} : putPending'[q] = putPending[q]
          /\ UNCHANGED <<getPending, semGetList>>
      BY <2>2 DEF SemaphorePut, TypeOK, SemaphoreTypeOK
    <3>2. semPutList \in Seq(Semaphores)
      BY DEF TypeOK, SemaphoreTypeOK
    <3> QED
      BY <3>1, <3>2, ListedScheduled DEF Lists, GetsListed, PutsListed
  <2> QED
    BY <1>1, <2>1, <2>2
<1> QED
  BY <1>2, <1>3, <1>4, RunKeeps, BlocksKept DEF OnlyRunCalls

\* The calls on other agents leave the semaphores and who may be woken alone.
LEMMA OtherCallKeepsQueues ==
  ASSUME TypeOK, QueueInv, MailboxCall \/ EventCall, UNCHANGED semaphoreVars
  PROVE  QueueInv'
<1> USE DEF QueueInv
<1>1. UNCHANGED <<phase, current, toBlock, unblocked, deltaEvents>> /\ phase \in {"Run", "Step8"}
  BY DEF MailboxCall, MailboxGet, MailboxPut, EventCall, EventGet, EventSet, Call, Running,
     OnClock, blockVars, loopVars
<1> QED
  BY <1>1, ListsKept, RunKeeps, BlocksKept DEF OnlyRunCalls

LEMMA TimerCallKeepsQueues ==
  ASSUME TypeOK, QueueInv, TimerCall \/ \E t \in Timers : TimerExecute(t), UNCHANGED semaphoreVars
  PROVE  QueueInv'
<1> USE DEF QueueInv
<1>1. UNCHANGED <<phase, current, deltaEvents>> /\ phase \in {"Run", "Step8"}
  BY DEF TimerCall, TimerStart, TimerStop, TimerRestart, TimerWatch, TimerWait, TimerExecute,
     Call, Running, OnClock, loopVars, runVars
<1>2. BlocksUnwoken'
  <2>1. ASSUME NEW t \in Timers, NEW r \in Records, r = t \/ r = current,
               toBlock' = Append(toBlock, [proc |-> r, wait |-> WaitOn(t, "none")]),
               UNCHANGED unblocked
        PROVE  BlocksUnwoken'
    <3>1. WaitOn(t, "none") \in Waits /\ t \notin Processes
      BY ProcessSyncAssumption DEF Waits, WaitOn, SyncArgs, Agents
    <3> QED
      BY <1>1, <2>1, <3>1, BlockAdded
  <2>2. ASSUME NEW t \in Timers, TimerStop(t) \/ TimerRestart(t)
        PROVE  BlocksUnwoken'
    BY <2>1, <2>2 DEF TimerStop, TimerRestart, Records
  <2>3. ASSUME NEW t \in Timers, TimerWait(t)
        PROVE  BlocksUnwoken'
    BY <2>1, <2>3, CallTyped DEF TimerWait, Records, TypeOK
  <2>4. ASSUME NEW t \in Timers, TimerWatch(t) \/ \E w \in Processes \cup {NoProcess} : TimerStart(t, w)
        PROVE  BlocksUnwoken'
    BY <1>1, <2>4, BlocksKept DEF TimerWatch, TimerStart, blockVars
  <2>5. ASSUME NEW t \in Timers, TimerExecute(t)
        PROVE  BlocksUnwoken'
    <3>1. UNCHANGED toBlock /\ (unblocked' = unblocked \/ unblocked' = [unblocked EXCEPT ![t] = FALSE])
      BY <2>5 DEF TimerExecute, Abort
    <3>2. \A p \in Processes : unblocked'[p] => unblocked[p]
      BY <3>1, ProcessSyncAssumption DEF TypeOK, SyncTypeOK, Records
    <3> QED
      BY <1>1, <3>1, <3>2 DEF BlocksUnwoken
  <2> QED
    BY <2>2, <2>3, <2>4, <2>5 DEF TimerCall
<1> QED
  BY <1>1, <1>2, ListsKept, RunKeeps DEF OnlyRunCalls

\* Timers and events are flushed before the gets; what they wake asks for
\* another delta cycle.
LEMMA EarlyFlushKeepsQueues ==
  ASSUME TypeOK, QueueInv, TimerFlushNext \/ EventFlushNext, UNCHANGED semaphoreVars
  PROVE  QueueInv'
<1> USE DEF QueueInv
<1>1. UNCHANGED <<phase, current, toBlock>> /\ phase \in {"Timers", "Events"}
  BY DEF TimerFlushNext, TimerFlush, TimerFlushDone, EventFlushNext, EventFlush, EventFlushUnheard,
     AtTimer, blockVars, runVars, loopVars
<1>2. deltaEvents' = TRUE \/ UNCHANGED <<deltaEvents, unblocked>>
  BY DEF TimerFlushNext, TimerFlush, TimerFlushDone, EventFlushNext, EventFlush, EventFlushUnheard,
     Abort, blockVars, loopVars
<1>3. BlocksUnwoken'
  BY <1>1, <1>2 DEF BlocksUnwoken
<1> QED
  BY <1>1, <1>3, ListsKept, RunKeeps DEF OnlyRunCalls

\* From one flush function to the next.
LEMMA LoopKeepsQueues ==
  ASSUME TypeOK, QueueInv,
         RunEnds \/ TimersEnd \/ EventsEnd \/ SemGetsEnd \/ SemPutsEnd \/ MailboxesEnd
  PROVE  QueueInv'
<1> USE DEF QueueInv
<1>1. UNCHANGED <<sync, unblocked, toBlock, current, deltaEvents, semaphoreVars>>
  BY DEF RunEnds, TimersEnd, EventsEnd, SemGetsEnd, SemPutsEnd, MailboxesEnd, Enter, blockVars, runVars
<1>2. OnlyRunCalls'
  BY DEF RunEnds, TimersEnd, EventsEnd, SemGetsEnd, SemPutsEnd, MailboxesEnd, Enter, runVars, OnlyRunCalls
<1>3. Lists' /\ BlocksUnwoken'
  BY <1>1, ListsKept, BlocksKept
<1>4. UNCHANGED <<getPending, putPending, keysRemaining>>
  BY <1>1 DEF semaphoreVars
<1>5. \A s \in Semaphores : Quiet(s) => Quiet(s)'
  BY <1>1, <1>4, QuietUnchanged
<1>6. CASE RunEnds \/ TimersEnd
  BY <1>2, <1>3, <1>6, RunKeeps DEF RunEnds, TimersEnd, Enter
<1> USE DEF Rounds, GetsVisited, PutsVisited, QuietOrAgain, PutsDone, QuietAtEnd
<1>7. CASE EventsEnd
  <2>1. phase' = "SemGets" /\ flushing' = semGetList
    BY <1>7 DEF EventsEnd, Enter
  <2>2. \A s \in Semaphores : Listed(semGetList, s) \/ Quiet(s)
    BY EmptyIsQuiet DEF Lists, GetsListed
  <2> QED
    BY <1>2, <1>3, <1>5, <2>1, <2>2
<1>8. CASE SemGetsEnd
  <2>1. phase = "SemGets" /\ flushing = <<>> /\ phase' = "SemPuts" /\ flushing' = semPutList
    BY <1>8 DEF SemGetsEnd, Enter
  <2>2. \A s \in Semaphores : Quiet(s)
    BY <2>1, NotListedEmpty
  <2>3. \A s \in Semaphores : Listed(semPutList, s) \/ putPending[s] = <<>>
    BY DEF Lists, PutsListed
  <2> QED
    BY <1>2, <1>3, <1>4, <1>5, <2>1, <2>2, <2>3
<1>9. CASE SemPutsEnd
  <2>1. phase = "SemPuts" /\ flushing = <<>> /\ phase' = "Mailboxes"
    BY <1>9 DEF SemPutsEnd, Enter
  <2>2. \A s \in Semaphores : putPending[s] = <<>>
    BY <2>1, NotListedEmpty
  <2> QED
    BY <1>1, <1>2, <1>3, <1>4, <1>5, <2>1, <2>2
<1>10. CASE MailboxesEnd
  <2>1. phase = "Mailboxes" /\ phase' = "Block"
    BY <1>10 DEF MailboxesEnd, Enter
  <2> QED
    BY <1>1, <1>2, <1>3, <1>4, <1>5, <2>1
<1> QED
  BY <1>6, <1>7, <1>8, <1>9, <1>10

\* FlushGets: the visited semaphores stay quiet while this one grants.
LEMMA GetKeepsQueues ==
  ASSUME TypeOK, QueueInv, NEW s \in Semaphores, NEW i \in DOMAIN getPending[s],
         SemaphoreFlushGet(s, i)
  PROVE  QueueInv'
<1> USE DEF QueueInv
<1>1. /\ phase = "SemGets" /\ flushing # <<>> /\ s = Head(flushing)
      /\ deltaEvents' = TRUE
      /\ UNCHANGED <<phase, flushing, current, toBlock, putPending, semGetList, semPutList>>
      /\ Unblock({<<Getter(s, i), WaitOn(s, "get")>>})
  BY DEF SemaphoreFlushGet, Flushing, runVars
<1>2. \A q \in Semaphores \ {s} :
        getPending'[q] = getPending[q] /\ keysRemaining'[q] = keysRemaining[q]
  BY DEF SemaphoreFlushGet, TypeOK, SemaphoreTypeOK
<1>3. Listed(flushing, s) /\ Listed(semGetList, s)
  <2>1. flushing[1] = Head(flushing) /\ 1 \in DOMAIN flushing
    BY <1>1, EmptySeq, LenProperties DEF TypeOK, SyncTypeOK
  <2>2. getPending[s] # <<>>
    OBVIOUS
  <2> QED
    BY <1>1, <2>1, <2>2 DEF Listed, Lists, GetsListed
<1>4. Lists'
  BY <1>1, <1>2, <1>3 DEF Lists, GetsListed, PutsListed
<1>5. \A q \in Semaphores \ {s} : Quiet(q) => Quiet(q)'
  BY <1>1, <1>2, QuietKept, UnblockHides
<1>6. GetsVisited'
  BY <1>1, <1>3, <1>5 DEF Rounds, GetsVisited
<1> QED
  BY <1>1, <1>4, <1>6 DEF OnlyRunCalls, BlocksUnwoken, Rounds, PutsVisited, QuietOrAgain,
     PutsDone, QuietAtEnd

LEMMA GetsDoneKeepsQueues ==
  ASSUME TypeOK, QueueInv, NEW s \in Semaphores, SemaphoreFlushGetDone(s)
  PROVE  QueueInv'
<1> USE DEF QueueInv
<1>1. /\ phase = "SemGets" /\ flushing # <<>> /\ s = Head(flushing)
      /\ \A i \in DOMAIN getPending[s] : ~ Picked(s, i)
      /\ flushing' = Tail(flushing)
      /\ semGetList' \in GetListAfter(s)
      /\ UNCHANGED <<phase, current, toBlock, deltaEvents, sync, unblocked,
                     keysRemaining, getPending, putPending, semPutList>>
  BY DEF SemaphoreFlushGetDone, Flushing, blockVars, runVars
<1>2. \A q \in Semaphores : Quiet(q) => Quiet(q)'
  BY <1>1, QuietUnchanged
<1>3. Lists'
  <2>1. semGetList \in Seq(Semaphores)
    BY DEF TypeOK, SemaphoreTypeOK
  <2>2. CASE getPending[s] = <<>>
    BY <1>1, <2>1, <2>2, ListedUnlinked DEF Lists, GetsListed, PutsListed, GetListAfter
  <2>3. CASE getPending[s] # <<>>
    BY <1>1, <2>3 DEF Lists, GetsListed, PutsListed, GetListAfter
  <2> QED
    BY <2>2, <2>3
<1>4. GetsVisited'
  <2>1. Quiet(s)
    BY <1>1, NothingPicked
  <2>2. flushing \in Seq(Semaphores \cup Mailboxes)
    BY DEF TypeOK, SyncTypeOK
  <2>3. \A q \in Semaphores \ {s} : Listed(flushing, q) => Listed(flushing', q)
    BY <1>1, <2>2, ListedTail
  <2> QED
    BY <1>1, <1>2, <2>1, <2>3 DEF Rounds, GetsVisited
<1> QED
  BY <1>1, <1>3, <1>4, BlocksKept DEF OnlyRunCalls, Rounds, PutsVisited, QuietOrAgain,
     PutsDone, QuietAtEnd

\* FlushPuts: keys come back, so there will be another delta cycle.
LEMMA PutKeepsQueues ==
  ASSUME TypeOK, QueueInv, NEW s \in Semaphores, SemaphoreFlushPut(s) \/ SemaphoreFlushPutDone(s)
  PROVE  QueueInv'
<1> USE DEF QueueInv
<1>1. /\ phase = "SemPuts" /\ flushing # <<>> /\ s = Head(flushing)
      /\ deltaEvents' = TRUE
      /\ UNCHANGED <<phase, current, toBlock, getPending, semGetList>>
  BY DEF SemaphoreFlushPut, SemaphoreFlushPutDone, Flushing, blockVars, runVars
<1>2. Lists' /\ PutsVisited'
  <2>1. CASE SemaphoreFlushPut(s)
    <3>1. /\ UNCHANGED <<flushing, semPutList>> /\ putPending[s] # <<>>
          /\ \A q \in Semaphores \ {s} : putPending'[q] = putPending[q]
      BY <2>1 DEF SemaphoreFlushPut, Abort, TypeOK, SemaphoreTypeOK
    <3>2. Listed(semPutList, s)
      BY <3>1 DEF Lists, PutsListed
    <3>3. Listed(flushing, s)
      BY <1>1, <3>1 DEF Rounds, PutsVisited
    <3> QED
      BY <1>1, <3>1, <3>2, <3>3 DEF Lists, GetsListed, PutsListed, Rounds, PutsVisited
  <2>2. CASE SemaphoreFlushPutDone(s)
    <3>1. /\ flushing' = Tail(flushing) /\ putPending[s] = <<>> /\ UNCHANGED putPending
          /\ semPutList' \in Unlinked(semPutList, s)
      BY <2>2 DEF SemaphoreFlushPutDone
    <3>2. semPutList \in Seq(Semaphores) /\ flushing \in Seq(Semaphores \cup Mailboxes)
      BY DEF TypeOK, SemaphoreTypeOK, SyncTypeOK
    <3>3. Lists'
      BY <1>1, <3>1, <3>2, ListedUnlinked DEF Lists, GetsListed, PutsListed
    <3>4. \A q \in Semaphores \ {s} : Listed(flushing, q) => Listed(flushing', q)
      BY <1>1, <3>1, <3>2, ListedTail
    <3> QED
      BY <1>1, <3>1, <3>3, <3>4 DEF Rounds, PutsVisited
  <2> QED
    BY <2>1, <2>2
<1> QED
  BY <1>1, <1>2 DEF OnlyRunCalls, BlocksUnwoken, Rounds, GetsVisited, QuietOrAgain,
     PutsDone, QuietAtEnd

LEMMA MailboxFlushKeepsQueues ==
  ASSUME TypeOK, QueueInv, MailboxFlush, UNCHANGED semaphoreVars
  PROVE  QueueInv'
<1> USE DEF QueueInv
<1>1. /\ phase = "Mailboxes" /\ UNCHANGED <<phase, current, toBlock>>
      /\ deltaEvents' = TRUE \/ UNCHANGED <<deltaEvents, sync, unblocked>>
  BY DEF MailboxFlush, MailboxTransfer, MailboxNoPair, Flushing, runVars, blockVars
<1>2. UNCHANGED <<getPending, putPending, keysRemaining>>
  BY DEF semaphoreVars
<1>3. \/ deltaEvents' = TRUE
      \/ UNCHANGED deltaEvents /\ \A s \in Semaphores : Quiet(s) => Quiet(s)'
  BY <1>1, <1>2, QuietUnchanged
<1>4. BlocksUnwoken'
  BY <1>1 DEF BlocksUnwoken
<1> QED
  BY <1>1, <1>2, <1>3, <1>4, ListsKept DEF OnlyRunCalls, Rounds, GetsVisited, PutsVisited,
     QuietOrAgain, PutsDone, QuietAtEnd

\* Who blocks was reachable, as nobody had unblocked it; so what blocks makes
\* nothing grantable.
LEMMA BlockKeepsQueues ==
  ASSUME TypeOK, QueueInv, FlushProcessesToBlock, UNCHANGED semaphoreVars
  PROVE  QueueInv'
<1> USE DEF QueueInv
<1>1. phase = "Block" /\ UNCHANGED <<current, unblocked, flushing>>
  BY DEF FlushProcessesToBlock, Abort, blockVars, runVars, loopVars
<1>2. CASE BlockConflict
  <2>1. UNCHANGED <<phase, toBlock, sync, deltaEvents>>
    BY <1>2 DEF FlushProcessesToBlock, Abort, blockVars, loopVars
  <2>2. UNCHANGED <<getPending, putPending, keysRemaining>>
    BY DEF semaphoreVars
  <2>3. \A s \in Semaphores : Quiet(s) => Quiet(s)'
    BY <1>1, <2>1, <2>2, QuietUnchanged
  <2> QED
    BY <1>1, <2>1, <2>2, <2>3, ListsKept, BlocksKept DEF OnlyRunCalls, Rounds, GetsVisited,
       PutsVisited, QuietOrAgain, PutsDone, QuietAtEnd
<1>3. CASE ~ BlockConflict
  <2>1. /\ toBlock' = <<>> /\ deltaEvents' = FALSE
        /\ phase' = IF deltaEvents THEN "Run" ELSE "Advance"
        /\ sync' = [r \in Records |->
             IF \E i \in DOMAIN toBlock : toBlock[i].proc = r
               THEN toBlock[CHOOSE i \in DOMAIN toBlock : toBlock[i].proc = r].wait
               ELSE sync[r]]
    BY <1>3 DEF FlushProcessesToBlock
  <2>2. OnlyRunCalls' /\ Lists' /\ BlocksUnwoken'
    BY <1>1, <2>1, ListsKept DEF OnlyRunCalls, BlocksUnwoken
  <2>3. CASE deltaEvents
    BY <2>1, <2>2, <2>3, RunKeeps
  <2>4. CASE ~ deltaEvents
    <3>1. \A s \in Semaphores : Quiet(s) /\ putPending[s] = <<>>
      BY <1>1, <2>4 DEF Rounds, QuietOrAgain, PutsDone
    <3>2. current = NoProcess
      BY <1>1 DEF OnlyRunCalls
    <3>3. ASSUME NEW p \in Processes, NEW w, Reachable(p, w)'
          PROVE  Reachable(p, w)
      <4>1. CASE \E i \in DOMAIN toBlock : toBlock[i].proc = p
        <5>1. sync[p] = Free
          BY <1>3, <4>1 DEF BlockConflict
        <5>2. ~ unblocked[p]
          BY <2>4, <3>2, <4>1, ProcessSyncAssumption DEF BlocksUnwoken
        <5> QED
          BY <5>1, <5>2 DEF Reachable, IsBlocked
      <4>2. CASE ~ \E i \in DOMAIN toBlock : toBlock[i].proc = p
        BY <1>1, <2>1, <3>3, <4>2 DEF Reachable, IsBlocked, Records
      <4> QED
        BY <4>1, <4>2
    <3>4. UNCHANGED <<getPending, putPending, keysRemaining>>
      BY DEF semaphoreVars
    <3>5. \A s \in Semaphores : Quiet(s)'
      BY <3>1, <3>3, <3>4, QuietKept
    <3> QED
      BY <2>1, <2>2, <2>4, <3>1, <3>4, <3>5 DEF Rounds, GetsVisited, PutsVisited,
         QuietOrAgain, PutsDone, QuietAtEnd
  <2> QED
    BY <2>3, <2>4
<1> QED
  BY <1>2, <1>3

LEMMA AdvanceKeepsQueues ==
  ASSUME TypeOK, QueueInv, Advance, UNCHANGED semaphoreVars
  PROVE  QueueInv'
<1> USE DEF QueueInv
<1>1. /\ phase = "Advance" /\ phase' \in {"Step8", "Finished"}
      /\ UNCHANGED <<sync, unblocked, toBlock, current, deltaEvents>>
  BY DEF Advance, blockVars, runVars
<1>2. UNCHANGED <<getPending, putPending, keysRemaining>>
  BY DEF semaphoreVars
<1>3. \A s \in Semaphores : Quiet(s) => Quiet(s)'
  BY <1>1, <1>2, QuietUnchanged
<1> QED
  BY <1>1, <1>2, <1>3, ListsKept, BlocksKept DEF OnlyRunCalls, Rounds, GetsVisited, PutsVisited,
     QuietOrAgain, PutsDone, QuietAtEnd

LEMMA StutterKeepsQueues ==
  ASSUME TypeOK, QueueInv, UNCHANGED vars
  PROVE  QueueInv'
<1> USE DEF QueueInv
<1>1. UNCHANGED <<phase, flushing, sync, unblocked, toBlock, current, deltaEvents, semaphoreVars>>
  BY DEF vars, baseVars, blockVars, runVars, loopVars
<1>2. UNCHANGED <<getPending, putPending, keysRemaining>>
  BY <1>1 DEF semaphoreVars
<1>3. \A s \in Semaphores : Quiet(s) => Quiet(s)'
  BY <1>1, <1>2, QuietUnchanged
<1> QED
  BY <1>1, <1>2, <1>3, ListsKept, BlocksKept DEF OnlyRunCalls, Rounds, GetsVisited, PutsVisited,
     QuietOrAgain, PutsDone, QuietAtEnd

LEMMA QueueStep ==
  ASSUME TypeOK, QueueInv, Synchronous = {}, [Next]_vars
  PROVE  QueueInv'
<1>1. CASE RunStep
  BY <1>1, ProcessKeepsQueues, SemaphoreCallKeepsQueues, OtherCallKeepsQueues,
     TimerCallKeepsQueues DEF RunStep
<1>2. CASE SemaphoreFlush
  BY <1>2, GetKeepsQueues, GetsDoneKeepsQueues, PutKeepsQueues DEF SemaphoreFlush
<1>3. CASE RunEnds \/ FlushStep
  BY <1>2, <1>3, LoopKeepsQueues, EarlyFlushKeepsQueues, MailboxFlushKeepsQueues,
     BlockKeepsQueues, AdvanceKeepsQueues DEF FlushStep, agentVars
<1> QED
  BY <1>1, <1>3, StutterKeepsQueues DEF Next

\* When the delta cycles of a time have come to rest, no semaphore, of any
\* policy, has a request left that it could grant, and no Put is left over
\* (Scheduler::Start, Step7, with FlushSemaphoreGets and FlushSemaphorePuts).
THEOREM NoRequestIsStranded ==
  ASSUME Synchronous = {}
  PROVE  Spec => []NoStrandedRequest
<1>1. TypeOK /\ QueueInv /\ [Next]_vars => QueueInv'
  BY QueueStep
<1>2. QueueInv => NoStrandedRequest
  <2> SUFFICES ASSUME QueueInv, phase \in {"Advance", "Finished"}, NEW s \in Semaphores
               PROVE  putPending[s] = <<>> /\ \A i \in DOMAIN getPending[s] : ~ Picked(s, i)
    BY DEF NoStrandedRequest
  <2>1. putPending[s] = <<>> /\ Quiet(s)
    BY DEF QueueInv, Rounds, PutsDone, QuietAtEnd
  <2> QED
    BY <2>1 DEF Quiet, Picked
<1> QED
  BY <1>1, <1>2, Typing, QueueInit, PTL DEF Spec
===============================================================================
