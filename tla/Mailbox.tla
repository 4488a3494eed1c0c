------------------------------- MODULE Mailbox -------------------------------
(***************************************************************************)
(* src/Mailbox.cc, MailboxBase::FlushPutsAndGets and                       *)
(* Scheduler::FlushMailboxPuts.  A Put and a Get are queued; when the      *)
(* delta cycle ends, each mailbox hands at most one element over.          *)
(***************************************************************************)
EXTENDS ProcessSync

CONSTANTS
  Elements,      \* what is put
  MailboxMax,    \* mailbox -> mEntriesMax
  MailboxOrder   \* mMboxList: the mailboxes in order of construction

ASSUME MailboxAssumption ==
  /\ MailboxMax \in [Mailboxes -> Nat \ {0}]
  /\ MailboxOrder \in Seq(Mailboxes)
  /\ Mailboxes \subseteq ToSet(MailboxOrder)

VARIABLES
  putters,          \* mailbox -> mProcessWaitingOnPutList
  elms,             \* mailbox -> mMboxElmWaitingOnPutList
  getters,          \* mailbox -> mProcessWaitingOnGetList
  mailboxEvaluate,  \* mMailboxEvaluate
  sent,             \* history: mailbox -> <<putter, element>> of every Put accepted
  delivered         \* history: mailbox -> <<putter, element>> of every transfer

mailboxVars == <<putters, elms, getters, mailboxEvaluate, sent, delivered>>

\* MailboxAdd asks for an evaluation when a mailbox is constructed.
MailboxInit ==
  /\ putters = [m \in Mailboxes |-> <<>>]
  /\ elms = [m \in Mailboxes |-> <<>>]
  /\ getters = [m \in Mailboxes |-> <<>>]
  /\ mailboxEvaluate = (MailboxOrder # <<>>)
  /\ sent = [m \in Mailboxes |-> <<>>]
  /\ delivered = [m \in Mailboxes |-> <<>>]

FullBeyond(m) == Len(putters[m]) > MailboxMax[m]  \* mutant
Full(m)       == Len(putters[m]) = MailboxMax[m]

\* Put returns FALSE and queues nothing when the mailbox is full.
MailboxPut(m, e) ==
  /\ Call
  /\ IF Full(m)
       THEN UNCHANGED mailboxVars
       ELSE /\ putters' = [putters EXCEPT ![m] = Append(@, current)]
            /\ elms' = [elms EXCEPT ![m] = Append(@, e)]
            /\ mailboxEvaluate' = TRUE
            /\ sent' = [sent EXCEPT ![m] = Append(@, <<current, e>>)]
            /\ UNCHANGED <<getters, delivered>>
  /\ UNCHANGED <<blockVars, reasons, current, waited, loopVars, fault>>

MailboxGet(m) ==
  /\ Call
  /\ getters' = [getters EXCEPT ![m] = Append(@, current)]
  /\ mailboxEvaluate' = TRUE
  /\ UNCHANGED <<blockVars, reasons, current, waited, loopVars, fault,
                 putters, elms, sent, delivered>>

-----------------------------------------------------------------------------
(* FlushMailboxPuts: one call of FlushPutsAndGets for each mailbox.         *)

\* The first waiting getter the mailbox may wake; those before it miss the
\* element but stay in the list.
FirstGetter(m, i) ==
  /\ i \in DOMAIN getters[m]
  /\ Reachable(getters[m][i], WaitOn(m, "get"))
  /\ \A j \in 1..(i-1) : ~ Reachable(getters[m][j], WaitOn(m, "get"))

\* The putter is examined after the getter has been unblocked: a process that
\* is both, and waited for its own Get, counts as blocked by then.
PutterReachable(m, i) ==
  LET put == Head(putters[m])
      get == getters[m][i]
  IN Reachable(put, WaitOn(m, "put")) /\ ~ (put = get /\ sync[get] = WaitOn(m, "get"))

\* A pair is found.  The scheduler dereferences the putter before it tests it
\* for null, so an unreachable putter ends the simulation.
MailboxTransfer(m, i) ==
  /\ Flushing("Mailboxes", m)
  /\ putters[m] # <<>> /\ FirstGetter(m, i)
  /\ LET put == Head(putters[m])
         get == getters[m][i]
         elm == Head(elms[m])
     IN /\ getters' = [getters EXCEPT ![m] = RemoveAt(@, i)]
        /\ putters' = [putters EXCEPT ![m] = Tail(@)]
        /\ elms' = [elms EXCEPT ![m] = Tail(@)]
        /\ delivered' = [delivered EXCEPT ![m] = Append(@, <<put, elm>>)]
        /\ Unblock({<<get, WaitOn(m, "get")>>, <<put, WaitOn(m, "put")>>})
        /\ IF PutterReachable(m, i)
             THEN SetReasons(WithReason(WithReason(reasons, put, "MailboxPut", m),
                                        get, "MailboxGet", elm))
             ELSE Abort("nullPutter", reasons)
  /\ deltaEvents' = TRUE
  /\ flushing' = Tail(flushing)
  /\ UNCHANGED <<toBlock, runVars, phase, mailboxEvaluate, sent>>

\* No pair.  With nothing put, found_get is returned without having been set:
\* read as true, it makes the scheduler use process pointers nobody has set.
MailboxNoPair(m) ==
  /\ Flushing("Mailboxes", m)
  /\ putters[m] = <<>> \/ \A i \in DOMAIN getters[m] : ~ FirstGetter(m, i)
  /\ flushing' = Tail(flushing)
  /\ fault' \in {"none"} \cup IF putters[m] = <<>> THEN {"uninitialisedFoundGet"} ELSE {}
  /\ UNCHANGED <<blockVars, reasons, runVars, phase, deltaEvents, mailboxVars>>

MailboxCall  == \E m \in Mailboxes : MailboxGet(m) \/ \E e \in Elements : MailboxPut(m, e)
MailboxFlush == \E m \in Mailboxes :
  MailboxNoPair(m) \/ \E i \in DOMAIN getters[m] : MailboxTransfer(m, i)
=============================================================================
