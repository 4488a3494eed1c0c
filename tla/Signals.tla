------------------------------ MODULE Signals ------------------------------
(***************************************************************************)
(* Interfaces and their signals: a design is constructed (interfaces are   *)
(* connected group by group, processes say what they are sensitive to),    *)
(* elaborated (Simulator::Start), and run: at an edge the clock propagates *)
(* its signal at once (StepA), the synchronous processes of that edge read *)
(* and assign signals, and at the end of the delta cycle their interfaces  *)
(* propagate in the order in which the processes ran (StepC).              *)
(*                                                                         *)
(* A signal is <<interface, position>>; a process is named as the interface*)
(* it owns.  Signals of one name have one width.  Where the code asserts,  *)
(* an action is not enabled.  assigned is no field of the code: the value  *)
(* the process last assigned to each of its signals.                       *)
(***************************************************************************)
EXTENDS Integers, Sequences, SequencesExt, FiniteSets

CONSTANTS
  Interfaces, Clocks, Asynchronous, \* those owned by a clock, and by an asynchronous process
  Description,         \* of each interface: a sequence of [name, group, type, reversible]
  Modifier,            \* and the modifier it was created with
  Construction,        \* the calls of the constructor of the design, in their order,
  Optional,            \* and the numbers of those that are made in some designs only
  Top, Submodules, ProcessesOf,
  ByPosition,          \* interfaces accessed by position as well as by name,
  ComparedByName,      \* and those whose signals are compared by name
  UnorderedPassThru,   \* are interfaces passed through although processes may change places?
  None

Values == {0, 1}
Types == {"Input", "Output", "InOut", "Strap"}
Edges == {"ValueChange", "PositiveEdge", "NegativeEdge", "PositiveAndNegativeEdge"}
Positions(i) == DOMAIN Description[i]
Signal == {s \in Interfaces \X (1 .. 10) : s[2] \in Positions(s[1])}

Fields == [name : STRING, group : STRING, type : Types, reversible : BOOLEAN]
Connections == [kind : {"connect"}, left : Interfaces, right : Interfaces, group : STRING, type : {"Peer", "PassThru"}]
Sensitivities == [kind : {"sensitive"}, process : Interfaces, position : 1 .. 10, edge : Edges]

ASSUME SignalsAssumption ==
  /\ Clocks \cup Asynchronous \cup ByPosition \cup ComparedByName \subseteq Interfaces
  /\ None \notin Interfaces /\ Optional \subseteq DOMAIN Construction /\ UnorderedPassThru \in BOOLEAN
  /\ \A i \in Interfaces : /\ Modifier[i] \in {"None", "Invert", "Monitor"}
                           /\ Description[i] \in Seq(Fields) /\ Len(Description[i]) <= 10
  /\ Construction \in Seq(Connections \cup Sensitivities)
  /\ \A c \in Clocks : Modifier[c] = "None" /\ Len(Description[c]) = 1 /\ Description[c][1].type = "Output"
  /\ \A m \in DOMAIN ProcessesOf : ProcessesOf[m] \in Seq(Interfaces)

VARIABLES
  signals,      \* the fields of each signal
  access,       \* mpSignalAttr and mSignalPos of each interface; 0: not set
  synchronous,  \* mIsSynchronous
  sensitive,    \* the elements of mSensitiveInfoList
  step, stable, \* the next call of the constructor, and whether processes keep their places
  scheduled,    \* <<process, clock, edge>>; empty before Start
  notified,     \* the processes in mSensitiveProcessList
  edge,         \* the clock whose edge this delta cycle is at
  running, ran, \* mpProcessCurrent, and the owners of intf_to_commit
  assigned

vars == <<signals, access, synchronous, sensitive, step, stable, scheduled, notified, edge, running, ran, assigned>>
designVars == <<synchronous, sensitive, step, stable, scheduled>>

-----------------------------------------------------------------------------
(* The operations of a signal.                                             *)

IsDrivingSignal(type) == type \in {"Strap", "Output", "InOut"}
IsReceivingSignal(type) == type \in {"Input", "InOut"}

\* The type of a signal in an interface created with a modifier.
TypeOf(i, k) ==
  LET d == Description[i][k]
  IN CASE Modifier[i] = "Monitor" -> "Input"
       [] Modifier[i] = "Invert" /\ d.reversible /\ d.type = "Input" -> "Output"
       [] Modifier[i] = "Invert" /\ d.reversible /\ d.type = "Output" -> "Input"
       [] OTHER -> d.type

NewSignal(i, k) == [type |-> TypeOf(i, k), bit |-> 0, modified |-> FALSE, strapped |-> FALSE,
                    propagates |-> FALSE, connected |-> << >>]

MarkAsInputIfReversedNever(sig, s) == sig     \* mutant
MarkAsInputIfReversed(sig, s) ==
  IF sig[s].type = "Output" /\ Modifier[s[1]] = "Invert" THEN [sig EXCEPT ![s].type = "Input"] ELSE sig

\* What the owner may assign: outputs, and a strap once.
MayUpdate(sig, s) ==
  \/ sig[s].type \in {"Output", "InOut"}
  \/ sig[s].type = "Strap" /\ ~sig[s].strapped

Update(sig, s, v) ==
  [sig EXCEPT ![s] = IF sig[s].type # "Strap" /\ sig[s].bit = v THEN @
                     ELSE [@ EXCEPT !.bit = v, !.modified = TRUE, !.strapped = sig[s].type = "Strap"]]

\* What propagation does, whatever the type.
UpdateAsOwner(sig, s, from) == IF MayUpdate(sig, s) THEN Update(sig, s, sig[from].bit) ELSE sig     \* mutant
UpdateFrom(sig, s, from) == [sig EXCEPT ![s].bit = sig[from].bit, ![s].modified = TRUE]

IsSensitive(sig, s, e) ==
  CASE e = "ValueChange" -> sig[s].modified
    [] e = "PositiveEdge" -> sig[s].bit = 1
    [] e = "NegativeEdge" -> sig[s].bit = 0
    [] e = "PositiveAndNegativeEdge" -> TRUE

HasSensitiveProcess(sig, s) == \E e \in Edges : <<s, e>> \in sensitive /\ IsSensitive(sig, s, e)

-----------------------------------------------------------------------------
(* Propagation, of [signals, notified].                                    *)

DeliverAskingFirst(st, s, to) ==     \* mutant
  [signals |-> UpdateFrom(st.signals, to, s),
   notified |-> IF HasSensitiveProcess(st.signals, to) /\ to[1] \in Asynchronous
                THEN st.notified \cup {to[1]} ELSE st.notified]
\* To one connected signal: its process is put on the list of those to be scheduled,
\* unless its clock will schedule it.
Deliver(st, s, to) ==
  LET copied == UpdateFrom(st.signals, to, s)
  IN [signals |-> copied,
      notified |-> IF HasSensitiveProcess(copied, to) /\ to[1] \in Asynchronous
                   THEN st.notified \cup {to[1]} ELSE st.notified]

DeliverToFirst(st, s) ==             \* mutant
  IF st.signals[s].propagates /\ st.signals[s].modified
  THEN Deliver(st, s, Head(st.signals[s].connected)) ELSE st
DeliverToAll(st, s) ==
  IF st.signals[s].propagates /\ st.signals[s].modified
  THEN FoldLeft(LAMBDA so_far, to : Deliver(so_far, s, to), st, st.signals[s].connected) ELSE st

\* mIsModified is never reset: what has once changed is propagated again each time.
PropagateInterfaceSignals(st, i) ==
  FoldLeft(LAMBDA so_far, k : DeliverToAll(so_far, <<i, k>>), st, [k \in Positions(i) |-> k])

State == [signals |-> signals, notified |-> notified]

-----------------------------------------------------------------------------
(* Construction.  A call of ConnectInterfaceGroup has left and right       *)
(* interfaces, a group and a connection type.                              *)

\* Which of the two propagates: <<left, right>>.
WhichSignalPropagates(left, right, type) ==
  LET both == IsDrivingSignal(left) /\ IsDrivingSignal(right)
  IN IF type = "Peer"
     THEN IF IsDrivingSignal(left) /\ IsReceivingSignal(right) THEN <<TRUE, FALSE>>
          ELSE IF IsDrivingSignal(right) /\ IsReceivingSignal(left) THEN <<FALSE, TRUE>>
          ELSE <<both, both>>
     ELSE IF both THEN <<FALSE, TRUE>>
          ELSE <<IsReceivingSignal(left) /\ IsReceivingSignal(right), FALSE>>

\* Of [signals, ok]; ok: no assertion failed.
Connect(st, s1, s2, type) ==
  LET sig == st.signals
      propagates == WhichSignalPropagates(sig[s1].type, sig[s2].type, type)
      joined == [sig EXCEPT ![s1].propagates = @ \/ propagates[1], ![s1].connected = Append(@, s2),
                            ![s2].propagates = @ \/ propagates[2], ![s2].connected = Append(@, s1)]
      OneConnection(s) == joined[s].type = "Input" => Len(joined[s].connected) = 1
  IN [signals |-> joined,
      ok |-> st.ok /\ (propagates[1] \/ propagates[2])
                   /\ (type = "Peer" => OneConnection(s1) /\ OneConnection(s2))]

InGroup(i, k, group) == group = "" \/ Description[i][k].group = group

\* The signals of the right interface that a signal of the left one may be connected to:
\* of the same name, or any of the group if one side is a clock's.
Candidates(c, k) ==
  {j \in Positions(c.right) :
     /\ InGroup(c.right, j, c.group)
     /\ \/ Description[c.left][k].name = Description[c.right][j].name
        \/ {c.left, c.right} \cap Clocks # {}}

First(places) == CHOOSE j \in places : \A k \in places : j <= k

ConnectSignal(st, c, k) ==
  LET s1 == <<c.left, k>>
      s2 == <<c.right, First(Candidates(c, k))>>
      right == IF c.left \in Clocks THEN MarkAsInputIfReversed(st.signals, s2) ELSE st.signals
      both == IF c.right \in Clocks THEN MarkAsInputIfReversed(right, s1) ELSE right
  IN IF Candidates(c, k) = {} THEN [st EXCEPT !.ok = FALSE]
     ELSE Connect([st EXCEPT !.signals = both], s1, s2, c.type)

Connected(c) ==
  FoldLeft(LAMBDA st, k : IF InGroup(c.left, k, c.group) THEN ConnectSignal(st, c, k) ELSE st,
           [signals |-> signals, ok |-> TRUE], [k \in Positions(c.left) |-> k])

Constructing == scheduled = {}
Call(kind) == Constructing /\ step <= Len(Construction) /\ Construction[step].kind = kind

ConnectInterfaceGroup(c) ==
  /\ c.type = "PassThru" => stable \/ UnorderedPassThru
  /\ Connected(c).ok
  /\ signals' = Connected(c).signals
  /\ synchronous' = synchronous \cup (IF c.left \in Clocks THEN {c.right} ELSE {})
                                \cup (IF c.right \in Clocks THEN {c.left} ELSE {})
  /\ step' = step + 1
  /\ UNCHANGED <<access, sensitive, stable, scheduled, notified, edge, running, ran, assigned>>

ProcessIsSensitiveTo(c) ==
  /\ sensitive' = sensitive \cup {<<<<c.process, c.position>>, c.edge>>}
  /\ step' = step + 1
  /\ UNCHANGED <<signals, access, synchronous, stable, scheduled, notified, edge, running, ran, assigned>>

\* Designs differ in whether they make a call.
LeaveOut ==
  /\ Constructing /\ step \in Optional /\ step' = step + 1
  /\ UNCHANGED <<signals, access, synchronous, sensitive, stable, scheduled, notified, edge, running, ran, assigned>>

-----------------------------------------------------------------------------
(* Elaboration.                                                            *)

\* The processes of a module are scheduled, unless it has a submodule: then only those
\* of the first one, and of that as well.
ElaborateModule[m \in DOMAIN Submodules] ==
  IF Submodules[m] = << >> THEN ProcessesOf[m] ELSE ElaborateModule[Head(Submodules[m])]
Elaborated == ElaborateModule[Top]

\* A synchronous process is scheduled for each signal it is sensitive to whose first
\* connection is a clock.
ClocksOf(p) ==
  {<<signals[<<p, x[1]>>].connected[1][1], x[2]>> :
     x \in {y \in Positions(p) \X Edges : <<<<p, y[1]>>, y[2]>> \in sensitive}}
ProcessScheduleSync(p) == {<<p, x[1], x[2]>> : x \in {y \in ClocksOf(p) : y[1] \in Clocks}}
MayBeScheduledUnclocked(p) ==               \* mutant
  \A k \in Positions(p), e \in Edges : <<<<p, k>>, e>> \in sensitive => signals[<<p, k>>].connected # << >>
MayBeScheduled(p) ==
  /\ \A k \in Positions(p), e \in Edges : <<<<p, k>>, e>> \in sensitive => signals[<<p, k>>].connected # << >>
  /\ ProcessScheduleSync(p) # {}

Start ==
  LET elaborated == ToSet(Elaborated)
      processes == elaborated \ Clocks
  IN /\ Constructing /\ step > Len(Construction)
     /\ elaborated \cap Asynchronous = {}
     /\ \A p \in processes : MayBeScheduled(p)
     /\ scheduled' = (UNION {ProcessScheduleSync(p) : p \in processes})
                       \cup {<<c, c, "PositiveAndNegativeEdge">> : c \in elaborated \cap Clocks}
     /\ UNCHANGED <<signals, access, synchronous, sensitive, step, stable, notified, edge, running, ran, assigned>>

-----------------------------------------------------------------------------
(* A delta cycle.                                                          *)

\* The clock changes its signal and propagates it (StepA).
ClockEdge(c) ==
  LET s == <<c, 1>>
      toggled == Update(signals, s, 1 - signals[s].bit)
      st == PropagateInterfaceSignals([State EXCEPT !.signals = toggled], c)
  IN /\ <<c, c, "PositiveAndNegativeEdge">> \in scheduled /\ edge = None
     /\ signals' = st.signals /\ notified' = st.notified
     /\ edge' = c /\ assigned' = [assigned EXCEPT ![s] = 1 - signals[s].bit]
     /\ UNCHANGED <<access, running, ran, designVars>>

\* A process that waits for this edge runs, unless it is blocked; those that keep their
\* places run in the order in which they were elaborated.
IsDue(p) ==
  \E e \in Edges : /\ <<p, edge, e>> \in scheduled /\ p # edge
                   /\ IsSensitive(signals, <<edge, 1>>, e)
Place(p) == CHOOSE n \in DOMAIN Elaborated : Elaborated[n] = p

Begin(p) ==
  /\ edge # None /\ running = None /\ IsDue(p) /\ p \notin ToSet(ran)
  /\ stable => \A q \in ToSet(ran) : Place(q) < Place(p)
  /\ running' = p
  /\ UNCHANGED <<signals, access, notified, edge, ran, assigned, designVars>>

\* What the subscript leaves set in an interface, and the signal an operation then takes.
Subscript(i, k, how) == IF how = "name" THEN [access[i] EXCEPT !.attr = k] ELSE [access[i] EXCEPT !.pos = k]
Taken(a) == IF a.attr # 0 THEN a.attr ELSE a.pos
ClearPos(a) == [a EXCEPT !.pos = 0]                                     \* mutant
Clear(a) == IF a.attr # 0 THEN [a EXCEPT !.attr = 0] ELSE [a EXCEPT !.pos = 0]
ClearAfterComparing(a) == IF a.attr # 0 THEN a ELSE [a EXCEPT !.pos = 0]

Accessed(i, how) == how = "position" => i \in ByPosition

Assign(i, k, how, v) ==
  LET a == Subscript(i, k, how)
  IN /\ running = i /\ Accessed(i, how) /\ MayUpdate(signals, <<i, k>>)
     /\ MayUpdate(signals, <<i, Taken(a)>>)
     /\ signals' = Update(signals, <<i, Taken(a)>>, v)
     /\ access' = [access EXCEPT ![i] = Clear(a)]
     /\ assigned' = [assigned EXCEPT ![<<i, k>>] = v]
     /\ UNCHANGED <<notified, edge, running, ran, designVars>>

\* A comparison, or a conversion to bool, leaves the name set.
Compare(i, k, how) ==
  /\ running = i /\ Accessed(i, how) /\ (how = "name" => i \in ComparedByName)
  /\ access' = [access EXCEPT ![i] = ClearAfterComparing(Subscript(i, k, how))]
  /\ UNCHANGED <<signals, notified, edge, running, ran, assigned, designVars>>

Finish(p) ==
  /\ running = p /\ running' = None /\ ran' = Append(ran, p)
  /\ UNCHANGED <<signals, access, notified, edge, assigned, designVars>>

\* StepC: the interfaces propagate in the order of the processes.
EndDelta ==
  LET st == FoldLeft(PropagateInterfaceSignals, State, ran)
  IN /\ edge # None /\ running = None
     /\ signals' = st.signals /\ notified' = st.notified
     /\ edge' = None /\ ran' = << >>
     /\ UNCHANGED <<access, running, assigned, designVars>>

-----------------------------------------------------------------------------
Init ==
  /\ signals = [s \in Signal |-> NewSignal(s[1], s[2])]
  /\ access = [i \in Interfaces |-> [attr |-> 0, pos |-> 0]]
  /\ stable \in BOOLEAN /\ step = 1
  /\ synchronous = {} /\ sensitive = {} /\ scheduled = {} /\ notified = {}
  /\ edge = None /\ running = None /\ ran = << >>
  /\ assigned = [s \in Signal |-> None]

Next ==
  \/ Call("connect") /\ ConnectInterfaceGroup(Construction[step])
  \/ Call("sensitive") /\ ProcessIsSensitiveTo(Construction[step])
  \/ LeaveOut \/ Start \/ EndDelta
  \/ \E c \in Clocks : ClockEdge(c)
  \/ \E p \in Interfaces : Begin(p) \/ Finish(p)
  \/ \E i \in Interfaces, how \in {"name", "position"} : \E k \in Positions(i) :
       Compare(i, k, how) \/ \E v \in Values : Assign(i, k, how, v)

Spec == Init /\ [][Next]_vars

-----------------------------------------------------------------------------
(* Kinds of designs.                                                       *)

ConnectCalls == {c \in ToSet(Construction) : c.kind = "connect"}

\* No interface is connected with itself.
NotToItself == \A c \in ConnectCalls : c.left # c.right

\* All interfaces are peers: none passes another's signals through.
Peers == \A c \in ConnectCalls : c.type = "Peer"

\* Of two signals that are connected one is an input: by its description, or to a clock.
Facing(i, k, other) ==
  IF other \in Clocks /\ Modifier[i] = "Invert" /\ TypeOf(i, k) = "Output" THEN "Input" ELSE TypeOf(i, k)
OneInput ==
  \A c \in ConnectCalls : \A k \in Positions(c.left), j \in Positions(c.right) :
    InGroup(c.left, k, c.group) /\ j \in Candidates(c, k) =>
      "Input" \in {Facing(c.left, k, c.right), Facing(c.right, j, c.left)}

\* No interface whose signals are compared by name is also accessed by position.
AccessedOneWay == ComparedByName \cap ByPosition = {}

-----------------------------------------------------------------------------
(* Properties.                                                             *)

\* A type invariant (Signal.h, Interface.h).
SignalsTypeOK ==
  /\ \A s \in Signal :
       /\ signals[s].type \in Types /\ signals[s].bit \in Values
       /\ {signals[s].modified, signals[s].strapped, signals[s].propagates} \subseteq BOOLEAN
       /\ ToSet(signals[s].connected) \subseteq Signal \ {s}
       /\ assigned[s] \in Values \cup {None}
  /\ \A i \in Interfaces : access[i].attr \in Positions(i) \cup {0} /\ access[i].pos = 0
  /\ synchronous \cup notified \cup ToSet(ran) \subseteq Interfaces
  /\ edge \in Clocks \cup {None} /\ running \in Interfaces \cup {None}

\* An output or strap holds what its process assigned to it last, however the process and others
\* accessed their interfaces before, and whatever was propagated since: no assignment
\* goes to another signal, and nothing is written back over it (Interface::operator=,
\* PropagateInterfaceSignals).
DrivenByOwner(s) == signals[s].type \in {"Output", "Strap"} /\ assigned[s] # None
HoldsWhatWasAssigned == \A s \in Signal : DrivenByOwner(s) => signals[s].bit = assigned[s]

\* Between delta cycles every input connected to an output or strap has the value its
\* process last assigned to it, whichever processes ran in which order: no new value is
\* lost on its way ("Propagate new values of the interface outputs to their connected
\* inputs", Interface.cc:555).
Delivered ==
  edge = None => \A s \in Signal :
    DrivenByOwner(s) /\ signals[s].propagates =>
      \A n \in DOMAIN signals[s].connected :
        LET to == signals[signals[s].connected[n]] IN to.type = "Input" => to.bit = assigned[s]

\* While a process runs, the input it is scheduled by has the value of its clock after the
\* edge ("so that sync processes see correct clock value", Scheduler.cc:687).
SeesItsClock ==
  running # None => \A k \in Positions(running) :
    <<edge, 1>> \in ToSet(signals[<<running, k>>].connected) =>
      signals[<<running, k>>].bit = signals[<<edge, 1>>].bit

\* Of two connected signals one propagates to the other, not each to the other, also when
\* the interface was created inverted and its clock input with it
\* (Interface::Connect, Signal::MarkAsInputIfReversed).
OneDrives ==
  \A s \in Signal : signals[s].propagates =>
    \A n \in DOMAIN signals[s].connected :
      LET to == signals[s].connected[n]
      IN signals[to].propagates => signals[s].type = "Input" \/ signals[to].type = "Input"

\* The signals are what they were described as, and connected one way.
WellConnected == SignalsTypeOK /\ OneDrives

\* When a signal changes in a way an asynchronous process is sensitive to, the process is
\* put on the list of those to be scheduled (Signal::HasSensitiveProcess).
SensitiveNoticed ==
  [][\A p \in Asynchronous, e \in Edges : \A k \in Positions(p) :
       LET s == <<p, k>>
       IN <<s, e>> \in sensitive /\ signals'[s].bit # signals[s].bit /\ IsSensitive(signals', s, e)
          => p \in notified']_vars

\* Once started, the processes that elaboration reached are scheduled, the synchronous
\* ones by nothing but edges they are sensitive to of clocks they are connected to
\* (Scheduler::ProcessScheduleSync).  Any other process is not, and never runs, although it
\* was constructed and connected like them: Simulator.cc:89 returns from the loop over the
\* submodules, against "schedule all proceeses within modules" (Simulator.cc:76).
ScheduledAsElaborated ==
  scheduled # {} => \A p \in Interfaces :
    LET entries == {x \in scheduled : x[1] = p}
    IN IF p \in ToSet(Elaborated)
       THEN /\ entries # {}
            /\ p \notin Clocks => \A x \in entries :
                 /\ x[2] \in Clocks
                 /\ \E k \in Positions(p) : /\ <<<<p, k>>, x[3]>> \in sensitive
                                           /\ <<x[2], 1>> \in ToSet(signals[<<p, k>>].connected)
       ELSE entries = {} /\ p \notin ToSet(ran) \cup {running}
=============================================================================
