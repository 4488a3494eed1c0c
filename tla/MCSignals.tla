----------------------------- MODULE MCSignals -----------------------------
(* A small instance of Signals.tla: a clock, a master, a slave whose         *)
(* interface is that of the master inverted, and a module inside the slave   *)
(* that its request is passed to, all in the first submodule of the top      *)
(* module.  An asynchronous monitor is in the top module itself, and a       *)
(* process with a clock input, as the others have, in the second submodule.  *)
EXTENDS Signals

CONSTANTS clk, mas, slv, inner, mon, far, top, sub, second

Field(name, group, type, reversible) == [name |-> name, group |-> group, type |-> type, reversible |-> reversible]
RW == <<Field("Clk", "CLK", "Input", TRUE), Field("Req", "REQ", "Output", TRUE), Field("Ack", "ACK", "Input", TRUE)>>
MCDescription ==
  [i \in Interfaces |-> CASE i = clk -> <<Field("Clock", "CLK", "Output", FALSE)>>
                          [] i = mas -> RW \o <<Field("Mode", "MODE", "Strap", FALSE)>>
                          [] i = slv -> RW \o <<Field("Mode", "MODE", "Input", FALSE)>>
                          [] i = inner -> SubSeq(RW, 1, 2)
                          [] i = mon -> SubSeq(RW, 2, 2)
                          [] i = far -> SubSeq(RW, 1, 1)]
MCModifier == [i \in Interfaces |-> CASE i \in {slv, inner} -> "Invert" [] i = mon -> "Monitor" [] OTHER -> "None"]

Connecting(left, right, group, type) == [kind |-> "connect", left |-> left, right |-> right, group |-> group, type |-> type]
Sensitive(p, k, e) == [kind |-> "sensitive", process |-> p, position |-> k, edge |-> e]
MCConstruction ==
  << Connecting(mas, clk, "CLK", "Peer"), Connecting(clk, slv, "CLK", "Peer"), Connecting(inner, clk, "CLK", "Peer"),
     Sensitive(mas, 1, "PositiveEdge"), Sensitive(slv, 1, "PositiveEdge"), Sensitive(inner, 1, "PositiveEdge"),
     Sensitive(mas, 1, "NegativeEdge"), Sensitive(mon, 1, "PositiveEdge"),
     Connecting(mas, slv, "REQ", "Peer"), Connecting(mas, mon, "REQ", "Peer"), Connecting(slv, mas, "ACK", "Peer"),
     Connecting(mas, slv, "MODE", "Peer"), Connecting(slv, inner, "REQ", "PassThru"),
     Connecting(far, clk, "CLK", "Peer"), Sensitive(far, 1, "PositiveEdge") >>
MCModules == {top, sub, second}
MCSubmodules == [m \in MCModules |-> IF m = top THEN <<sub, second>> ELSE << >>]
MCProcessesOf == [m \in MCModules |-> CASE m = top -> <<mon>>
                                        [] m = sub -> <<clk, mas, slv, inner>>
                                        [] m = second -> <<far>>]

\* What the walk from the top module by first submodules comes to, the least set closed
\* under it, has one module without submodules: elaboration is of its processes.
OnTheWalk(m) ==
  \A walk \in SUBSET MCModules :
    Top \in walk /\ (\A n \in walk : Submodules[n] # << >> => Head(Submodules[n]) \in walk) => m \in walk
ASSUME MCElaborates ==
  \A m \in MCModules : OnTheWalk(m) /\ Submodules[m] = << >> => Elaborated = ProcessesOf[m]

\* The designs are of the kinds the theorems are about, but for the request passed to the inner module.
ASSUME MCDesigns ==
  /\ NotToItself /\ OneInput /\ AccessedOneWay
  /\ \A n \in DOMAIN Construction : Construction[n].kind = "connect" /\ Construction[n].type # "Peer" => n \in Optional
=============================================================================
