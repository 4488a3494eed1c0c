---------------------------- MODULE MCScheduler ----------------------------
(* Small instances of Scheduler.tla, with the values of MCSyncKernel.tla.    *)
EXTENDS MCSyncKernel, SchedulerProperties

CONSTANTS
  Period,        \* the half period of every clock
  rising, falling  \* synchronous processes sensitive to one edge only

MCHalfPeriod  == [c \in Clocks |-> Period]
MCStartPhase  == [c \in Clocks |-> "JustAfterNegativeEdge"]
MCClockOf     == [p \in Synchronous |-> CHOOSE c \in Clocks : TRUE]
MCSensitiveTo == [p \in Synchronous |-> CASE p = rising  -> "PositiveEdge"
                                          [] p = falling -> "NegativeEdge"
                                          [] OTHER -> "PositiveAndNegativeEdge"]
=============================================================================
