-------------------------------- MODULE Clock --------------------------------
(***************************************************************************)
(* src/Clock.cc: the bit a clock drives, when it is suspended, and how far *)
(* the next edge is that a process is sensitive to.                        *)
(***************************************************************************)
EXTENDS Integers

CONSTANTS
  Clocks,
  HalfPeriod,  \* clock -> mHalfPeriod
  StartPhase   \* clock -> mClockPhaseStart

ClockPhases == {"JustBeforePositiveEdge", "JustAfterPositiveEdge",
                "JustBeforeNegativeEdge", "JustAfterNegativeEdge"}

ASSUME ClockAssumption ==
  /\ HalfPeriod \in [Clocks -> Nat \ {0}]
  /\ StartPhase \in [Clocks -> ClockPhases]

Rising  == {"PositiveEdge", "PositiveLevel"}   \* next at a positive edge
Falling == {"NegativeEdge", "NegativeLevel"}   \* next at a negative edge
Sensitivities == Rising \cup Falling \cup {"PositiveAndNegativeEdge"}

VARIABLE clock  \* clock -> mProcessState, mClockScheduleSuspend, mClockPhase,
                \*          mClockEdge, mBit and mTimeHasAdvanced

ClockStates ==
  [state : {"Running", "Suspended"}, suspend : BOOLEAN, phase : ClockPhases,
   edge : {"PositiveEdge", "NegativeEdge"}, bit : {0, 1}, advanced : BOOLEAN]

\* Start: bit and edge follow from the phase.
BitAt(phase)  == IF phase \in {"JustAfterPositiveEdge", "JustBeforeNegativeEdge"} THEN 1 ELSE 0
EdgeAt(phase) == IF BitAt(phase) = 1 THEN "NegativeEdge" ELSE "PositiveEdge"

Started(phase, suspend) ==
  [state |-> "Running", suspend |-> suspend, phase |-> phase,
   edge |-> EdgeAt(phase), bit |-> BitAt(phase), advanced |-> FALSE]

ClockInit == clock = [c \in Clocks |-> Started(StartPhase[c], FALSE)]

-----------------------------------------------------------------------------

\* ProcessExecute: a suspend takes effect here, so that the synchronous
\* processes of the edge before still saw the clock running.
Tick(c) ==
  clock' =
    IF clock[c].suspend
      THEN [clock EXCEPT ![c].state = "Suspended"]
      ELSE LET rises == clock[c].bit = 0
           IN [clock EXCEPT
                 ![c].bit      = IF rises THEN 1 ELSE 0,
                 ![c].phase    = IF rises THEN "JustAfterPositiveEdge" ELSE "JustAfterNegativeEdge",
                 ![c].edge     = IF rises THEN "PositiveEdge" ELSE "NegativeEdge",
                 ![c].advanced = TRUE]

\* ProcessStateModify.  A clock that runs again keeps its order to suspend.
Suspend(c) ==
  /\ clock[c].state = "Running"
  /\ clock' = [clock EXCEPT ![c].suspend = TRUE]

Resume(c) ==
  /\ clock[c].state = "Suspended"
  /\ clock' = [clock EXCEPT ![c] = Started(@.phase, @.suspend)]

-----------------------------------------------------------------------------
(* SimTimeIncrForNextClockEdge, in half periods.                           *)

\* From the start, at the phase the clock was made with.
FromStart(phase, sens) ==
  CASE phase = "JustBeforePositiveEdge" -> IF sens \in Falling THEN 1 ELSE 0
    [] phase = "JustBeforeNegativeEdge" -> IF sens \in Rising  THEN 1 ELSE 0
    [] phase = "JustAfterPositiveEdge"  ->
         CASE sens = "PositiveEdge" -> 2 [] sens = "PositiveLevel" -> 0 [] OTHER -> 1
    [] phase = "JustAfterNegativeEdge"  ->
         CASE sens = "NegativeEdge" -> 2 [] sens = "NegativeLevel" -> 0 [] OTHER -> 1

\* From an edge: one half period, or two to the next edge of the same kind.
FromEdgeAlways(bit, sens) == 1  \* mutant
FromEdge(bit, sens) ==
  IF sens \in (IF bit = 1 THEN Rising ELSE Falling) THEN 2 ELSE 1

SimTimeIncrForNextClockEdge(k, c, sens) ==
  HalfPeriod[c] * (IF k.advanced THEN FromEdge(k.bit, sens)
                                 ELSE FromStart(StartPhase[c], sens))
=============================================================================
