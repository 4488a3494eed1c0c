SPECIFICATION FairSchedSpec
CONSTANTS
  NoProcess = NoProcess
  NoAgent = NoAgent
  lock = lock
  block = block
  pool = pool
  dice = dice
  box = box
  box2 = box2
  Processes = {p1, p2}
  Synchronous = {}
  Timers = {t1}
  Semaphores = {lock}
  Mailboxes = {box}
  Events = {ev1}
  Elements = {e1}
  Durations = {0, 1}
  StoppableTimers = {t1}
  SuspendableClocks = {}
  Period = 1
  rising = rising
  falling = falling
  Clocks = {}
  HalfPeriod <- MCHalfPeriod
  StartPhase <- MCStartPhase
  ClockOf <- MCClockOf
  SensitiveTo <- MCSensitiveTo
  TimeMax = 9
  MaxReasons = 3
  MaxCalls = 3
  TotalKeys <- MCTotalKeys
  Policy <- MCPolicy
  MailboxMax <- MCMailboxMax
  MailboxOrder <- MCMailboxOrder
INVARIANTS SchedTypeOK RunsAtCursor OrderAsserted
PROPERTIES SimulationEnds
CHECK_DEADLOCK FALSE
