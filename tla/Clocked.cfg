SPECIFICATION SchedSpec
CONSTANTS
  NoProcess = NoProcess
  NoAgent = NoAgent
  lock = lock
  block = block
  pool = pool
  dice = dice
  box = box
  box2 = box2
  Processes = {p1, rising, falling}
  Synchronous = {rising, falling}
  Timers = {t1}
  Semaphores = {lock}
  Mailboxes = {}
  Events = {}
  Elements = {}
  Durations = {2, 4}
  StoppableTimers = {}
  SuspendableClocks = {c1}
  Period = 2
  rising = rising
  falling = falling
  Clocks = {c1}
  HalfPeriod <- MCHalfPeriod
  StartPhase <- MCStartPhase
  ClockOf <- MCClockOf
  SensitiveTo <- MCSensitiveTo
  TimeMax = 9
  MaxReasons = 3
  MaxCalls = 3
  TotalKeys <- MCTotalKeys
  Policy <- MCPolicy
  MailboxMax <- MCMailboxMax
  MailboxOrder <- MCMailboxOrder
INVARIANTS AheadInOrder OnItsEdge NoEdgeMissed
CHECK_DEADLOCK FALSE
