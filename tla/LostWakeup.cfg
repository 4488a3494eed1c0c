SPECIFICATION SchedSpec
CONSTANTS
  NoProcess = NoProcess
  NoAgent = NoAgent
  lock = lock
  block = block
  pool = pool
  dice = dice
  box = box
  box2 = box2
  Processes = {p1, p2}
  Synchronous = {}
  Timers = {}
  Semaphores = {lock}
  Mailboxes = {}
  Events = {}
  Elements = {}
  Durations = {1, 2}
  StoppableTimers = {}
  SuspendableClocks = {}
  Period = 1
  rising = rising
  falling = falling
  Clocks = {}
  HalfPeriod <- MCHalfPeriod
  StartPhase <- MCStartPhase
  ClockOf <- MCClockOf
  SensitiveTo <- MCSensitiveTo
  TimeMax = 9
  MaxReasons = 3
  MaxCalls = 4
  TotalKeys <- MCTotalKeys
  Policy <- MCPolicy
  MailboxMax <- MCMailboxMax
  MailboxOrder <- MCMailboxOrder
INVARIANTS NoWakeupLost
CHECK_DEADLOCK FALSE
