SPECIFICATION FairSpec
CONSTANTS
  NoProcess = NoProcess
  NoAgent = NoAgent
  lock = lock
  block = block
  pool = pool
  dice = dice
  box = box
  box2 = box2
  Processes = {p1, p2}
  Synchronous = {p2}
  Timers = {t1}
  Semaphores = {dice}
  Mailboxes = {box}
  Events = {ev1}
  Elements = {e1}
  MaxReasons = 3
  MaxCalls = 3
  TotalKeys <- MCTotalKeys
  Policy <- MCPolicy
  MailboxMax <- MCMailboxMax
  MailboxOrder <- MCMailboxOrder
INVARIANTS TypeOK ScheduledTimerFires
PROPERTIES ExclusiveWait DeltaCycleEnds
CHECK_DEADLOCK FALSE
