SPECIFICATION Spec
CONSTANTS
  NoProcess = NoProcess
  NoAgent = NoAgent
  lock = lock
  block = block
  pool = pool
  dice = dice
  box = box
  box2 = box2
  Processes = {p1, p2}
  Synchronous = {}
  Timers = {}
  Semaphores = {lock, pool}
  Mailboxes = {box}
  Events = {}
  Elements = {e1, e2}
  MaxReasons = 3
  MaxCalls = 5
  TotalKeys <- MCTotalKeys
  Policy <- MCPolicy
  MailboxMax <- MCMailboxMax
  MailboxOrder <- MCMailboxOrder
INVARIANTS BinaryMutex PutsCovered NoStrandedRequest MailboxFIFO UnblockedWillRun
PROPERTIES KeyPoolSpec
SYMMETRY MCSymmetry
CHECK_DEADLOCK FALSE
