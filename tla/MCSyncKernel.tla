---------------------------- MODULE MCSyncKernel ----------------------------
(* Small instances of SyncKernel.tla: each cfg chooses which agents exist.   *)
EXTENDS SyncProperties

CONSTANTS
  lock,      \* one key, round robin with block
  block,     \* two keys, round robin with block
  pool,      \* two keys, round robin without block
  dice,      \* two keys, at random
  box, box2  \* mailboxes of two entries, in order of construction

MCTotalKeys == [s \in Semaphores |-> IF s = lock THEN 1 ELSE 2]
MCPolicy == [s \in Semaphores |-> CASE s = dice -> "Random"
                                    [] s = pool -> "RoundRobinWithNoBlock"
                                    [] OTHER -> "RoundRobinWithBlock"]
MCMailboxMax == [m \in Mailboxes |-> 2]
MCMailboxOrder == SelectSeq(<<box, box2>>, LAMBDA m : m \in Mailboxes)

\* No definition tells one process, or one element, from another.
MCSymmetry == Permutations(Processes) \cup Permutations(Elements)
=============================================================================
