------------------------------- MODULE KeyPool -------------------------------
(***************************************************************************)
(* What a semaphore promises, whatever its policy: a request is granted    *)
(* whole and at most once, the keys given out never exceed the keys there  *)
(* are, and only a holder returns keys.  There is no count of free keys    *)
(* here: Semaphore.tla shows that the one the code keeps is right.         *)
(***************************************************************************)
EXTENDS Integers, SequencesExt

CONSTANTS Clients, Pools, Capacity

VARIABLES
  asked,  \* pool -> requests not granted yet
  owned   \* pool -> client -> keys it holds

poolVars == <<asked, owned>>

GivenOut(s) == SumFunction(owned[s])

Init ==
  /\ asked = [s \in Pools |-> <<>>]
  /\ owned = [s \in Pools |-> [p \in Clients |-> 0]]

Ask(s, p, n) ==
  /\ asked' = [asked EXCEPT ![s] = Append(@, [proc |-> p, keys |-> n])]
  /\ UNCHANGED owned

Grant(s, i) ==
  /\ GivenOut(s) + asked[s][i].keys <= Capacity[s]
  /\ asked' = [asked EXCEPT ![s] = RemoveAt(@, i)]
  /\ owned' = [owned EXCEPT ![s][asked[s][i].proc] = @ + asked[s][i].keys]

GiveBack(s, p, n) ==
  /\ n <= owned[s][p]
  /\ owned' = [owned EXCEPT ![s][p] = @ - n]
  /\ UNCHANGED asked

Next == \E s \in Pools :
  \/ \E i \in DOMAIN asked[s] : Grant(s, i)
  \/ \E p \in Clients, n \in 1..Capacity[s] : Ask(s, p, n) \/ GiveBack(s, p, n)

Spec == Init /\ [][Next]_poolVars
=============================================================================
