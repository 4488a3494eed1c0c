---------------------------- MODULE MCLinkedList ----------------------------
(* Small instances of LinkedList.tla.                                        *)
EXTENDS LinkedListProperties, ViewSort, TLC

CONSTANTS a, b, c

Symmetry == Permutations(Elems)
=============================================================================
