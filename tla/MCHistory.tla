----------------------------- MODULE MCHistory -----------------------------
(* Small instances of History.tla: an interface and a table that a process   *)
(* edits, each with a view that observes it.                                 *)
EXTENDS History

CONSTANTS intf, o, e, w

MCHome == [v \in Views |-> CASE v = o -> intf [] v = w -> e [] OTHER -> v]
MCOpens == [t \in Tables |-> Operations]
MCPermission == [v \in Views |-> IF v \in Observers THEN {<<"Other", "Read">>} ELSE Rights]
=============================================================================
