------------------------------ MODULE MCAgent ------------------------------
(***************************************************************************)
(* A table of four groups: one that is never updated, as node_basic, and   *)
(* three with periods that give their offsets something to do, two of them *)
(* the groups that ask systemd.                                            *)
(***************************************************************************)
EXTENDS Agent

AllThreads == {"send", "recv", "pod", "http", "containers", "updates"}
Periods == <<2, 0, 1, 2>>
OneUnit == [u \in {"docker"} |-> 3]
=============================================================================
