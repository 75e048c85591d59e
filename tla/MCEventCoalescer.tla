-------------------------- MODULE MCEventCoalescer --------------------------
(* Small instances of EventCoalescer: two keys, a few events each. *)
EXTENDS EventCoalescer

CONSTANTS MaxVer  \* bound: events the cluster produces per key

MCEvent == [key : Keys, ver : 1..MaxVer, type : {"MODIFIED", "DELETED"}]
=============================================================================
