-------------------------- MODULE MCRequestManager --------------------------
(* Small instances of RequestManager. *)
EXTENDS RequestManager
=============================================================================
