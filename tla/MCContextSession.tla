-------------------------- MODULE MCContextSession --------------------------
(* Small instances of ContextSession. *)
EXTENDS ContextSession
=============================================================================
