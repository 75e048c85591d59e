--------------------------- MODULE MCPortForward ---------------------------
(* Small instances of PortForward. *)
EXTENDS PortForward
=============================================================================
