----------------------------- MODULE MCLogStream -----------------------------
(* Small instances of LogStream: logs of two lines for prompt streams, of   *)
(* one line for the others.                                                 *)
EXTENDS LogStream
MCLength == [s \in Streams |-> IF s \in Prompt THEN 2 ELSE 1]
=============================================================================
