-------------------------- MODULE MCWatcherManager --------------------------
(* Small instances of WatcherManager. *)
EXTENDS WatcherManager
=============================================================================
