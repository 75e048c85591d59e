--------------------------- MODULE MCResourceFeed ---------------------------
(* Small clusters for ResourceFeed. *)
EXTENDS ResourceFeed, TLC

CONSTANTS u1, u2, n1, ns1

OneObject == u1 :> n1
OneObjectScope == u1 :> ns1

(* An object and its successor of the same name, in one namespace. *)
SameName == (u1 :> n1) @@ (u2 :> n1)
OneScope == (u1 :> ns1) @@ (u2 :> ns1)
=============================================================================
