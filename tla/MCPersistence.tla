---------------------------- MODULE MCPersistence ----------------------------
(* Instances of Persistence for TLC. *)
EXTENDS Persistence, TLC

CONSTANTS c1, c2, p1, p2

OnePlayerEach == c1 :> p1 @@ c2 :> p2
==============================================================================
