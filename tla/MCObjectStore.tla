---------------------------- MODULE MCObjectStore ----------------------------
(* Instances of ObjectStore for TLC. *)
EXTENDS ObjectStore, TLC

CONSTANTS c1, c2, p1, p2, h1, h2, nobody

OnePlayerEach == c1 :> p1 @@ c2 :> p2
==============================================================================
