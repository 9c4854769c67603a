------------------------------- MODULE MCServer -------------------------------
(* Instances of Server for TLC. *)
EXTENDS Server, TLC

CONSTANTS c1, c2, p1, p2, h1, nobody

OnePlayerEach == c1 :> p1 @@ c2 :> p2
===============================================================================
