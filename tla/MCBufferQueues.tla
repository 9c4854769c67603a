---------------------------- MODULE MCBufferQueues ----------------------------
(* Instances of BufferQueues for TLC. *)
EXTENDS BufferQueues, TLC

CONSTANTS c1, c2, p1, p2, x, y

OnePlayerEach == c1 :> p1 @@ c2 :> p2
===============================================================================
