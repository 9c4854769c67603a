----------------------------- MODULE MCDataStore -----------------------------
(* Instances of DataStore for TLC.  The .cfg files choose the constants; the  *)
(* function a .cfg cannot write is here.                                      *)
EXTENDS DataStoreRefinement, TLC

CONSTANTS c1, c2, p1, p2

\* Each player has a connection of its own.
OnePlayerEach == c1 :> p1 @@ c2 :> p2

==============================================================================
