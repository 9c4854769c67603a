---------------------------- MODULE BalloonBoard ----------------------------
(***************************************************************************)
(* What Balloon World's hide-it mode promises a player: in each kingdom at *)
(* most one balloon of the player's is up for others to find; hiding one   *)
(* takes the last one down; a balloon that came down never comes back, and *)
(* its number is never given to another.                                   *)
(***************************************************************************)
CONSTANTS
  Players,
  Kingdoms,
  Numbers     \* what balloons are numbered with

VARIABLES
  board,      \* player, kingdom -> the balloon that is up: a set of one or none
  used        \* the numbers given out

bbVars == <<board, used>>

Init ==
  /\ board = [pk \in Players \X Kingdoms |-> {}]
  /\ used = {}

\* The player hides a balloon: it replaces the one that was up.
Hide(p, k, n) ==
  /\ n \notin used
  /\ used' = used \cup {n}
  /\ board' = [board EXCEPT ![<<p, k>>] = {n}]

\* The player takes the balloon down.
TakeDown(p, k) == board' = [board EXCEPT ![<<p, k>>] = {}] /\ used' = used

\* A number goes to something that is no balloon.
Spend(n) == n \notin used /\ used' = used \cup {n} /\ board' = board

Next ==
  \/ \E p \in Players, k \in Kingdoms :
       TakeDown(p, k) \/ \E n \in Numbers : Hide(p, k, n)
  \/ \E n \in Numbers : Spend(n)

Spec == Init /\ [][Next]_bbVars

=============================================================================
