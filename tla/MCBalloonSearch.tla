--------------------------- MODULE MCBalloonSearch ---------------------------
(* Instances of BalloonSearch for TLC. *)
EXTENDS BalloonSearch

CONSTANTS p1, p2, nil, before

\* Balloons and stats records of one player.  What their post named as the slot
\* differs for those that GetPersistenceInfo looks at.
RecordsOfOne ==
  {r \in Record :
     /\ r.owner = p2
     /\ r.posted # 1
     /\ ~ r.complete \/ r.dataType = Achievement => r.posted = 0}
==============================================================================
