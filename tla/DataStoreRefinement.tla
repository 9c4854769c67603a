------------------------- MODULE DataStoreRefinement -------------------------
(***************************************************************************)
(* The object table implements BalloonBoard for the types that clients     *)
(* post with PostMetaBinary only, when each player has one connection and  *)
(* clients complete and delete their own objects.                          *)
(***************************************************************************)
EXTENDS DataStore

\* A balloon is hidden when its record is inserted.  From then on the older
\* record that dsDeletePreviousBalloon is about to delete is no longer the
\* player's balloon, though the table still holds it.
Newest(p, t) == {id \in Active(p, t) : \A other \in Active(p, t) : other <= id}

boardBar == [pt \in Pids \X BalloonTypes |-> Newest(pt[1], pt[2])]

usedBar ==
  {id \in Ids : id < dsNextID /\ \A c \in Conns : Inserting(c) => call[c].id # id}

Board == INSTANCE BalloonBoard
           WITH Players <- Pids, Kingdoms <- BalloonTypes, Numbers <- Ids,
                board <- boardBar, used <- usedBar

\* Every run of the handlers is a run of BalloonBoard: whatever the steps of
\* different players' handlers interleave to, hiding replaces, taking down
\* removes, and nothing else changes what is up.
ImplementsBoard == Board!Spec

==============================================================================
