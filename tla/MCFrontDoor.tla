----------------------------- MODULE MCFrontDoor -----------------------------
(***************************************************************************)
(* The parts around the object table: Login, Presence, Dashboard and        *)
(* LookupCache.  They share no state, so that one run takes them in turn: a *)
(* behaviour runs one part and leaves the others as they start, and the     *)
(* states of the parts add up instead of multiplying.                       *)
(***************************************************************************)
EXTENDS Login, Presence, Dashboard, LookupCache

VARIABLE part

frontDoorVars == <<part, presenceVars, dashboardVars, cacheVars, loginVars>>

Parts == {"login", "presence", "dashboard", "cache"}

FDInit ==
  /\ part \in Parts
  /\ LoginInit /\ PresenceInit /\ DashboardInit /\ CacheInit
  /\ part # "login" => linked = [n \in Nsas |-> Nobody] /\ mayPlay = {}
  /\ part # "cache" => truth = CHOOSE v \in Values : TRUE

FDNext ==
  /\ UNCHANGED part
  /\ \/ /\ part = "login" /\ LoginNext
        /\ UNCHANGED <<presenceVars, dashboardVars, cacheVars>>
     \/ /\ part = "presence" /\ PresenceNext
        /\ UNCHANGED <<loginVars, dashboardVars, cacheVars>>
     \/ /\ part = "dashboard" /\ DashboardNext
        /\ UNCHANGED <<loginVars, presenceVars, cacheVars>>
     \/ /\ part = "cache" /\ CacheNext
        /\ UNCHANGED <<loginVars, presenceVars, dashboardVars>>

\* The fairness of PresenceFairSpec; the other parts have none.
FDSpec ==
  FDInit /\ [][FDNext]_frontDoorVars
    /\ WF_frontDoorVars(part = "presence" /\ Reporting
                          /\ UNCHANGED <<part, loginVars, dashboardVars, cacheVars>>)

TypesOK == PresenceTypeOK /\ DashboardTypeOK /\ CacheTypeOK /\ LoginTypeOK

=============================================================================
