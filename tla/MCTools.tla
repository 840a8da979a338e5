------------------------------- MODULE MCTools -------------------------------
(***************************************************************************)
(* The instances of References, Release and Campaign that TLC checks.  The *)
(* release tools and the capture tools share no state: a behavior moves    *)
(* one of them, chosen at the start, while the other rests.                *)
(***************************************************************************)
EXTENDS MCRelease, MCCampaign

VARIABLE family

\* A campaign of which nothing more is asked than that it is one.
CampaignRests ==
  /\ tool = "push_pop"
  /\ file = (CHOOSE f \in Recordings("push_pop") : TRUE)
  /\ meta = (CHOOSE m \in Sidecars("push_pop", file, Absent) : TRUE)
  /\ registers = Absent
  /\ CampaignInit

ToolsInit ==
  \/ family = "release" /\ CampaignRests /\ MCInit
  \/ family = "captures" /\ head = "k1" /\ MCInit /\ CampaignInit

toolVars == <<family, refVars, releaseVars, vars>>

\* A campaign may end with any report; a tool that has none goes on.
CampaignOver == family = "captures" /\ report # Absent /\ UNCHANGED toolVars

ToolsNext ==
  \/ family = "release" /\ MCNext /\ UNCHANGED <<family, vars>>
  \/ family = "captures" /\ CaptureNext /\ UNCHANGED <<family, refVars, releaseVars>>
  \/ CampaignOver

ToolsSpec == ToolsInit /\ [][ToolsNext]_toolVars
=============================================================================
