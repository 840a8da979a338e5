------------------------------ MODULE MCBoard -------------------------------
(***************************************************************************)
(* The instances of SoundBoard, MainBus, BoardLinks and StagedRam that TLC *)
(* checks.                                                                 *)
(* They share no state: a behavior moves one of them, chosen at the start. *)
(***************************************************************************)
EXTENDS SoundBoard, MainBus, BoardLinks, StagedRam

VARIABLE unit

\* The 68000 reads or writes a word of the RAM, moves the latch, or runs an
\* interrupt acknowledge.
MCHostCycles ==
  {[target |-> "program", read |-> r, vpa |-> FALSE, addr |-> a, word |-> 1] :
     r \in BOOLEAN, a \in RamAddrs}
  \cup {[target |-> "latch", read |-> FALSE, vpa |-> FALSE, addr |-> ResetAddr, word |-> w] :
          w \in {0, 1}}
  \cup {[target |-> "other", read |-> TRUE, vpa |-> TRUE, addr |-> ResetAddr, word |-> 0]}

\* The processor reads and writes both words, and a port.
MCRequests ==
  {[kind |-> k, addr |-> a, word |-> 0] : k \in {"read", "write"}, a \in RamAddrs}
  \cup {[kind |-> "io", addr |-> ResetAddr, word |-> 0]}

Sound == unit = "sound" /\ UNCHANGED <<unit, mainVars, linkVars, dataVars>>
Main  == unit = "main"  /\ UNCHANGED <<unit, vars, linkVars, dataVars>>
Links == unit = "links" /\ UNCHANGED <<unit, vars, mainVars, dataVars>>
Staged == unit = "ram"  /\ UNCHANGED <<unit, vars, mainVars, linkVars>>

MCInit == /\ unit \in {"sound", "main", "links", "ram"}
          /\ Init /\ MainInit /\ LinksInit /\ RamInit
          /\ unit # "sound" => ram = [a \in RamAddrs |-> 0] /\ cycle.target = "other"
          /\ unit # "main"  => target = "cpu"
          /\ unit # "ram"   => /\ cells = [i \in Cells |-> 0] /\ address = 0
                               /\ ~readValid /\ ~forward /\ readData = 0 /\ forwardData = 0
          /\ unit # "links" => lanes = {} /\ trigger = FALSE

MCNext == \/ Sound /\ Next
          \/ Main /\ MainNext
          \/ Links /\ LinksNext
          \/ Staged /\ RamStep

MCVars == <<unit, vars, mainVars, linkVars, dataVars>>

\* The fairness of SoundBoard and of MainBus.
MCFairness ==
  /\ WF_MCVars(Sound /\ Rise) /\ WF_MCVars(Sound /\ Fall) /\ WF_MCVars(Sound /\ Deassert)
  /\ WF_MCVars(Main /\ MainRise) /\ WF_MCVars(Main /\ MainFall)
  /\ WF_MCVars(Main /\ EndCycle) /\ WF_MCVars(Main /\ DeviceReady)

MCSpec == MCInit /\ [][MCNext]_MCVars /\ MCFairness
=============================================================================
