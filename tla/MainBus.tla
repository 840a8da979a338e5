------------------------------- MODULE MainBus -------------------------------
(***************************************************************************)
(* The bus of the main board, rtl/wrappers/hard_drivin_main_bus_control.sv:*)
(* the held strobes of hard_drivin_main_rvas_timing.sv, the acknowledge of *)
(* hard_drivin_main_dtack_decode.sv and, of the address decode, the kind   *)
(* of target that is selected.                                             *)
(*                                                                         *)
(* A step is one clock edge with at most one bus event.  The main 68000    *)
(* and the devices are the environment:                                    *)
(*   - /AS falls while the 8 MHz clock is high (S2), or while it is low    *)
(*     once the previous acknowledge was sampled away;                     *)
(*   - /AS rises at or after a falling clock edge that sampled /DTACK low; *)
(*     an interrupt acknowledge (CPU space) ends by /VPA, later;           *)
(*   - a device that is ready stays ready until /AS rises, and is ready in *)
(*     the end.                                                            *)
(***************************************************************************)
EXTENDS Integers

VARIABLES
  high,                 \* main_8mhz_high
  asLow, target,        \* /AS is asserted, and what the address selects
  ready,                \* HRDY of the graphics processors, or the DUART's answer
  mainSeen, mainRva,    \* as_seen_q, rva_o
  sampledLow,           \* ~sampled_dtack_n_o
  rvas0, rvas,          \* rvas0_active_q, rvas_active_q
  acked                 \* history: this cycle's acknowledge has been sampled

mainVars == <<high, asLow, target, ready, mainSeen, mainRva, sampledLow, rvas0, rvas, acked>>

\* ROM, RAM and the slow buses answer by RVA; the graphics processors and the
\* DUART for themselves; CPU space is not acknowledged.
Targets == {"default", "highSpeed", "duart", "cpu"}

Selected(t) == asLow /\ target = t

DtackLow ==
  \/ mainRva /\ ~Selected("cpu") /\ ~Selected("highSpeed") /\ ~Selected("duart")
  \/ Selected("highSpeed") /\ rvas0 /\ ready
  \/ Selected("duart") /\ rvas /\ ready

\* A falling edge of the clock sees the acknowledge end.
SampledRelease(ev) == ev = "fall" /\ sampledLow /\ ~DtackLow

\* Mutant: the release clock dominates the preset.
HoldRvas0Released(ev) ==
  rvas0' = (/\ ~SampledRelease(ev)
            /\ \/ rvas0
               \/ ev = "fall" /\ mainSeen
               \/ ev = "assert" /\ ~high)

\* The preset of /RVAS0, in the low phase, dominates its release.
HoldRvas0(ev) ==
  rvas0' = (\/ ev = "assert" /\ ~high
            \/ ev = "fall" /\ mainSeen
            \/ rvas0 /\ ~SampledRelease(ev))

\* Mutant: /RVAS is released with /AS and not with the acknowledge.
HoldRvasEarly(ev) ==
  rvas' = ((ev = "rise" /\ mainSeen) \/ (rvas /\ ev # "fall"))

HoldRvas(ev) ==
  rvas' = ((ev = "rise" /\ mainSeen) \/ (rvas /\ ~SampledRelease(ev)))

MainEdge(ev) ==
  /\ high' = IF ev \in {"rise", "fall"} THEN ev = "rise" ELSE high
  /\ mainSeen' = (ev = "assert" \/ (mainSeen /\ ev # "rise"))
  /\ mainRva' = IF ev = "rise" THEN mainSeen ELSE mainRva
  /\ sampledLow' = IF ev = "fall" THEN DtackLow ELSE sampledLow
  /\ HoldRvas0(ev) /\ HoldRvas(ev)

\* The clock moves; its falling edge samples the acknowledge.
MainRise == ~high /\ MainEdge("rise") /\ UNCHANGED <<asLow, target, ready, acked>>

MainFall ==
  /\ high /\ MainEdge("fall")
  /\ acked' = (asLow /\ (acked \/ DtackLow))
  /\ UNCHANGED <<asLow, target, ready>>

StartCycle(t) ==
  /\ ~asLow /\ (high \/ ~sampledLow)
  /\ asLow' = TRUE /\ target' = t /\ ready' = FALSE /\ acked' = FALSE
  /\ MainEdge("assert")

\* The end of a cycle: acknowledged, or by /VPA once RVA has come and gone.
EndCycle ==
  /\ asLow
  /\ IF target = "cpu" THEN ~mainSeen /\ ~mainRva ELSE acked
  /\ asLow' = FALSE /\ ready' = FALSE /\ acked' = FALSE
  /\ MainEdge("none")
  /\ UNCHANGED target

DeviceReady ==
  /\ \/ Selected("highSpeed") /\ rvas0
     \/ Selected("duart") /\ rvas
  /\ ready' = TRUE
  /\ MainEdge("none")
  /\ UNCHANGED <<asLow, target, acked>>

MainInit ==
  /\ high = FALSE /\ asLow = FALSE /\ target \in Targets /\ ready = FALSE
  /\ mainSeen = FALSE /\ mainRva = FALSE /\ sampledLow = FALSE
  /\ rvas0 = FALSE /\ rvas = FALSE /\ acked = FALSE

MainNext == \/ MainRise \/ MainFall \/ EndCycle \/ DeviceReady
            \/ \E t \in Targets : StartCycle(t)

MainSpec == MainInit /\ [][MainNext]_mainVars

MainFairness == WF_mainVars(MainRise) /\ WF_mainVars(MainFall)
                /\ WF_mainVars(EndCycle) /\ WF_mainVars(DeviceReady)

-----------------------------------------------------------------------------
\* The strobes of a cycle are not withdrawn while it waits for its answer:
\* the end of an earlier acknowledge, sampled late, does not release them.
StrobesHeld ==
  [][asLow /\ asLow' /\ ~acked' =>
       /\ (rvas0 \/ mainSeen) => (rvas0' \/ mainSeen')
       /\ (rvas \/ mainSeen) => (rvas' \/ mainSeen')]_mainVars

\* Every cycle of the main processor is answered and ends.
MainCyclesEnd == asLow ~> ~asLow
=============================================================================
