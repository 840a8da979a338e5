----------------------------- MODULE MCCoreMenus -----------------------------
(***************************************************************************)
(* The standalone core on programs of two kinds, checked in one run.       *)
(***************************************************************************)
EXTENDS Core, MCWords

VARIABLE menu   \* the words that the program of this behaviour is made of

\* Calls, returns, branches and interrupts; no stores.
FlowWords == Inherent({"CALL", "CALA", "RET", "EINT", "DINT", "MPYK"})
               \cup {Target(1)}

\* Every data-addressed, I/O and table instruction, with no computed control.
TransferWords ==
  {[Ind("IN") EXCEPT !.inc = TRUE, !.keep = FALSE, !.narp = 1],
   [Ind("TBLR") EXCEPT !.dec = TRUE, !.keep = FALSE], W("TBLW"), Ind("OUT"),
   [W("DMOV") EXCEPT !.dma = 1], [Ind("LAR") EXCEPT !.dec = TRUE],
   W("PUSH")}

Menus == {FlowWords, TransferWords}
MenuWords == UNION Menus

\* No word here looks at BIO.
MenuNext ==
  /\ UNCHANGED menu
  /\ \/ \E w \in menu, irq \in BOOLEAN, d \in IoValues : CoreStep(w, TRUE, irq, d)
     \/ CoreReset \/ CoreInitialize
     \/ menu = TransferWords /\ DebugWrite

MenuInit == CoreInit /\ menu \in Menus

MenuSpec == MenuInit /\ [][MenuNext]_<<coreVars, menu>>
=============================================================================
