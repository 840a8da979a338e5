-------------------------- MODULE MCPipelineMenus ---------------------------
(***************************************************************************)
(* The pipeline slice on programs of four kinds, checked in one run.       *)
(***************************************************************************)
EXTENDS Pipeline, MCWords

VARIABLE menu   \* the words that the program of this behaviour is made of

\* Branches, calls, returns and the stack, without interrupts.
FlowWords == Inherent({"CALL", "CALA", "RET", "BIOZ", "LACK"})
               \cup {Reserved(0), Target(2)}

\* The interrupt sequence around one-cycle instructions, calls and returns.
IrqWords == Inherent({"EINT", "DINT", "MPYK", "RET", "CALL"}) \cup {Target(0)}

\* The interrupt sequence around instructions of two and three cycles.
IrqTransferWords == Inherent({"EINT", "OUT", "TBLR"})

\* Transfers with indirect addresses, and the counter branch.
TransferWords == Inherent({"TBLW", "BANZ"})
  \cup {[Ind("IN") EXCEPT !.inc = TRUE, !.keep = FALSE, !.narp = 1],
        [Ind("TBLR") EXCEPT !.dec = TRUE], Reserved(0)}

\* Every behaviour draws its words from one of the sets above.
Menus == {FlowWords, IrqWords, IrqTransferWords, TransferWords}
MenuWords == UNION Menus

MenuFetch ==
  \E w \in menu, bio, irq \in BOOLEAN, d \in IoValues : Serve(w, bio, irq, d)

MenuNext ==
  /\ UNCHANGED menu
  /\ \/ PhaseStep(FALSE) \/ IdleBoundary \/ MenuFetch
     \/ PhaseStep(TRUE) \/ ResetBoundary \/ SliceInitialize

MenuInit == Init /\ menu \in Menus

MenuSpec == MenuInit /\ [][MenuNext]_<<vars, menu>>
=============================================================================
