------------------------------- MODULE MCCore -------------------------------
(***************************************************************************)
(* The instance of the standalone core on which its assertion fails.       *)
(***************************************************************************)
EXTENDS Core, MCWords

\* CALA followed by a store.
DiscardWords == Inherent({"CALA", "LACK", "SACL"})
=============================================================================
