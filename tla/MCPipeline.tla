----------------------------- MODULE MCPipeline -----------------------------
(***************************************************************************)
(* Model-checking instances of the pipeline slice.                         *)
(***************************************************************************)
EXTENDS Pipeline, MCWords

\* Enabled, disabled and multiply-extended requests around every transaction.
LiveWords == Inherent({"EINT", "DINT", "MPYK", "B", "CALA", "OUT", "TBLW",
                       "ILLEGAL"})
               \cup {Target(0)}

\* A branch in the protected slot.
BranchWords == Inherent({"EINT", "B"}) \cup {Target(0)}
=============================================================================
