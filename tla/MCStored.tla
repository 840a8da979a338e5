------------------------------ MODULE MCStored ------------------------------
(***************************************************************************)
(* The instance of the slice with a program memory.                        *)
(***************************************************************************)
EXTENDS Stored, MCWords

\* Every program of three words made of these, with both data.
StoredWords == Inherent({"TBLW", "LACK", "B", "EINT"})
                 \cup {[W("TBLR") EXCEPT !.data = 0], Reserved(2)}
=============================================================================
