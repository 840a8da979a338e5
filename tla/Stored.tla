------------------------------- MODULE Stored -------------------------------
(***************************************************************************)
(* The pipeline slice with its program memory.  In Pipeline a fetch returns*)
(* any word; here it returns what is stored at the address on the bus, and *)
(* TBLW replaces it.  A program may rewrite the very words that are being  *)
(* fetched ahead.                                                          *)
(*                                                                         *)
(* TBLW moves a word of the data memory; it becomes a program word with    *)
(* that datum (Words has one for every datum of the instance).             *)
(***************************************************************************)
EXTENDS Pipeline

VARIABLE prog    \* the program memory

ProgType == [Addr -> Words]

\* Mutant: the write strobe comes with the prefetch, one machine cycle late.
TableWriteLate == FetchBoundary /\ ExecuteReady /\ TablePrefetchStep /\ exWord.op = "TBLW"

\* The machine cycle of TBLW in which program_write_o drives WE.
TableWrite == FetchBoundary /\ ExecuteReady /\ TableTransferStep /\ exWord.op = "TBLW"

StoredFetch ==
  /\ \E bio, irq \in BOOLEAN, d \in IoValues : Serve(prog[busAddr], bio, irq, d)
  /\ IF TableWrite
     THEN \E w \in Words : /\ w.data = ReadData(carrier)
                           /\ prog' = [prog EXCEPT ![busAddr] = w]
     ELSE UNCHANGED prog

StoredNext ==
  \/ StoredFetch
  \/ /\ PhaseStep(FALSE) \/ IdleBoundary \/ PhaseStep(TRUE) \/ ResetBoundary
          \/ SliceInitialize
     /\ UNCHANGED prog

StoredInit == Init /\ prog \in ProgType

StoredSpec == StoredInit /\ [][StoredNext]_<<vars, prog>>

-----------------------------------------------------------------------------
(* A word that is about to start is the word stored at its address, also   *)
(* when the TBLW before it rewrote a word that had been fetched already:   *)
(* the fetch of that first time is discarded, the second one counts.       *)
SlotFresh == exValid /\ pstate = "SEQUENTIAL" => exWord = prog[exAddr]

\* The reference model executes the word stored at PC, with the operand that
\* follows it or the datum its accumulator addresses.
ExecutesStored(irq) ==
  LET v == exWord
      operand == prog[NextAddr(exAddr)]
  IN  \/ Abstract!OneCycle(v, irq)
      \/ \E bio \in BOOLEAN : Abstract!TwoWord(v, operand, bio, irq)
      \/ Abstract!Computed(v, irq)
      \/ \E d \in IoValues : v.op \in IoOps /\ Abstract!Transfer(v, d, irq)
      \/ v.op = "TBLR" /\ Abstract!Transfer(v, prog[reg.acc % PcMod].data, irq)
      \/ v.op = "TBLW" /\ Abstract!Transfer(v, 0, irq)

(* What retires is the program in the memory: the word stored at PC, its    *)
(* operand and its table datum, although each was fetched one to three     *)
(* machine cycles before and the memory may have changed.                  *)
ProgramExecutes ==
  [][phase = LastPhase /\ active /\ active' /\ ~VectorStep /\ ExecuteComplete =>
       /\ exAddr = ArchPc
       /\ exWord.op # "TBLW" => exWord = prog[exAddr]
       /\ \E irq \in BOOLEAN : ExecutesStored(irq)]_<<vars, prog>>
=============================================================================
