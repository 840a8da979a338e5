----------------------------- MODULE StagedRam ------------------------------
(***************************************************************************)
(* rtl/core/tms32010_internal_ram.sv with REGISTERED_READ, as the pipeline *)
(* slice uses it: the operand is captured at every enabled edge, ahead of  *)
(* the boundary at which the instruction consumes it.  Core and Pipeline   *)
(* read the memory combinationally; this module relates the two.           *)
(*                                                                         *)
(* A step is one clock edge.  The core's address changes at a boundary, or *)
(* when the slice is initialized, and the core writes at a boundary.  The  *)
(* preload port writes at any edge at which the core is not clocked        *)
(* (asserted by the core).                                                 *)
(***************************************************************************)
EXTENDS Integers

CONSTANTS RamSize, DataWords, AddressLimit

ASSUME RamAssumption ==
  RamSize \in Nat \ {0} /\ AddressLimit \in Nat /\ RamSize <= AddressLimit /\ 0 \in DataWords

Addresses == 0 .. AddressLimit - 1
Cells     == 0 .. RamSize - 1

VARIABLES
  cells,         \* memory
  address,       \* read_address_i, the effective address
  subphase,      \* phase_o of the slice
  readValid, readData, forward, forwardData,    \* captured_*
  settled,       \* history: no capture is owed since the address last changed
  overwritten    \* history: a preload hit the address while the clock was stopped

dataVars == <<cells, address, subphase, readValid, readData, forward, forwardData,
             settled, overwritten>>

\* What a combinational read returns.
Combinational == IF address \in Cells THEN cells[address] ELSE 0

\* read_data_o
RegisteredRead ==
  IF readValid THEN (IF forward THEN forwardData ELSE readData) ELSE 0

\* An address without a word is redirected to word zero.
Qualified == IF address \in Cells THEN address ELSE 0

\* No write at this edge.
NoWrite == [hit |-> FALSE, at |-> 0, word |-> 0]
Write   == [hit : {TRUE}, at : Cells, word : DataWords]

\* Mutant: the memory alone, which returns the old word.
CaptureOld(w) ==
  /\ readValid' = (address \in Cells)
  /\ readData' = cells[Qualified]
  /\ forward' = FALSE
  /\ forwardData' = w.word

\* The array returns the word from before the edge; a write to the same
\* address is kept beside it.
Capture(w) ==
  /\ readValid' = (address \in Cells)
  /\ readData' = cells[Qualified]
  /\ forward' = (w.hit /\ w.at = Qualified)
  /\ forwardData' = w.word

Store(w) == cells' = IF w.hit THEN [cells EXCEPT ![w.at] = w.word] ELSE cells

\* An enabled edge inside the machine cycle.
SubphaseStep(w) ==
  /\ subphase # 3 /\ subphase' = subphase + 1
  /\ Capture(w) /\ Store(w)
  /\ settled' = TRUE /\ overwritten' = FALSE
  /\ UNCHANGED address

\* A parked bus: the phase stays, the capture goes on.
ParkedStep(w) ==
  /\ Capture(w) /\ Store(w)
  /\ settled' = TRUE /\ overwritten' = FALSE
  /\ UNCHANGED <<address, subphase>>

\* The boundary: an instruction is consumed and the next one may own the RAM.
OwnerChange(w, a) ==
  /\ subphase = 3 /\ subphase' = 0
  /\ Capture(w) /\ Store(w)
  /\ address' = a
  /\ settled' = (a = address) /\ overwritten' = FALSE

\* The clock enable is clear: the read side holds, the preload port writes.
Pause(w) ==
  /\ Store(w)
  /\ overwritten' = (overwritten \/ (w.hit /\ w.at = Qualified))
  /\ UNCHANGED <<address, subphase, readValid, readData, forward, forwardData, settled>>

\* initialize_i of the slice, with the clock enable running or not.  The RAM
\* has no reset.
SliceReset(w, a, ce) ==
  /\ subphase' = 0 /\ address' = a /\ Store(w)
  /\ settled' = (ce /\ a = address)
  /\ IF ce THEN Capture(w) /\ overwritten' = FALSE
     ELSE /\ UNCHANGED <<readValid, readData, forward, forwardData>>
          /\ overwritten' = (w.hit /\ w.at = Qualified)

RamInit ==
  /\ cells \in [Cells -> DataWords] /\ address \in Addresses /\ subphase = 0
  /\ readValid \in BOOLEAN /\ forward \in BOOLEAN      \* unknown at power-up
  /\ readData \in DataWords /\ forwardData \in DataWords
  /\ settled = FALSE /\ overwritten = FALSE

RamStep ==
  \E w \in Write \cup {NoWrite}, a \in Addresses :
    \/ SubphaseStep(w) \/ ParkedStep(w)
    \/ OwnerChange(w, a)
    \/ Pause(w)
    \/ \E ce \in BOOLEAN : SliceReset(w, a, ce)

RamSpec == RamInit /\ [][RamStep]_dataVars

-----------------------------------------------------------------------------
RamTypeOK ==
  /\ cells \in [Cells -> DataWords] /\ address \in Addresses /\ subphase \in 0 .. 3
  /\ readValid \in BOOLEAN /\ forward \in BOOLEAN
  /\ readData \in DataWords /\ forwardData \in DataWords
  /\ settled \in BOOLEAN /\ overwritten \in BOOLEAN

(* The operand that is consumed at the boundary is the word the memory     *)
(* holds, and so it is from phase 1 on, and in phase 0 when the same       *)
(* address is read again, also right after it was written (IN and then OUT *)
(* of one word): only a preload into a stopped machine is seen later.      *)
OperandCurrent ==
  (subphase # 0 \/ settled) /\ ~overwritten => RegisteredRead = Combinational
=============================================================================
