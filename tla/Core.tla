-------------------------------- MODULE Core --------------------------------
(***************************************************************************)
(* The execution core, rtl/core/tms32010_core.sv: one enabled clock edge   *)
(* consumes one word w from the program bus and either issues it, or       *)
(* advances the transaction an earlier word left pending, or performs the  *)
(* interrupt entry.  bio is the level of the BIO pin (FALSE: asserted),    *)
(* irq says that the active-low INT pin is asserted, and d is the word on  *)
(* the I/O read bus.                                                       *)
(*                                                                         *)
(* The RTL keeps a flag and captured operands for each pending             *)
(* transaction; they are one value here, "none" when the flag is clear.    *)
(* Counters and strobes that nothing reads back (cycle_count_o, retired_o) *)
(* are left out, and internal RAM is read combinationally.                 *)
(***************************************************************************)
EXTENDS Datapath

CONSTANTS
  InferredComputed,   \* ENABLE_INFERRED_COMPUTED_CONTROL
  RamStart,           \* the RAM contents the core may power up with
  IoValues            \* the words an input port may return

VARIABLES
  pc, stack, reg, ram,
  intm,      \* interrupt_mask_o
  ipend,     \* interrupt_pending_o
  idelay,    \* interrupt_delay_one: one more instruction, then the entry
  ientry,    \* interrupt_entry_pending: the next edge is the entry
  illegal,   \* illegal_o
  ctl,       \* two-word operation waiting for its operand, or "none"
  cmp,       \* CALA or RET waiting for the discarded word
  io,        \* IN or OUT waiting for its transfer
  tbl,       \* TBLR or TBLW waiting for its transfer
  xfer       \* table_transfer_phase

irqVars  == <<ipend, idelay, ientry>>
pendVars == <<ctl, cmp, io, tbl, xfer>>
coreVars == <<pc, stack, reg, ram, intm, irqVars, illegal, pendVars>>

ASSUME CoreAssumption ==
  /\ InferredComputed \in BOOLEAN
  /\ RamStart \subseteq [RamAddr -> Value]
  /\ IoValues \subseteq Value

\* Mutant: PC one bit too wide.
NextAddrUnwrapped(a) == a + 1

NextAddr(a) == (a + 1) % PcMod

NoComputed == [op |-> "none", target |-> 0, ret |-> 0]
NoTransfer == [op |-> "none", at |-> 0, da |-> 0, ind |-> FALSE, arp |-> 0,
               inc |-> FALSE, dec |-> FALSE, keep |-> TRUE, narp |-> 0]

\* The operands of a transfer, captured when it issues; at is the port of an
\* I/O instruction, the program address of a table instruction.
Capture(w, at, da) ==
  [op |-> w.op, at |-> at, da |-> da, ind |-> w.ind, arp |-> reg.arp,
   inc |-> w.inc, dec |-> w.dec, keep |-> w.keep, narp |-> w.narp]

\* Mutant: the return address is captured before PC moves on.
CaptureComputedEarly(w) ==
  [op |-> w.op, target |-> IF w.op = "CALA" THEN reg.acc % PcMod ELSE stack[0],
   ret |-> pc]

\* The operands of CALA and RET: the target, and the word to come back to.
CaptureComputed(w) ==
  [op     |-> w.op,
   target |-> IF w.op = "CALA" THEN reg.acc % PcMod ELSE stack[0],
   ret    |-> NextAddr(pc)]

\* Who owns the next enabled edge, in the priority order of the RTL.
Owner ==
  IF ientry THEN "entry"
  ELSE IF cmp.op # "none" THEN "computed"
  ELSE IF ctl # "none" THEN "control"
  ELSE IF tbl.op # "none" THEN "table"
  ELSE IF io.op # "none" THEN "io"
  ELSE "issue"

-----------------------------------------------------------------------------
\* Combinational outputs.

DataAddress(w) ==
  IF ientry THEN 0
  ELSE IF tbl.op # "none" THEN tbl.da
  ELSE IF io.op # "none" THEN io.da
  ELSE IF ctl = "none" /\ cmp.op = "none" /\ w.op \in DataAddressed
    THEN EffectiveAddress(w, reg)
    ELSE 0

ReadData(w) == IF DataAddress(w) < RamWords THEN ram[DataAddress(w)] ELSE 0

\* Mutant: IN, OUT, TBLR and TBLW issue without a check of their address.
WordValidUnchecked(w) ==
  /\ w.op \in Ops
  /\ w.op \in ComputedOps => InferredComputed
  /\ w.op \in MemoryOps => DataAddress(w) < RamWords
  /\ w.op \in DmovOps => DataAddress(w) + 1 < RamWords

WordValid(w) ==
  /\ w.op \in Ops
  /\ w.op \in ComputedOps => InferredComputed
  /\ w.op \in DataAddressed => DataAddress(w) < RamWords
  /\ w.op \in DmovOps => DataAddress(w) + 1 < RamWords

InstructionValid(w) ==
  CASE Owner = "entry"    -> FALSE
    [] Owner = "computed" -> InferredComputed
    [] Owner = "control"  -> w.canon
    [] Owner = "table"    -> xfer => tbl.da < RamWords
    [] Owner = "io"       -> io.da < RamWords
    [] Owner = "issue"    -> WordValid(w)

\* Mutant: the word of an operand fetch also reaches the data bus.
WordOnDataBusLate == ~ientry /\ tbl.op = "none" /\ io.op = "none"

\* A word drives the data strobes unless an entry, a control operand or a
\* transfer owns the edge.  A pending CALA or RET does not inhibit it.
WordOnDataBus == ~ientry /\ tbl.op = "none" /\ io.op = "none" /\ ctl = "none"

DataRead(w) ==
  \/ ~ientry /\ io.op = "OUT"
  \/ ~ientry /\ tbl.op = "TBLW" /\ xfer
  \/ WordOnDataBus /\ w.op \in LoadOps

DataWrite(w) ==
  \/ ~ientry /\ io.op = "IN"
  \/ ~ientry /\ tbl.op = "TBLR" /\ xfer
  \/ WordOnDataBus /\ w.op \in StoreOps

\* Mutant: DMOV writes the word back to where it read it.
WriteAddressUnmoved(w) == DataAddress(w)

WriteAddress(w) ==
  IF io.op = "none" /\ tbl.op = "none" /\ w.op \in DmovOps
    THEN (DataAddress(w) + 1) % DaMod
    ELSE DataAddress(w)

WriteData(w, d) ==
  IF tbl.op = "TBLR" /\ xfer THEN w.data
  ELSE IF io.op # "none" THEN d
  ELSE StoreValue(w, reg, intm, ReadData(w))

RamNext(w, d) ==
  IF DataWrite(w) /\ InstructionValid(w) /\ WriteAddress(w) < RamWords
    THEN [ram EXCEPT ![WriteAddress(w)] = WriteData(w, d)]
    ELSE ram

IoRead  == ~ientry /\ io.op = "IN"
IoWrite == ~ientry /\ io.op = "OUT"
ProgramWrite == ~ientry /\ tbl.op = "TBLW" /\ xfer
ProgramRead  == io.op = "none" /\ ~(tbl.op = "TBLW" /\ xfer)

ProgramNextAddress(w, bio) ==
  CASE Owner = "entry"    -> Vector
    [] Owner = "computed" -> cmp.target
    [] Owner = "control"  -> IF ~w.canon THEN pc
                             ELSE IF BranchTaken(ctl, reg, bio) THEN w.addr
                             ELSE NextAddr(pc)
    [] Owner \in {"io", "table"} -> pc
    [] Owner = "issue"    -> IF ~InstructionValid(w) THEN pc
                             ELSE IF w.op = "CALA" THEN reg.acc % PcMod
                             ELSE IF w.op = "RET"  THEN stack[0]
                             ELSE NextAddr(pc)

\* The operation this edge retires, "none" when it retires nothing.
Retiring(w) ==
  IF ~InstructionValid(w) THEN "none"
  ELSE CASE Owner = "computed" -> cmp.op
         [] Owner = "control"  -> ctl
         [] Owner = "table"    -> IF xfer THEN tbl.op ELSE "none"
         [] Owner = "io"       -> io.op
         [] Owner = "issue"    -> IF w.op \in OneCycleOps THEN w.op ELSE "none"

-----------------------------------------------------------------------------
\* Interrupt request, protected instruction and entry (Figure 2-12).

\* Mutants: the protected slot ends at the next edge instead of the next
\* retirement; the decision uses the mask from before DINT or EINT; the entry
\* needs the pin to be low still.
InterruptUpdateEveryEdge(w, irq) ==
  LET op == Retiring(w)
  IN  /\ ipend' = (ipend \/ irq)
      /\ IF idelay THEN idelay' = FALSE /\ ientry' = ~IntmNext(op, intm)
         ELSE idelay' = (ipend' /\ ~IntmNext(op, intm)) /\ UNCHANGED ientry

InterruptUpdateOldMask(w, irq) ==
  LET op == Retiring(w)
  IN  /\ ipend' = (ipend \/ irq)
      /\ IF op = "none" THEN UNCHANGED <<idelay, ientry>>
         ELSE IF idelay THEN /\ idelay' = (op \in MpyOps)
                             /\ ientry' = (op \notin MpyOps)
         ELSE idelay' = (ipend' /\ ~intm) /\ UNCHANGED ientry

InterruptUpdateLevel(w, irq) ==
  LET op   == Retiring(w)
      mask == IntmNext(op, intm)
  IN  /\ ipend' = (ipend \/ irq)
      /\ IF op = "none" THEN UNCHANGED <<idelay, ientry>>
         ELSE IF idelay THEN /\ idelay' = (~mask /\ op \in MpyOps)
                             /\ ientry' = (~mask /\ irq /\ op \notin MpyOps)
         ELSE idelay' = (ipend' /\ ~mask) /\ UNCHANGED ientry

InterruptUpdate(w, irq) ==
  LET op   == Retiring(w)
      mask == IntmNext(op, intm)
  IN  /\ ipend' = (ipend \/ irq)
      /\ IF op = "none" THEN UNCHANGED <<idelay, ientry>>
         ELSE IF idelay THEN /\ idelay' = (~mask /\ op \in MpyOps)
                             /\ ientry' = (~mask /\ op \notin MpyOps)
         ELSE idelay' = (ipend' /\ ~mask) /\ UNCHANGED ientry

\* Mutant: the entry saves the address of the word after the next one.
InterruptEntrySkips ==
  /\ Owner = "entry"
  /\ stack' = Push(stack, NextAddr(pc))
  /\ pc' = Vector
  /\ intm' = TRUE
  /\ ipend' = FALSE /\ idelay' = FALSE /\ ientry' = FALSE
  /\ illegal' = FALSE
  /\ UNCHANGED <<reg, ram, pendVars>>

InterruptEntry ==
  /\ Owner = "entry"
  /\ stack' = Push(stack, pc)
  /\ pc' = Vector
  /\ intm' = TRUE
  /\ ipend' = FALSE /\ idelay' = FALSE /\ ientry' = FALSE
  /\ illegal' = FALSE
  /\ UNCHANGED <<reg, ram, pendVars>>

\* The pending owner is given a word it can use; what every such edge does.
Clocked(w, irq, d) ==
  /\ InstructionValid(w)
  /\ ram' = RamNext(w, d)
  /\ illegal' = FALSE
  /\ InterruptUpdate(w, irq)

\* CALA or RET: the word on the bus is discarded, the target takes over.
FinishComputed(w, irq, d) ==
  /\ Owner = "computed"
  /\ Clocked(w, irq, d)
  /\ pc' = cmp.target
  /\ stack' = IF cmp.op = "CALA" THEN Push(stack, cmp.ret) ELSE Pop(stack)
  /\ cmp' = NoComputed
  /\ UNCHANGED <<reg, intm, ctl, io, tbl, xfer>>

\* The second word of a branch or call.
FinishControl(w, bio, irq, d) ==
  /\ Owner = "control"
  /\ Clocked(w, irq, d)
  /\ pc' = IF BranchTaken(ctl, reg, bio) THEN w.addr ELSE NextAddr(pc)
  /\ reg' = BranchReg(ctl, reg)
  /\ stack' = IF ctl = "CALL" THEN Push(stack, NextAddr(pc)) ELSE stack
  /\ ctl' = "none"
  /\ UNCHANGED <<intm, cmp, io, tbl, xfer>>

\* Mutant: the next-ARP field is taken whether or not the word keeps ARP.
TransferRegAlways(t) ==
  [reg EXCEPT !.ar[t.arp] = IF t.ind THEN Counter(@, t.inc, t.dec) ELSE @,
              !.arp       = IF t.ind THEN t.narp ELSE @]

\* Indirect post-modification of a transfer, with the captured operands.
TransferReg(t) ==
  [reg EXCEPT !.ar[t.arp] = IF t.ind THEN Counter(@, t.inc, t.dec) ELSE @,
              !.arp       = IF t.ind /\ ~t.keep THEN t.narp ELSE @]

StartTableTransfer(w, irq, d) ==
  /\ Owner = "table" /\ ~xfer
  /\ Clocked(w, irq, d)
  /\ xfer' = TRUE
  /\ UNCHANGED <<pc, stack, reg, intm, ctl, cmp, io, tbl>>

FinishTable(w, irq, d) ==
  /\ Owner = "table" /\ xfer
  /\ Clocked(w, irq, d)
  /\ reg' = TransferReg(tbl)
  /\ stack' = TablePass(stack)
  /\ tbl' = NoTransfer /\ xfer' = FALSE
  /\ UNCHANGED <<pc, intm, ctl, cmp, io>>

FinishIo(w, irq, d) ==
  /\ Owner = "io"
  /\ Clocked(w, irq, d)
  /\ reg' = TransferReg(io)
  /\ io' = NoTransfer
  /\ UNCHANGED <<pc, stack, intm, ctl, cmp, tbl, xfer>>

\* A fresh word: execute it, or capture what its later edges will need.
Issue(w, irq, d) ==
  /\ Owner = "issue"
  /\ Clocked(w, irq, d)
  /\ pc' = NextAddr(pc)
  /\ reg' = IF w.op \in OneCycleOps THEN ExecReg(w, reg, ReadData(w)) ELSE reg
  /\ intm' = IntmNext(w.op, intm)
  /\ ctl' = IF w.op \in ControlOps THEN w.op ELSE ctl
  /\ cmp' = IF w.op \in ComputedOps THEN CaptureComputed(w) ELSE cmp
  /\ io'  = IF w.op \in IoOps THEN Capture(w, w.port, DataAddress(w)) ELSE io
  /\ tbl' = IF w.op \in TableOps
              THEN Capture(w, reg.acc % PcMod, DataAddress(w)) ELSE tbl
  /\ xfer' = IF w.op \in TableOps THEN FALSE ELSE xfer
  /\ UNCHANGED stack

\* Anything the owner cannot use stops the core where it is.
Refuse(w, irq) ==
  /\ Owner # "entry" /\ ~InstructionValid(w)
  /\ illegal' = TRUE
  /\ ipend' = (ipend \/ irq)
  /\ UNCHANGED <<pc, stack, reg, ram, intm, idelay, ientry, pendVars>>

CoreStep(w, bio, irq, d) ==
  \/ InterruptEntry
  \/ FinishComputed(w, irq, d)
  \/ FinishControl(w, bio, irq, d)
  \/ StartTableTransfer(w, irq, d)
  \/ FinishTable(w, irq, d)
  \/ FinishIo(w, irq, d)
  \/ Issue(w, irq, d)
  \/ Refuse(w, irq)

\* reset_i: control state only; registers, stack and RAM keep their values.
CoreReset ==
  /\ pc' = 0 /\ intm' = TRUE /\ illegal' = FALSE
  /\ ipend' = FALSE /\ idelay' = FALSE /\ ientry' = FALSE
  /\ ctl' = "none" /\ cmp' = NoComputed /\ xfer' = FALSE
  /\ io' = NoTransfer /\ tbl' = NoTransfer
  /\ UNCHANGED <<stack, reg, ram>>

\* initialize_i: the deterministic start of a simulation; RAM is not touched.
CoreInitialize ==
  /\ pc' = 0 /\ intm' = TRUE /\ illegal' = FALSE
  /\ ipend' = FALSE /\ idelay' = FALSE /\ ientry' = FALSE
  /\ ctl' = "none" /\ cmp' = NoComputed /\ xfer' = FALSE
  /\ io' = NoTransfer /\ tbl' = NoTransfer
  /\ stack' = [i \in Levels |-> 0] /\ reg' = ZeroRegisters
  /\ UNCHANGED ram

CoreInit ==
  /\ pc = 0 /\ intm = TRUE /\ illegal = FALSE
  /\ ipend = FALSE /\ idelay = FALSE /\ ientry = FALSE
  /\ ctl = "none" /\ cmp = NoComputed /\ xfer = FALSE
  /\ io = NoTransfer /\ tbl = NoTransfer
  /\ stack = [i \in Levels |-> 0] /\ reg = ZeroRegisters
  /\ ram \in RamStart

\* The preload port, legal only while the core is paused.
DebugWrite ==
  /\ \E a \in RamAddr, v \in IoValues : ram' = [ram EXCEPT ![a] = v]
  /\ UNCHANGED <<pc, stack, reg, intm, irqVars, illegal, pendVars>>

\* Sampled BIO and INT pins; d is read only by an IN.
Clock == \E w \in Words, bio, irq \in BOOLEAN, d \in IoValues :
           CoreStep(w, bio, irq, d)

CoreNext == Clock \/ CoreReset \/ CoreInitialize \/ DebugWrite

CoreSpec == CoreInit /\ [][CoreNext]_coreVars

-----------------------------------------------------------------------------
\* Types.

TransferType == [op : {"none"} \cup IoOps \cup TableOps, at : Nat,
                 da : Nat, ind : BOOLEAN, arp : Bit, inc : BOOLEAN,
                 dec : BOOLEAN, keep : BOOLEAN, narp : Bit]

(* Every register of the core holds a value of its width, in every state.  *)
CoreTypeOK ==
  /\ pc \in Addr
  /\ stack \in [Levels -> Addr]
  /\ reg \in Registers
  /\ ram \in [RamAddr -> Value]
  /\ intm \in BOOLEAN /\ ipend \in BOOLEAN /\ idelay \in BOOLEAN
  /\ ientry \in BOOLEAN /\ illegal \in BOOLEAN
  /\ ctl \in {"none"} \cup ControlOps
  /\ cmp \in [op : {"none"} \cup ComputedOps, target : Addr, ret : Addr]
  /\ io \in TransferType /\ io.op \in {"none"} \cup IoOps
  /\ tbl \in TransferType /\ tbl.op \in {"none"} \cup TableOps
  /\ xfer \in BOOLEAN

-----------------------------------------------------------------------------
\* Properties.

(* The RTL gives every edge to one of five registers in a priority order,  *)
(* and its combinational outputs test them in other orders: they agree     *)
(* because at most one is ever set, also when an interrupt is scheduled    *)
(* while a multicycle instruction is in flight.                            *)
OneOwner ==
  /\ ientry         => cmp.op = "none" /\ ctl = "none"
                         /\ tbl.op = "none" /\ io.op = "none"
  /\ cmp.op # "none" => ctl = "none" /\ tbl.op = "none" /\ io.op = "none"
  /\ ctl # "none"    => tbl.op = "none" /\ io.op = "none"
  /\ tbl.op # "none" => io.op = "none"
  /\ xfer            => tbl.op # "none"

(* The four external strobes and the data bus belong to one transaction:   *)
(* at most one of program read, program write, port read and port write is *)
(* on, a port or program write has its datum on the data bus, nothing      *)
(* drives the data bus while an operand word is fetched, and a strobe at   *)
(* an address without a word comes with an invalid instruction.            *)
StrobesExclusive ==
  \A w \in Words :
    /\ ~(IoRead /\ IoWrite) /\ ~(ProgramRead /\ ProgramWrite)
    /\ IoRead \/ IoWrite => ~ProgramRead /\ ~ProgramWrite
    /\ IoWrite \/ ProgramWrite => DataRead(w) /\ ~DataWrite(w)
    /\ IoRead => DataWrite(w) /\ ~DataRead(w)
    /\ Owner \in {"control", "entry"} => ~DataRead(w) /\ ~DataWrite(w)
    /\ DataRead(w) \/ DataWrite(w) =>
         DataAddress(w) < RamWords \/ ~InstructionValid(w)

(* The interrupt sequence runs only for a latched request with interrupts  *)
(* enabled, and its two steps exclude each other: a DINT in the protected  *)
(* slot must cancel it, whatever LST, RET or a multiply chain does.        *)
InterruptArmed ==
  /\ idelay \/ ientry => ipend /\ ~intm
  /\ ~(idelay /\ ientry)

(* A transfer that was accepted completes: what was checked when IN, OUT,  *)
(* TBLR, TBLW, CALA or RET issued cannot fail on its later edges, whatever *)
(* word is on the bus then.                                                *)
AcceptedCompletes ==
  Owner \in {"computed", "table", "io"} =>
    \A w \in Words : InstructionValid(w)

(* The operands captured at issue are still those of the live registers    *)
(* when the transaction finishes: the pipeline slice computes its fetch    *)
(* address from the live ones, the core its next PC from the captured.     *)
CapturedCurrent ==
  /\ cmp.op = "CALA" => cmp.target = reg.acc % PcMod
  /\ cmp.op = "RET"  => cmp.target = stack[0]
  /\ cmp.op # "none" => cmp.ret = pc
  /\ tbl.op # "none" => tbl.at = reg.acc % PcMod /\ tbl.arp = reg.arp
  /\ io.op # "none"  => io.arp = reg.arp

\* The address of the instruction that executes: PC has already moved past
\* the first word of a pending one.
ArchPc ==
  IF Owner \in {"issue", "entry"} THEN pc ELSE (pc + PcMod - 1) % PcMod

Abstract == INSTANCE Isa WITH pc <- ArchPc

\* v may be the word whose operands transfer t captured.
Captured(v, t) == Capture(v, t.at, EffectiveAddress(v, reg)) = t

\* An edge that a program cannot see, except that it latches a request.
Hidden(irq) ==
  /\ ArchPc' = ArchPc
  /\ ipend' = (ipend \/ irq)
  /\ UNCHANGED <<stack, reg, ram, intm, idelay, ientry>>

IsaEffect(w, bio, irq, d) ==
  /\ Issue(w, irq, d) /\ w.op \in OneCycleOps => Abstract!OneCycle(w, irq)
  /\ Issue(w, irq, d) /\ w.op \notin OneCycleOps => Hidden(irq)
  /\ StartTableTransfer(w, irq, d) => Hidden(irq)
  /\ FinishControl(w, bio, irq, d) => Abstract!TwoWord([op |-> ctl], w, bio, irq)
  /\ FinishComputed(w, irq, d) => Abstract!Computed([op |-> cmp.op], irq)
  /\ FinishIo(w, irq, d) =>
       \A v \in Words : Captured(v, io) => Abstract!Transfer(v, d, irq)
  /\ FinishTable(w, irq, d) =>
       \A v \in Words : Captured(v, tbl) => Abstract!Transfer(v, w.data, irq)

(* Every instruction takes effect at one edge, and the effect is the one   *)
(* of the reference model: the other edges of a multicycle instruction     *)
(* change nothing a program can see, and an interrupt entry saves the      *)
(* address of the first instruction that did not execute.                  *)
ImplementsIsa == Abstract!Spec

(* Every edge has the effect the reference model gives to the very word it *)
(* serves: a one-cycle word at its edge, a longer one at its last edge,    *)
(* from the registers as that edge finds them; its earlier edges change    *)
(* nothing but the request latch.  The word discarded by a pending CALA or *)
(* RET may be anything but a store (see DiscardedWordKeepsRam).            *)
RetiresAsIsa ==
  [][\A w \in Words, bio, irq \in BOOLEAN, d \in IoValues :
       (Owner = "computed" => w.op \notin StoreOps) => IsaEffect(w, bio, irq, d)
    ]_coreVars

(* The core asserts that a word fetched while CALA or RET is pending       *)
(* drives no data strobe, so it cannot change the data memory.             *)
DiscardedWordKeepsRam ==
  [][Owner = "computed" /\ cmp'.op = "none" => ram' = ram]_coreVars
=============================================================================
