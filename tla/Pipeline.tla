------------------------------ MODULE Pipeline ------------------------------
(***************************************************************************)
(* rtl/wrappers/tms32010_sequential_pipeline_slice.sv: the fetch/execute   *)
(* pipeline around the core, with its program bus and its one-word         *)
(* execution slot.                                                         *)
(*                                                                         *)
(* A machine cycle has phases 0 .. LastPhase; everything but the phase     *)
(* changes at its last edge, the boundary.  There the word on the bus is   *)
(* fetched, into the slot, as an operand or to be discarded, and the core  *)
(* is clocked with the carrier, a second copy of the word it is to consume.*)
(* The fetch runs one word ahead of the core: the slice computes each bus  *)
(* address, and each interrupt decision, for itself from the core's live   *)
(* registers, and the core computes them again when the word retires.      *)
(*                                                                         *)
(* w is the word the program memory returns, arbitrary at every fetch.  A  *)
(* disabled clock is a stuttering step.  The captured computed target,     *)
(* which only assertions read, and the preload port are left out.          *)
(***************************************************************************)
EXTENDS Core

CONSTANT LastPhase    \* 3 in the RTL

ASSUME PhaseAssumption == LastPhase \in Nat

VARIABLES
  phase,       \* phase_o
  active,      \* bus_active_o
  relSeen,     \* release_boundary_seen
  busAddr,     \* program_bus_address
  exValid, exAddr, exWord,      \* the execution slot
  pstate,      \* pipeline_state
  carrier,     \* core_program_data
  biozTaken,   \* bioz_taken, the branch decision of a BIOZ
  ioSample,    \* io_read_sample
  protected    \* interrupt_protected

busVars  == <<phase, active, relSeen, busAddr>>
slotVars == <<exValid, exAddr, exWord>>
sliceVars == <<busVars, slotVars, pstate, carrier, biozTaken, ioSample, protected>>
vars == <<coreVars, sliceVars>>

PipelineStates == {"SEQUENTIAL", "CONTROL_TARGET", "CONTROL_INVALID",
                   "COMPUTED_TARGET", "IO_PREFETCH", "TABLE_TRANSFER",
                   "TABLE_PREFETCH", "INTERRUPT_VECTOR"}

\* The word 16'h0000: ADD of location 0, and a canonical operand.
ZeroWord == [op |-> "ADD", canon |-> TRUE, addr |-> 0, k |-> 0, sh |-> 1,
             port |-> 0, ar |-> 0, ind |-> FALSE, dma |-> 0, inc |-> FALSE,
             dec |-> FALSE, keep |-> FALSE, narp |-> 0, data |-> 0]

-----------------------------------------------------------------------------
\* What the boundary means for the word in the slot.

Holds(ops) == exValid /\ exWord.op \in ops

ControlOperandStep  == Holds(ControlOps)  /\ pstate = "SEQUENTIAL"
ControlTargetStep   == Holds(ControlOps)  /\ pstate = "CONTROL_TARGET"
ComputedStartStep   == Holds(ComputedOps) /\ pstate = "SEQUENTIAL"
ComputedTargetStep  == Holds(ComputedOps) /\ pstate = "COMPUTED_TARGET"
IoTransferStep      == Holds(IoOps)       /\ pstate = "SEQUENTIAL"
IoPrefetchStep      == Holds(IoOps)       /\ pstate = "IO_PREFETCH"
TableStartStep      == Holds(TableOps)    /\ pstate = "SEQUENTIAL"
TableTransferStep   == Holds(TableOps)    /\ pstate = "TABLE_TRANSFER"
TablePrefetchStep   == Holds(TableOps)    /\ pstate = "TABLE_PREFETCH"
VectorStep          == pstate = "INTERRUPT_VECTOR"

\* Mutant: CALA and RET have no last step.
LastStepNoComputed ==
  Holds(OneCycleOps) \/ ControlTargetStep \/ IoPrefetchStep \/ TablePrefetchStep

LastStep == \/ Holds(OneCycleOps)
            \/ ControlTargetStep \/ ComputedTargetStep
            \/ IoPrefetchStep \/ TablePrefetchStep

FirstStep == \/ ControlOperandStep \/ ComputedStartStep
             \/ IoTransferStep \/ TableStartStep \/ TableTransferStep

ExecuteReady    == exValid /\ InstructionValid(carrier) /\ (LastStep \/ FirstStep)
ExecuteComplete == ExecuteReady /\ LastStep

\* The slot holds a word the slice cannot execute: the bus is parked.
Stuck == exValid /\ ~ExecuteReady

\* The instruction in the protected slot ends, and the entry follows.
DummyFetchStep ==
  protected /\ ExecuteComplete /\ exWord.op \notin MpyOps \cup {"DINT"}

\* Mutant: BIOZ retires on the pin.
CoreBioLive(bio) == bio

\* BIOZ retires on the decision that selected the fetch.
CoreBio(bio) ==
  IF ControlTargetStep /\ exWord.op = "BIOZ" THEN ~biozTaken ELSE bio

-----------------------------------------------------------------------------
\* The enabled edges.

Boundary == phase = LastPhase /\ ~Stuck

FetchBoundary == Boundary /\ active

\* The bus moves on to address a; the next machine cycle begins.
BusTo(a) == phase' = 0 /\ busAddr' = a /\ UNCHANGED <<active, relSeen>>

\* Mutant: the slot takes its address from the core.
FillSlotCoreAddr(w) == exValid' = TRUE /\ exAddr' = pc /\ exWord' = w

FillSlot(w) == exValid' = TRUE /\ exAddr' = busAddr /\ exWord' = w
EmptySlot   == exValid' = FALSE /\ exAddr' = 0 /\ exWord' = ZeroWord

ClockCore(bio, irq) == CoreStep(carrier, CoreBio(bio), irq, ioSample)

\* An edge inside the machine cycle.  A parked bus moves only under reset.
PhaseStep(rs) ==
  /\ phase # LastPhase /\ (rs \/ ~Stuck)
  /\ phase' = phase + 1
  /\ UNCHANGED <<coreVars, active, relSeen, busAddr, slotVars, pstate, carrier,
                 biozTaken, ioSample, protected>>

\* Two boundaries after the release of RS the bus becomes active, at 0.
IdleBoundary ==
  /\ Boundary /\ ~active
  /\ phase' = 0
  /\ relSeen' = TRUE /\ active' = relSeen
  /\ busAddr' = IF relSeen THEN 0 ELSE busAddr
  /\ UNCHANGED <<coreVars, slotVars, pstate, carrier, biozTaken, ioSample,
                 protected>>

\* The slot is empty: take the first word.  The core is not clocked.
Prime(w) ==
  /\ FetchBoundary /\ ~exValid /\ ~VectorStep
  /\ FillSlot(w) /\ carrier' = w /\ BusTo(NextAddr(busAddr))
  /\ UNCHANGED <<coreVars, pstate, biozTaken, ioSample, protected>>

\* Mutant: the vector state is left only by reset.
FetchVectorStays(w, bio, irq) ==
  /\ FetchBoundary /\ VectorStep
  /\ ClockCore(bio, irq)
  /\ FillSlot(w) /\ carrier' = w /\ BusTo(NextAddr(busAddr))
  /\ UNCHANGED <<pstate, biozTaken, ioSample, protected>>

\* The core enters the interrupt while the word at the vector is fetched.
FetchVector(w, bio, irq) ==
  /\ FetchBoundary /\ VectorStep
  /\ ClockCore(bio, irq)
  /\ FillSlot(w) /\ carrier' = w /\ BusTo(NextAddr(busAddr))
  /\ pstate' = "SEQUENTIAL"
  /\ UNCHANGED <<biozTaken, ioSample, protected>>

\* Mutants: the fetch goes on past the last address; no branch is followed.
OperandNextUnwrapped(w, bio) ==
  IF ~w.canon THEN busAddr
  ELSE IF BranchTaken(exWord.op, reg, bio) THEN w.addr
  ELSE busAddr + 1

OperandNextSequential(w, bio) == IF w.canon THEN NextAddr(busAddr) ELSE busAddr

\* The fetch address of the word after a two-word instruction's operand.
OperandNext(w, bio) ==
  IF ~w.canon THEN busAddr
  ELSE IF BranchTaken(exWord.op, reg, bio) THEN w.addr
  ELSE NextAddr(busAddr)

FetchOperand(w, bio, irq) ==
  /\ FetchBoundary /\ ExecuteReady /\ ControlOperandStep
  /\ ClockCore(bio, irq)
  /\ carrier' = w /\ BusTo(OperandNext(w, bio))
  /\ biozTaken' = (w.canon /\ exWord.op = "BIOZ" /\ ~bio)
  /\ pstate' = IF w.canon THEN "CONTROL_TARGET" ELSE "CONTROL_INVALID"
  /\ UNCHANGED <<slotVars, ioSample, protected>>

\* The sequential word after CALA or RET is fetched and discarded.
StartComputed(bio, irq) ==
  /\ FetchBoundary /\ ExecuteReady /\ ComputedStartStep
  /\ ClockCore(bio, irq)
  /\ BusTo(IF exWord.op = "CALA" THEN reg.acc % PcMod ELSE stack[0])
  /\ pstate' = "COMPUTED_TARGET"
  /\ UNCHANGED <<slotVars, carrier, biozTaken, ioSample, protected>>

\* The port owns the bus for one machine cycle.
TransferIo(bio, irq, d) ==
  /\ FetchBoundary /\ ExecuteReady /\ IoTransferStep
  /\ ClockCore(bio, irq)
  /\ BusTo(busAddr)
  /\ ioSample' = IF exWord.op = "IN" THEN d ELSE ioSample
  /\ pstate' = "IO_PREFETCH"
  /\ UNCHANGED <<slotVars, carrier, biozTaken, protected>>

\* Mutant: the table address never reaches the bus.
StartTableSequential(bio, irq) ==
  /\ FetchBoundary /\ ExecuteReady /\ TableStartStep
  /\ ClockCore(bio, irq)
  /\ BusTo(NextAddr(busAddr))
  /\ pstate' = "TABLE_TRANSFER"
  /\ UNCHANGED <<slotVars, carrier, biozTaken, ioSample, protected>>

\* The sequential word after TBLR or TBLW is fetched and discarded.
StartTable(bio, irq) ==
  /\ FetchBoundary /\ ExecuteReady /\ TableStartStep
  /\ ClockCore(bio, irq)
  /\ BusTo(reg.acc % PcMod)
  /\ pstate' = "TABLE_TRANSFER"
  /\ UNCHANGED <<slotVars, carrier, biozTaken, ioSample, protected>>

TransferTable(w, bio, irq) ==
  /\ FetchBoundary /\ ExecuteReady /\ TableTransferStep
  /\ ClockCore(bio, irq)
  /\ BusTo(pc)
  /\ carrier' = IF exWord.op = "TBLR" THEN w ELSE carrier
  /\ pstate' = "TABLE_PREFETCH"
  /\ UNCHANGED <<slotVars, biozTaken, ioSample, protected>>

\* Mutant: the decision uses the mask from before DINT or EINT.
ProtectNextOldMask(irq) ==
  IF protected THEN exWord.op \in MpyOps ELSE (ipend \/ irq) /\ ~intm

\* The slice's own copy of the interrupt decision, at a retirement.
ProtectNext(irq) ==
  IF protected THEN exWord.op \in MpyOps
  ELSE (ipend \/ irq) /\ ~IntmNext(exWord.op, intm)

\* The last cycle of an instruction overlaps the fetch of the next one.
Retire(w, bio, irq) ==
  /\ FetchBoundary /\ ExecuteComplete /\ ~VectorStep /\ ~DummyFetchStep
  /\ ClockCore(bio, irq)
  /\ FillSlot(w) /\ carrier' = w /\ BusTo(NextAddr(busAddr))
  /\ protected' = ProtectNext(irq)
  /\ biozTaken' = IF ControlTargetStep THEN FALSE ELSE biozTaken
  /\ pstate' = IF Holds(OneCycleOps) THEN pstate ELSE "SEQUENTIAL"
  /\ UNCHANGED ioSample

\* The protected instruction ends: the fetch is a dummy, the vector follows.
RetireProtected(bio, irq) ==
  /\ FetchBoundary /\ DummyFetchStep /\ ~VectorStep
  /\ ClockCore(bio, irq)
  /\ EmptySlot /\ BusTo(Vector)
  /\ protected' = ProtectNext(irq)
  /\ pstate' = "INTERRUPT_VECTOR"
  /\ UNCHANGED <<carrier, biozTaken, ioSample>>

\* RS is recognized at a boundary, also when the bus is parked.
ResetBoundary ==
  /\ phase = LastPhase
  /\ CoreReset
  /\ phase' = 0 /\ busAddr' = 0 /\ active' = FALSE /\ relSeen' = FALSE
  /\ EmptySlot /\ carrier' = ZeroWord
  /\ pstate' = "SEQUENTIAL" /\ biozTaken' = FALSE /\ ioSample' = 0
  /\ protected' = FALSE

SliceInitialize ==
  /\ CoreInitialize
  /\ phase' = 0 /\ busAddr' = 0 /\ active' = FALSE /\ relSeen' = FALSE
  /\ EmptySlot /\ carrier' = ZeroWord
  /\ pstate' = "SEQUENTIAL" /\ biozTaken' = FALSE /\ ioSample' = 0
  /\ protected' = FALSE

Init ==
  /\ CoreInit
  /\ phase = 0 /\ busAddr = 0 /\ active = FALSE /\ relSeen = FALSE
  /\ exValid = FALSE /\ exAddr = 0 /\ exWord = ZeroWord /\ carrier = ZeroWord
  /\ pstate = "SEQUENTIAL" /\ biozTaken = FALSE /\ ioSample = 0
  /\ protected = FALSE

\* A boundary with RS high and the bus active, on sampled inputs.
Serve(w, bio, irq, d) ==
  \/ Prime(w)
  \/ FetchVector(w, bio, irq)
  \/ FetchOperand(w, bio, irq)
  \/ StartComputed(bio, irq)
  \/ TransferIo(bio, irq, d)
  \/ StartTable(bio, irq)
  \/ TransferTable(w, bio, irq)
  \/ Retire(w, bio, irq)
  \/ RetireProtected(bio, irq)

Fetch == \E w \in Words, bio, irq \in BOOLEAN, d \in IoValues :
           Serve(w, bio, irq, d)

\* Steps taken while RS is high.
Run == PhaseStep(FALSE) \/ IdleBoundary \/ Fetch

Next == Run \/ PhaseStep(TRUE) \/ ResetBoundary \/ SliceInitialize

Spec == Init /\ [][Next]_vars

\* RS released for good and a clock enable that always returns.
RunSpec == Init /\ [][Run]_vars /\ WF_vars(Run)

-----------------------------------------------------------------------------
\* Properties.

(* Every register of the slice holds a value of its type, and so does every *)
(* register of the core it drives.                                         *)
TypeOK ==
  /\ CoreTypeOK
  /\ phase \in 0 .. LastPhase
  /\ active \in BOOLEAN /\ relSeen \in BOOLEAN
  /\ busAddr \in Addr
  /\ exValid \in BOOLEAN /\ exAddr \in Addr /\ exWord \in WordType
  /\ pstate \in PipelineStates
  /\ carrier \in WordType
  /\ biozTaken \in BOOLEAN /\ protected \in BOOLEAN
  /\ ioSample \in Value

\* No transaction is pending in the core.
NonePending == ctl = "none" /\ cmp = NoComputed /\ io = NoTransfer /\ tbl = NoTransfer

(* Between instructions the two copies of the word and of its address are  *)
(* the same, the core has nothing pending and the bus is one word ahead.   *)
SequentialAgreement ==
  pstate = "SEQUENTIAL" =>
    /\ NonePending /\ ~ientry
    /\ exValid  => exAddr = pc /\ carrier = exWord /\ busAddr = NextAddr(pc)
    /\ ~exValid => busAddr = pc

(* While a branch, call or return is in flight the bus already carries the *)
(* address the core will compute as its next PC when the instruction       *)
(* retires, whatever the BIO pin does in between.                          *)
TargetAgreement ==
  /\ pstate \in {"CONTROL_TARGET", "CONTROL_INVALID"} =>
       /\ exValid /\ exWord.op \in ControlOps /\ ctl = exWord.op
       /\ cmp = NoComputed /\ io = NoTransfer /\ tbl = NoTransfer /\ ~ientry
       /\ pc = NextAddr(exAddr)
       /\ carrier.canon = (pstate = "CONTROL_TARGET")
       /\ \A bio \in BOOLEAN :
            busAddr = ProgramNextAddress(carrier, CoreBio(bio))
  /\ pstate = "COMPUTED_TARGET" =>
       /\ exValid /\ exWord.op \in ComputedOps /\ cmp.op = exWord.op
       /\ ctl = "none" /\ io = NoTransfer /\ tbl = NoTransfer /\ ~ientry
       /\ pc = NextAddr(exAddr) /\ carrier = exWord
       /\ busAddr = cmp.target

(* While a transfer is in flight the core holds the same transfer, at the  *)
(* same step, and the bus carries the table address or the next PC.        *)
TransferAgreement ==
  /\ pstate = "IO_PREFETCH" =>
       /\ exValid /\ exWord.op \in IoOps /\ io.op = exWord.op
       /\ ctl = "none" /\ cmp = NoComputed /\ tbl = NoTransfer /\ ~ientry
       /\ io.at = exWord.port
       /\ pc = NextAddr(exAddr) /\ busAddr = pc
  /\ pstate \in {"TABLE_TRANSFER", "TABLE_PREFETCH"} =>
       /\ exValid /\ exWord.op \in TableOps /\ tbl.op = exWord.op
       /\ ctl = "none" /\ cmp = NoComputed /\ io = NoTransfer /\ ~ientry
       /\ xfer = (pstate = "TABLE_PREFETCH")
       /\ pc = NextAddr(exAddr)
       /\ busAddr = IF xfer THEN pc ELSE tbl.at

(* The slice takes every interrupt decision a second time, from other      *)
(* inputs: it protects the same instruction as the core and goes to the    *)
(* vector exactly when the core enters.                                    *)
InterruptAgreement ==
  /\ protected = idelay
  /\ VectorStep = ientry
  /\ VectorStep => ~exValid /\ NonePending /\ busAddr = Vector

(* The fetch the slice drops before the vector is a dummy: the core still   *)
(* has the dropped word's address in PC, the one the entry will save, also *)
(* when the protected instruction is a taken branch, a call or a return.   *)
DummyFetchResumes ==
  [][~VectorStep /\ VectorStep' => pc' = busAddr]_vars

(* The bus parks on an instruction that may not start, or on the operand   *)
(* of one, and never on one that has begun its transfer.                   *)
ParksBeforeEffects ==
  exValid => (Stuck <=> \/ pstate = "CONTROL_INVALID"
                        \/ pstate = "SEQUENTIAL" /\ ~WordValid(exWord))

\* The reference model executes v, with any pin and any operand or datum.
Executes(v, irq) ==
  \/ Abstract!OneCycle(v, irq)
  \/ \E operand \in Words, bio \in BOOLEAN : Abstract!TwoWord(v, operand, bio, irq)
  \/ Abstract!Computed(v, irq)
  \/ \E d \in IoValues : v.op \in IoOps /\ Abstract!Transfer(v, d, irq)
  \/ \E x \in Words : v.op \in TableOps /\ Abstract!Transfer(v, x.data, irq)

(* Each boundary of the active bus does one thing: the last cycle of an    *)
(* instruction executes the word in the slot, at the address it was        *)
(* fetched from; the vector fetch is an interrupt entry; and every other   *)
(* boundary, of whatever instruction, is invisible to the program.         *)
SlotExecutes ==
  [][phase = LastPhase /\ active /\ active' =>
       IF VectorStep THEN Abstract!Enter
       ELSE IF ExecuteComplete
         THEN exAddr = ArchPc /\ \E irq \in BOOLEAN : Executes(exWord, irq)
         ELSE \E irq \in BOOLEAN : Hidden(irq)]_vars

(* A latched and enabled interrupt request is served, unless the program   *)
(* disables interrupts, parks the bus or keeps multiplying.                *)
InterruptServed ==
  (ipend /\ ~intm) ~> (ientry \/ intm \/ Stuck \/ Holds(MpyOps))

(* An instruction that takes several machine cycles finishes: the slice    *)
(* returns to the sequential state unless the operand word is not one.     *)
TransactionsFinish ==
  pstate # "SEQUENTIAL" ~> pstate \in {"SEQUENTIAL", "CONTROL_INVALID"}

(* The slice asserts that the boundary which completes a branch, an I/O    *)
(* or a table instruction fetches an instruction into the slot.            *)
CompletionFetches ==
  [][(Fetch /\ pstate \in {"CONTROL_TARGET", "IO_PREFETCH", "TABLE_PREFETCH"})
       => exValid' = TRUE]_vars
=============================================================================
