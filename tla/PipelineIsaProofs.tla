------------------------- MODULE PipelineIsaProofs --------------------------
(***************************************************************************)
(* The pipeline slice executes the word in its slot, once, with the effect *)
(* the reference model gives it, for every width, program and schedule of  *)
(* the pins: the slice implements the instruction-level machine.  The      *)
(* second part is about the slice with its program memory: a program that  *)
(* rewrites itself executes as stored.                                     *)
(***************************************************************************)
EXTENDS Stored, PipelineProofs, IsaProofs

\* What the machine holds came from the program memory or an input port, and a
\* transfer in flight was captured from the word in the slot.
FromProgram ==
  /\ exValid => exWord \in Words
  /\ pstate = "CONTROL_TARGET" => carrier \in Words
  /\ pstate = "IO_PREFETCH" =>
       Captured(exWord, io) /\ (exWord.op = "IN" => ioSample \in IoValues)
  /\ pstate \in {"TABLE_TRANSFER", "TABLE_PREFETCH"} => Captured(exWord, tbl)
  /\ pstate = "TABLE_PREFETCH" /\ exWord.op = "TBLR" => carrier \in Words

\* A word that starts a transfer captures its own operands.
LEMMA StartCaptures ==
  ASSUME PipeInv, ExecuteReady, pstate = "SEQUENTIAL",
         exWord.op \in IoOps \cup TableOps, exWord' = exWord,
         NEW bio, NEW irq, ClockCore(bio, irq)
  PROVE  /\ exWord.op \in IoOps => Captured(exWord, io)'
         /\ exWord.op \in TableOps => Captured(exWord, tbl)'
<1>1. exWord.op \notin OneCycleOps
  BY OpClasses
<1>2. Owner = "issue" /\ Issue(exWord, irq, ioSample) /\ reg' = reg /\ NonePending
        /\ ~ientry
  BY <1>1, StartEffect
<1>3. DataAddress(exWord) = EffectiveAddress(exWord, reg)
  BY <1>2 DEF DataAddress, DataAddressed, NonePending, NoComputed, NoTransfer
<1>4. exWord.op \in IoOps =>
        io' = Capture(exWord, exWord.port, EffectiveAddress(exWord, reg))
  BY <1>2, <1>3 DEF Issue
<1>5. exWord.op \in TableOps =>
        tbl' = Capture(exWord, reg.acc % PcMod, EffectiveAddress(exWord, reg))
  BY <1>2, <1>3 DEF Issue
<1>6. EffectiveAddress(exWord, reg)' = EffectiveAddress(exWord, reg)
  BY <1>2 DEF EffectiveAddress
<1>7. \A at, da : Capture(exWord, at, da).at = at
  BY DEF Capture
<1>8. exWord.op \in IoOps => Captured(exWord, io)'
  BY <1>2, <1>4, <1>6, <1>7 DEF Captured, Capture
<1>9. exWord.op \in TableOps => Captured(exWord, tbl)'
  BY <1>2, <1>5, <1>6, <1>7 DEF Captured, Capture
<1> QED BY <1>8, <1>9

LEMMA FetchFromProgram ==
  ASSUME PipeInv, FromProgram, NEW w \in Words, NEW bio \in BOOLEAN,
         NEW irq \in BOOLEAN, NEW d \in IoValues,
         \/ Prime(w)
         \/ FetchVector(w, bio, irq)
         \/ FetchOperand(w, bio, irq)
         \/ StartComputed(bio, irq)
         \/ TransferIo(bio, irq, d)
         \/ StartTable(bio, irq)
         \/ TransferTable(w, bio, irq)
         \/ Retire(w, bio, irq)
         \/ RetireProtected(bio, irq)
  PROVE  FromProgram'
<1>1. CASE Prime(w)
  <2>1. pstate = "SEQUENTIAL"
    BY <1>1 DEF Prime, FetchBoundary, PipeInv, TypeOK, PipelineStates, TargetAgreement,
                TransferAgreement, VectorStep
  <2> QED BY <1>1, <2>1 DEF Prime, FillSlot, FromProgram
<1>2. CASE FetchVector(w, bio, irq)
  BY <1>2 DEF FetchVector, FillSlot, FromProgram
<1>3. CASE FetchOperand(w, bio, irq)
  BY <1>3 DEF FetchOperand, FromProgram, slotVars
<1>4. CASE StartComputed(bio, irq)
  BY <1>4 DEF StartComputed, FromProgram, slotVars
<1>5. CASE TransferIo(bio, irq, d)
  <2>1. /\ ExecuteReady /\ pstate = "SEQUENTIAL" /\ exWord.op \in IoOps
        /\ exWord' = exWord /\ exValid' = exValid /\ ClockCore(bio, irq)
        /\ pstate' = "IO_PREFETCH"
        /\ ioSample' = IF exWord.op = "IN" THEN d ELSE ioSample
    BY <1>5 DEF TransferIo, IoTransferStep, Holds, slotVars
  <2>2. Captured(exWord, io)'
    BY <2>1, StartCaptures
  <2> QED BY <2>1, <2>2 DEF FromProgram
<1>6. CASE StartTable(bio, irq)
  <2>1. /\ ExecuteReady /\ pstate = "SEQUENTIAL" /\ exWord.op \in TableOps
        /\ exWord' = exWord /\ exValid' = exValid /\ ClockCore(bio, irq)
        /\ pstate' = "TABLE_TRANSFER"
    BY <1>6 DEF StartTable, TableStartStep, Holds, slotVars
  <2>2. Captured(exWord, tbl)'
    BY <2>1, StartCaptures
  <2> QED BY <2>1, <2>2 DEF FromProgram
<1>7. CASE TransferTable(w, bio, irq)
  <2>1. /\ ExecuteReady /\ pstate = "TABLE_TRANSFER" /\ exWord.op \in TableOps
        /\ exWord' = exWord /\ exValid' = exValid /\ ClockCore(bio, irq)
        /\ pstate' = "TABLE_PREFETCH"
        /\ carrier' = IF exWord.op = "TBLR" THEN w ELSE carrier
    BY <1>7 DEF TransferTable, TableTransferStep, Holds, slotVars
  <2>2. /\ Owner = "table" /\ ~xfer /\ InstructionValid(carrier)
    <3>1. tbl.op = exWord.op /\ ctl = "none" /\ cmp = NoComputed /\ ~ientry /\ ~xfer
      BY <2>1 DEF PipeInv, TransferAgreement, TypeOK, CoreTypeOK
    <3> QED BY <2>1, <3>1, OpClasses DEF Owner, NoComputed, ExecuteReady
  <2>3. StartTableTransfer(carrier, irq, ioSample)
    BY <2>1, <2>2, StepOfOwner DEF ClockCore
  <2>4. tbl' = tbl /\ reg' = reg
    BY <2>3 DEF StartTableTransfer
  <2>5. Captured(exWord, tbl)
    BY <2>1 DEF FromProgram
  <2>6. Captured(exWord, tbl)'
    BY <2>1, <2>4, <2>5 DEF Captured, Capture, EffectiveAddress
  <2> QED BY <2>1, <2>6 DEF FromProgram
<1>8. CASE Retire(w, bio, irq)
  <2>1. pstate' = "SEQUENTIAL"
    <3>1. Holds(OneCycleOps) => pstate = "SEQUENTIAL"
      BY <1>8, RetireEffect DEF Retire
    <3> QED BY <1>8, <3>1 DEF Retire
  <2> QED BY <1>8, <2>1 DEF Retire, FillSlot, FromProgram
<1>9. CASE RetireProtected(bio, irq)
  BY <1>9 DEF RetireProtected, EmptySlot, FromProgram
<1> QED BY <1>1, <1>2, <1>3, <1>4, <1>5, <1>6, <1>7, <1>8, <1>9

LEMMA FromProgramInv ==
  ASSUME PipeInv, FromProgram, [Next]_vars
  PROVE  FromProgram'
<1>1. CASE Fetch
  <2>1. PICK w \in Words, bio \in BOOLEAN, irq \in BOOLEAN, d \in IoValues :
          \/ Prime(w)
          \/ FetchVector(w, bio, irq)
          \/ FetchOperand(w, bio, irq)
          \/ StartComputed(bio, irq)
          \/ TransferIo(bio, irq, d)
          \/ StartTable(bio, irq)
          \/ TransferTable(w, bio, irq)
          \/ Retire(w, bio, irq)
          \/ RetireProtected(bio, irq)
    BY <1>1 DEF Fetch, Serve
  <2> QED BY <2>1, FetchFromProgram
<1>2. CASE PhaseStep(FALSE) \/ PhaseStep(TRUE) \/ IdleBoundary \/ UNCHANGED vars
  <2>1. /\ UNCHANGED coreVars /\ UNCHANGED slotVars
        /\ pstate' = pstate /\ carrier' = carrier /\ ioSample' = ioSample
    BY <1>2 DEF PhaseStep, IdleBoundary, vars, sliceVars
  <2>2. reg' = reg /\ io' = io /\ tbl' = tbl /\ exWord' = exWord /\ exValid' = exValid
    BY <2>1 DEF coreVars, pendVars, slotVars
  <2> QED BY <2>1, <2>2 DEF FromProgram, Captured, Capture, EffectiveAddress
<1>3. CASE ResetBoundary \/ SliceInitialize
  BY <1>3 DEF ResetBoundary, SliceInitialize, EmptySlot, FromProgram
<1> QED BY <1>1, <1>2, <1>3 DEF Next, Run

-----------------------------------------------------------------------------
\* What each boundary is in the reference model.

\* What a retirement executes, with the operand or the datum in the carrier.
ExecutesCarrier(irq) ==
  \/ Abstract!OneCycle(exWord, irq)
  \/ /\ pstate = "CONTROL_TARGET"
     /\ \E bio \in BOOLEAN : Abstract!TwoWord(exWord, carrier, bio, irq)
  \/ Abstract!Computed(exWord, irq)
  \/ \E d \in IoValues : exWord.op \in IoOps /\ Abstract!Transfer(exWord, d, irq)
  \/ /\ pstate = "TABLE_PREFETCH" /\ exWord.op = "TBLR"
     /\ Abstract!Transfer(exWord, carrier.data, irq)
  \/ exWord.op = "TBLW" /\ \A d : Abstract!Transfer(exWord, d, irq)

\* The last cycle of an instruction executes the word in the slot.
LEMMA RetireExecutesCarrier ==
  ASSUME PipeInv, FromProgram, ExecuteComplete, ~VectorStep, NEW bio \in BOOLEAN,
         NEW irq \in BOOLEAN, IoValues # {}, ClockCore(bio, irq)
  PROVE  exAddr = ArchPc /\ ExecutesCarrier(irq) /\ ~ientry
<1>1. /\ exValid /\ InstructionValid(carrier) /\ LastStep
      /\ pstate # "INTERRUPT_VECTOR"
  BY DEF ExecuteComplete, ExecuteReady, VectorStep
<1>2. /\ CoreInv /\ OneOwner /\ CoreTypeOK /\ exAddr \in Addr /\ exWord \in Words
      /\ exWord \in WordType /\ carrier \in WordType /\ ioSample \in Value
      /\ pstate \in PipelineStates /\ ~ientry
  <2>1. exWord \in Words
    BY <1>1 DEF FromProgram
  <2>2. ~ientry
    BY RetireEffect
  <2> QED BY <2>1, <2>2 DEF PipeInv, TypeOK, CoreInv
<1>3. CoreStep(carrier, CoreBio(bio), irq, ioSample)
  BY DEF ClockCore
<1>4. CoreBio(bio) \in BOOLEAN
  BY DEF CoreBio, PipeInv, TypeOK
<1>5. CASE exWord.op \in OneCycleOps
  <2>1. exWord.op \notin ControlOps \cup ComputedOps \cup IoOps \cup TableOps
    BY <1>5, OpClasses
  <2>2. pstate = "SEQUENTIAL"
    BY <1>1, <1>2, <2>1 DEF PipeInv, TargetAgreement, TransferAgreement, PipelineStates
  <2>3. NonePending /\ carrier = exWord /\ exAddr = pc
    BY <1>1, <2>2 DEF PipeInv, SequentialAgreement
  <2>4. Owner = "issue"
    BY <1>2, <2>3 DEF Owner, NonePending, NoComputed, NoTransfer
  <2>5. Issue(exWord, irq, ioSample)
    BY <1>1, <1>3, <2>3, <2>4, StepOfOwner
  <2>6. Abstract!OneCycle(exWord, irq)
    BY <1>2, <1>5, <2>5, OneCycleEffect
  <2> QED BY <1>2, <2>3, <2>4, <2>6 DEF ExecutesCarrier, ArchPc
<1>6. CASE exWord.op \notin OneCycleOps
  <2>1. /\ \/ pstate = "CONTROL_TARGET" /\ exWord.op \in ControlOps
           \/ pstate = "COMPUTED_TARGET" /\ exWord.op \in ComputedOps
           \/ pstate = "IO_PREFETCH" /\ exWord.op \in IoOps
           \/ pstate = "TABLE_PREFETCH" /\ exWord.op \in TableOps
    BY <1>1, <1>6 DEF LastStep, Holds, ControlTargetStep, ComputedTargetStep,
                      IoPrefetchStep, TablePrefetchStep
  <2>2. pc = NextAddr(exAddr)
    BY <2>1 DEF PipeInv, TargetAgreement, TransferAgreement
  <2>3. (pc + PcMod - 1) % PcMod = exAddr
    BY <1>2, <2>2, PcBack
  <2>4. CASE pstate = "CONTROL_TARGET"
    <3>1. ctl = exWord.op /\ cmp = NoComputed /\ exWord.op \in ControlOps
      BY <2>4 DEF PipeInv, TargetAgreement
    <3>2. Owner = "control"
      BY <1>2, <3>1, OpClasses DEF Owner, NoComputed
    <3>3. FinishControl(carrier, CoreBio(bio), irq, ioSample)
      BY <1>1, <1>3, <3>2, StepOfOwner
    <3>4. Abstract!TwoWord([op |-> ctl], carrier, CoreBio(bio), irq)
      BY <1>2, <3>3, ControlEffect
    <3> DEFINE c == [op |-> ctl]
    <3>5. c.op = exWord.op
      BY <3>1
    <3>6. Abstract!TwoWord(c, carrier, CoreBio(bio), irq)
      BY <3>4
    <3> HIDE DEF c
    <3>7. Abstract!TwoWord(exWord, carrier, CoreBio(bio), irq)
      BY <3>5, <3>6 DEF Abstract!TwoWord
    <3> QED BY <1>2, <1>4, <2>3, <2>4, <3>2, <3>7 DEF ExecutesCarrier, ArchPc
  <2>5. CASE pstate = "COMPUTED_TARGET"
    <3>1. cmp.op = exWord.op /\ carrier = exWord /\ exWord.op \in ComputedOps
      BY <2>5 DEF PipeInv, TargetAgreement
    <3>2. Owner = "computed"
      BY <1>2, <3>1, OpClasses DEF Owner
    <3>3. FinishComputed(carrier, irq, ioSample)
      BY <1>1, <1>3, <3>2, StepOfOwner
    <3>4. carrier.op \notin StoreOps
      BY <1>6, <3>1 DEF OneCycleOps, MemoryOps
    <3>5. Abstract!Computed([op |-> cmp.op], irq)
      BY <1>2, <3>3, <3>4, ComputedEffect, DiscardKeeps
    <3> DEFINE c == [op |-> cmp.op]
    <3>6. c.op = exWord.op /\ Abstract!Computed(c, irq)
      BY <3>1, <3>5
    <3> HIDE DEF c
    <3>7. Abstract!Computed(exWord, irq)
      BY <3>6 DEF Abstract!Computed
    <3> QED BY <1>2, <2>3, <3>2, <3>7 DEF ExecutesCarrier, ArchPc
  <2>6. CASE pstate = "IO_PREFETCH"
    <3>1. io.op = exWord.op /\ ctl = "none" /\ cmp = NoComputed /\ tbl = NoTransfer
            /\ exWord.op \in IoOps
      BY <2>6 DEF PipeInv, TransferAgreement
    <3>2. Owner = "io"
      BY <1>2, <3>1, OpClasses DEF Owner, NoComputed, NoTransfer
    <3>3. FinishIo(carrier, irq, ioSample)
      BY <1>1, <1>3, <3>2, StepOfOwner
    <3>4. Abstract!Transfer(exWord, ioSample, irq)
      BY <1>2, <2>6, <3>3, IoEffect DEF FromProgram
    <3>5. \E d \in IoValues : Abstract!Transfer(exWord, d, irq)
      <4>1. CASE exWord.op = "IN"
        BY <2>6, <3>4, <4>1 DEF FromProgram
      <4>2. CASE exWord.op = "OUT"
        <5>1. \A d : Abstract!Transfer(exWord, d, irq)
          BY <3>4, <4>2 DEF Abstract!Transfer
        <5> QED BY <5>1
      <4> QED BY <3>1, <4>1, <4>2 DEF IoOps
    <3> QED BY <1>2, <2>3, <3>1, <3>2, <3>5 DEF ExecutesCarrier, ArchPc
  <2>7. CASE pstate = "TABLE_PREFETCH"
    <3>1. tbl.op = exWord.op /\ ctl = "none" /\ cmp = NoComputed /\ xfer
            /\ exWord.op \in TableOps
      BY <2>7 DEF PipeInv, TransferAgreement
    <3>2. Owner = "table"
      BY <1>2, <3>1, OpClasses DEF Owner, NoComputed
    <3>3. FinishTable(carrier, irq, ioSample)
      BY <1>1, <1>3, <3>1, <3>2, StepOfOwner
    <3>4. Abstract!Transfer(exWord, carrier.data, irq)
      BY <1>2, <2>7, <3>3, TableEffect DEF FromProgram
    <3>5. \/ exWord.op = "TBLR"
          \/ exWord.op = "TBLW" /\ \A d : Abstract!Transfer(exWord, d, irq)
      <4>1. CASE exWord.op = "TBLW"
        <5>1. \A d : Abstract!Transfer(exWord, d, irq)
          BY <3>4, <4>1 DEF Abstract!Transfer
        <5> QED BY <4>1, <5>1
      <4> QED BY <3>1, <4>1 DEF TableOps
    <3> QED BY <1>2, <2>3, <2>7, <3>1, <3>2, <3>4, <3>5 DEF ExecutesCarrier, ArchPc
  <2> QED BY <2>1, <2>4, <2>5, <2>6, <2>7
<1> QED BY <1>5, <1>6

LEMMA RetireExecutes ==
  ASSUME PipeInv, FromProgram, ExecuteComplete, ~VectorStep, NEW bio \in BOOLEAN,
         NEW irq \in BOOLEAN, IoValues # {}, ClockCore(bio, irq)
  PROVE  exAddr = ArchPc /\ Executes(exWord, irq) /\ ~ientry
<1>1. exWord \in Words /\ (pstate = "CONTROL_TARGET" => carrier \in Words)
        /\ (pstate = "TABLE_PREFETCH" /\ exWord.op = "TBLR" => carrier \in Words)
  BY DEF ExecuteComplete, ExecuteReady, FromProgram
<1>2. ExecutesCarrier(irq) => Executes(exWord, irq)
  BY <1>1 DEF ExecutesCarrier, Executes, TableOps
<1> QED BY <1>2, RetireExecutesCarrier

\* The vector fetch is the entry.
LEMMA VectorEnters ==
  ASSUME PipeInv, VectorStep, NEW bio, NEW irq, ClockCore(bio, irq)
  PROVE  Abstract!Enter
<1>1. ientry /\ NonePending /\ Owner = "entry"
  BY DEF PipeInv, InterruptAgreement, Owner
<1>2. InterruptEntry
  BY <1>1, StepOfOwner DEF ClockCore
<1>3. /\ stack' = Push(stack, pc) /\ pc' = Vector /\ intm' = TRUE
      /\ ipend' = FALSE /\ idelay' = FALSE /\ ientry' = FALSE
      /\ reg' = reg /\ ram' = ram /\ ctl' = ctl /\ cmp' = cmp /\ io' = io /\ tbl' = tbl
  BY <1>2 DEF InterruptEntry, pendVars
<1>4. ArchPc = pc /\ ArchPc' = pc'
  BY <1>1, <1>3 DEF ArchPc, Owner, NonePending, NoComputed, NoTransfer
<1>5. Abstract!Push(stack, pc) = Push(stack, pc) /\ Abstract!Vector = Vector
  BY SameStack DEF Abstract!Vector, Vector
<1> QED BY <1>1, <1>3, <1>4, <1>5 DEF Abstract!Enter

\* A boundary that is not the last cycle of an instruction.
LEMMA StartHidden ==
  ASSUME PipeInv, NEW bio, NEW irq, ClockCore(bio, irq), ExecuteReady, ~VectorStep,
         \/ ControlOperandStep \/ ComputedStartStep \/ IoTransferStep
         \/ TableStartStep \/ TableTransferStep
  PROVE  ~ExecuteComplete /\ Hidden(irq)
<1>1. exWord.op \in ControlOps \cup ComputedOps \cup IoOps \cup TableOps
        /\ exWord.op \notin OneCycleOps
  BY OpClasses DEF ControlOperandStep, ComputedStartStep, IoTransferStep, TableStartStep,
                   TableTransferStep, Holds
<1>2. ~ExecuteComplete
  BY <1>1 DEF ExecuteComplete, LastStep, Holds, ControlTargetStep, ComputedTargetStep,
              IoPrefetchStep, TablePrefetchStep, ControlOperandStep, ComputedStartStep,
              IoTransferStep, TableStartStep, TableTransferStep
<1>3. CoreInv /\ exWord \in WordType /\ carrier \in WordType /\ ioSample \in Value
  BY DEF PipeInv, TypeOK
<1>4. CASE ~TableTransferStep
  <2>1. pstate = "SEQUENTIAL"
    BY <1>4 DEF ControlOperandStep, ComputedStartStep, IoTransferStep, TableStartStep
  <2>2. Issue(exWord, irq, ioSample)
    BY <1>1, <2>1, StartEffect
  <2> QED BY <1>1, <1>2, <1>3, <2>2, HiddenEdges
<1>5. CASE TableTransferStep
  <2>1. pstate = "TABLE_TRANSFER" /\ exWord.op \in TableOps /\ InstructionValid(carrier)
    BY <1>5 DEF TableTransferStep, Holds, ExecuteReady
  <2>2. tbl.op = exWord.op /\ ctl = "none" /\ cmp = NoComputed /\ ~ientry /\ ~xfer
    BY <2>1 DEF PipeInv, TransferAgreement, TypeOK, CoreTypeOK
  <2>3. Owner = "table"
    BY <2>1, <2>2, OpClasses DEF Owner, NoComputed
  <2>4. StartTableTransfer(carrier, irq, ioSample)
    BY <2>1, <2>2, <2>3, StepOfOwner DEF ClockCore
  <2> QED BY <1>2, <1>3, <2>4, HiddenEdges
<1> QED BY <1>4, <1>5

\* The effect of a boundary of the active bus, by the state it finds.
BoundaryEffect ==
  IF VectorStep THEN Abstract!Enter
  ELSE IF ExecuteComplete
    THEN exAddr = ArchPc /\ \E irq \in BOOLEAN : Executes(exWord, irq)
    ELSE \E irq \in BOOLEAN : Hidden(irq)

LEMMA FetchEffect ==
  ASSUME PipeInv, FromProgram, Fetch
  PROVE  BoundaryEffect
<1>1. PICK w \in Words, bio \in BOOLEAN, irq \in BOOLEAN, d \in IoValues :
        \/ Prime(w)
        \/ FetchVector(w, bio, irq)
        \/ FetchOperand(w, bio, irq)
        \/ StartComputed(bio, irq)
        \/ TransferIo(bio, irq, d)
        \/ StartTable(bio, irq)
        \/ TransferTable(w, bio, irq)
        \/ Retire(w, bio, irq)
        \/ RetireProtected(bio, irq)
  BY DEF Fetch, Serve
<1>2. CASE Prime(w)
  <2>1. ~VectorStep /\ ~ExecuteComplete /\ UNCHANGED coreVars
    BY <1>2 DEF Prime, ExecuteComplete, ExecuteReady
  <2>2. ArchPc' = ArchPc
    BY <2>1 DEF coreVars, irqVars, pendVars, ArchPc, Owner
  <2>3. Hidden(FALSE)
    BY <2>1, <2>2 DEF Hidden, coreVars, irqVars, PipeInv, TypeOK, CoreTypeOK
  <2> QED BY <2>1, <2>3 DEF BoundaryEffect
<1>3. CASE FetchVector(w, bio, irq)
  BY <1>3, VectorEnters DEF FetchVector, BoundaryEffect
<1>4. CASE FetchOperand(w, bio, irq) \/ StartComputed(bio, irq) \/ TransferIo(bio, irq, d)
             \/ StartTable(bio, irq) \/ TransferTable(w, bio, irq)
  <2>1. /\ ClockCore(bio, irq) /\ ExecuteReady
        /\ \/ ControlOperandStep \/ ComputedStartStep \/ IoTransferStep
           \/ TableStartStep \/ TableTransferStep
    BY <1>4 DEF FetchOperand, StartComputed, TransferIo, StartTable, TransferTable
  <2>2. ~VectorStep
    BY <2>1 DEF VectorStep, ControlOperandStep, ComputedStartStep, IoTransferStep,
                TableStartStep, TableTransferStep
  <2>3. ~ExecuteComplete /\ Hidden(irq)
    BY <2>1, <2>2, StartHidden
  <2> QED BY <2>2, <2>3 DEF BoundaryEffect
<1>5. CASE Retire(w, bio, irq) \/ RetireProtected(bio, irq)
  <2>1. ~VectorStep /\ ExecuteComplete /\ ClockCore(bio, irq)
    BY <1>5 DEF Retire, RetireProtected, DummyFetchStep
  <2>2. exAddr = ArchPc /\ Executes(exWord, irq)
    BY <2>1, RetireExecutes
  <2> QED BY <2>1, <2>2 DEF BoundaryEffect
<1> QED BY <1>1, <1>2, <1>3, <1>4, <1>5

-----------------------------------------------------------------------------
\* Theorems.

THEOREM WordsFromProgram == Spec => [](PipeInv /\ FromProgram)
<1>1. Init => PipeInv /\ FromProgram
  BY InitPipe DEF Init, FromProgram
<1>2. PipeInv /\ FromProgram /\ [Next]_vars => (PipeInv /\ FromProgram)'
  BY PipeNextInv, FromProgramInv
<1> QED BY <1>1, <1>2, PTL DEF Spec

(* Each boundary of the active bus executes the word in the slot at its    *)
(* own address, enters an interrupt, or is invisible to the program.       *)
THEOREM SlotExecutesCorrect == Spec => SlotExecutes
<1>1. ASSUME PipeInv, FromProgram, Next, phase = LastPhase, active, active'
      PROVE  BoundaryEffect
  <2>1. ~PhaseStep(TRUE) /\ ~PhaseStep(FALSE) /\ ~IdleBoundary
    BY <1>1 DEF PhaseStep, IdleBoundary
  <2>2. ~ResetBoundary /\ ~SliceInitialize
    BY <1>1 DEF ResetBoundary, SliceInitialize
  <2> QED BY <1>1, <2>1, <2>2, FetchEffect DEF Next, Run
<1>2. PipeInv /\ FromProgram /\ [Next]_vars =>
        [phase = LastPhase /\ active /\ active' =>
           IF VectorStep THEN Abstract!Enter
           ELSE IF ExecuteComplete
             THEN exAddr = ArchPc /\ \E irq \in BOOLEAN : Executes(exWord, irq)
             ELSE \E irq \in BOOLEAN : Hidden(irq)]_vars
  BY <1>1 DEF BoundaryEffect
<1> QED BY <1>2, WordsFromProgram, PTL DEF Spec, SlotExecutes

LEMMA SliceStepIsIsa ==
  ASSUME PipeInv, FromProgram, [Next]_vars
  PROVE  [Abstract!Next]_(Abstract!isaVars)
<1>1. CASE Fetch
  <2>1. BoundaryEffect
    BY <1>1, FetchEffect
  <2>2. CASE VectorStep
    BY <2>1, <2>2 DEF BoundaryEffect, Abstract!Next
  <2>3. CASE ~VectorStep /\ ExecuteComplete
    <3>1. PICK irq \in BOOLEAN : Executes(exWord, irq)
      BY <2>1, <2>3 DEF BoundaryEffect
    <3>2. exWord \in Words /\ ~ientry
      BY <2>3 DEF ExecuteComplete, ExecuteReady, FromProgram, PipeInv, InterruptAgreement
    <3>3. Abstract!Execute
      <4>1. Abstract!IoOps = IoOps /\ Abstract!TableOps = TableOps
        BY SameClasses
      <4> QED BY <3>1, <3>2, <4>1, Zenon DEF Executes, Abstract!Execute
    <3> QED BY <3>3 DEF Abstract!Next
  <2>4. CASE ~VectorStep /\ ~ExecuteComplete
    <3>1. PICK irq \in BOOLEAN : Hidden(irq)
      BY <2>1, <2>4 DEF BoundaryEffect
    <3>2. CoreTypeOK /\ ~ientry
      BY <2>4 DEF PipeInv, TypeOK, InterruptAgreement
    <3> QED BY <3>1, <3>2, HiddenIsStutter
  <2> QED BY <2>2, <2>3, <2>4
<1>2. CASE PhaseStep(FALSE) \/ PhaseStep(TRUE) \/ IdleBoundary \/ UNCHANGED vars
  <2>1. UNCHANGED coreVars
    BY <1>2 DEF PhaseStep, IdleBoundary, vars
  <2> QED BY <2>1, QuietIsStutter
<1>3. CASE ResetBoundary \/ SliceInitialize
  <2>1. CoreReset \/ CoreInitialize
    BY <1>3 DEF ResetBoundary, SliceInitialize
  <2> QED BY <2>1, ResetIsReset DEF Abstract!Next
<1> QED BY <1>1, <1>2, <1>3 DEF Next, Run

(* The pipeline slice implements the instruction-level machine.            *)
THEOREM SliceImplementsIsa == Spec => ImplementsIsa
<1>1. Init => Abstract!Init
  BY InitIsIsa DEF Init
<1>2. PipeInv /\ FromProgram /\ [Next]_vars => [Abstract!Next]_(Abstract!isaVars)
  BY SliceStepIsIsa
<1> QED BY <1>1, <1>2, WordsFromProgram, PTL DEF Spec, ImplementsIsa, Abstract!Spec

-----------------------------------------------------------------------------
(* A program that rewrites itself: the word about to start is the one in   *)
(* the memory, for every program and every schedule of the pins.           *)

\* The memory is written only in the transfer cycle of a table instruction.
LEMMA OnlyTransferWrites ==
  ASSUME TableWrite, NEW bio, NEW irq, NEW d, NEW w, Serve(w, bio, irq, d)
  PROVE  pstate' = "TABLE_PREFETCH"
<1>1. exValid /\ exWord.op \in TableOps /\ pstate = "TABLE_TRANSFER"
  BY DEF TableWrite, TableTransferStep, Holds
<1>2. exWord.op \notin OneCycleOps
  BY <1>1, OpClasses
<1>3. ~LastStep /\ ~VectorStep /\ exWord.op \notin ControlOps \cup ComputedOps \cup IoOps
  BY <1>1, <1>2, OpClasses DEF LastStep, Holds, ControlTargetStep, ComputedTargetStep,
                               IoPrefetchStep, TablePrefetchStep, VectorStep
<1>4. ~ControlOperandStep /\ ~ComputedStartStep /\ ~IoTransferStep /\ ~TableStartStep
  BY <1>1, <1>3 DEF ControlOperandStep, ComputedStartStep, IoTransferStep,
                    TableStartStep, Holds
<1>5. TransferTable(w, bio, irq)
  BY <1>1, <1>3, <1>4 DEF Serve, Prime, FetchVector, FetchOperand, StartComputed,
       TransferIo, StartTable, Retire, RetireProtected, DummyFetchStep, ExecuteComplete
<1> QED BY <1>5 DEF TransferTable

LEMMA SlotFreshStep ==
  ASSUME SlotFresh, [StoredNext]_<<vars, prog>>
  PROVE  SlotFresh'
<1>1. CASE StoredFetch
  <2>1. PICK bio \in BOOLEAN, irq \in BOOLEAN, d \in IoValues :
          Serve(prog[busAddr], bio, irq, d)
    BY <1>1 DEF StoredFetch
  <2>2. CASE TableWrite
    BY <2>1, <2>2, OnlyTransferWrites DEF SlotFresh
  <2>3. CASE ~TableWrite
    <3>1. prog' = prog
      BY <1>1, <2>3 DEF StoredFetch
    <3>2. CASE \/ Prime(prog[busAddr])
               \/ FetchVector(prog[busAddr], bio, irq)
               \/ Retire(prog[busAddr], bio, irq)
      BY <3>1, <3>2 DEF Prime, FetchVector, Retire, FillSlot, SlotFresh
    <3>3. CASE \/ FetchOperand(prog[busAddr], bio, irq)
               \/ StartComputed(bio, irq)
               \/ TransferIo(bio, irq, d)
               \/ StartTable(bio, irq)
               \/ TransferTable(prog[busAddr], bio, irq)
               \/ RetireProtected(bio, irq)
      BY <3>3 DEF FetchOperand, StartComputed, TransferIo, StartTable, TransferTable,
                  RetireProtected, SlotFresh
    <3> QED BY <2>1, <3>2, <3>3 DEF Serve
  <2> QED BY <2>2, <2>3
<1>2. CASE (ResetBoundary \/ SliceInitialize) /\ UNCHANGED prog
  BY <1>2 DEF ResetBoundary, SliceInitialize, EmptySlot, SlotFresh
<1>3. CASE \/ (PhaseStep(FALSE) \/ IdleBoundary \/ PhaseStep(TRUE)) /\ UNCHANGED prog
           \/ UNCHANGED <<vars, prog>>
  BY <1>3 DEF PhaseStep, IdleBoundary, vars, sliceVars, slotVars, SlotFresh
<1> QED BY <1>1, <1>2, <1>3 DEF StoredNext

-----------------------------------------------------------------------------
\* The fetches come from the program memory.

\* A word of another instruction than TBLW is still the stored one when it
\* retires, and so are the operand and the datum in the carrier.
FromMemory ==
  /\ exValid /\ exWord.op # "TBLW" => exWord = prog[exAddr]
  /\ pstate = "CONTROL_TARGET" => carrier = prog[NextAddr(exAddr)]
  /\ pstate = "TABLE_PREFETCH" /\ exWord.op = "TBLR" => carrier = prog[reg.acc % PcMod]

StoredInv == prog \in ProgType /\ PipeInv /\ FromProgram /\ FromMemory

\* A slice with a program memory is a slice.
LEMMA StoredIsSlice ==
  ASSUME prog \in ProgType, busAddr \in Addr, StoredNext
  PROVE  Next /\ prog' \in ProgType
<1>1. CASE StoredFetch
  <2>1. prog[busAddr] \in Words
    BY DEF ProgType
  <2>2. Fetch
    BY <1>1, <2>1 DEF StoredFetch, Fetch
  <2>3. prog' \in ProgType
    BY <1>1 DEF StoredFetch, ProgType
  <2> QED BY <2>2, <2>3 DEF Next, Run
<1>2. CASE ~StoredFetch
  BY <1>2 DEF StoredNext, Next, Run
<1> QED BY <1>1, <1>2

\* The transfer cycle of TBLR reads the address in the accumulator.
LEMMA DatumAddress ==
  ASSUME PipeInv, NEW w, NEW bio, NEW irq, TransferTable(w, bio, irq)
  PROVE  busAddr = reg.acc % PcMod /\ reg' = reg
<1>1. /\ ExecuteReady /\ pstate = "TABLE_TRANSFER" /\ exWord.op \in TableOps
      /\ ClockCore(bio, irq)
  BY DEF TransferTable, TableTransferStep, Holds
<1>2. /\ tbl.op = exWord.op /\ ctl = "none" /\ cmp = NoComputed /\ ~ientry /\ ~xfer
      /\ busAddr = tbl.at
  BY <1>1 DEF PipeInv, TransferAgreement, TypeOK, CoreTypeOK
<1>3. Owner = "table" /\ tbl.op # "none"
  BY <1>1, <1>2, OpClasses DEF Owner, NoComputed
<1>4. busAddr = reg.acc % PcMod
  BY <1>2, <1>3 DEF PipeInv, CoreInv, CapturedCurrent
<1>5. StartTableTransfer(carrier, irq, ioSample)
  BY <1>1, <1>2, <1>3, StepOfOwner DEF ClockCore, ExecuteReady
<1> QED BY <1>4, <1>5 DEF StartTableTransfer

LEMMA ServeFromMemory ==
  ASSUME PipeInv, FromMemory, prog \in ProgType, NEW bio \in BOOLEAN, NEW irq \in BOOLEAN,
         NEW d \in IoValues, Serve(prog[busAddr], bio, irq, d),
         ~TableWrite => prog' = prog
  PROVE  FromMemory'
<1> DEFINE w == prog[busAddr]
<1>1. CASE Prime(w)
  <2>1. ~exValid /\ pstate = "SEQUENTIAL"
    BY <1>1 DEF Prime, FetchBoundary, PipeInv, TypeOK, PipelineStates, TargetAgreement,
                TransferAgreement, VectorStep
  <2>2. prog' = prog
    BY <2>1 DEF TableWrite, TableTransferStep
  <2> QED BY <1>1, <2>1, <2>2 DEF Prime, FillSlot, FromMemory
<1>2. CASE FetchVector(w, bio, irq)
  <2>1. prog' = prog
    BY <1>2 DEF FetchVector, VectorStep, TableWrite, TableTransferStep
  <2> QED BY <1>2, <2>1 DEF FetchVector, FillSlot, FromMemory
<1>3. CASE FetchOperand(w, bio, irq)
  <2>1. /\ exValid /\ pstate = "SEQUENTIAL" /\ exWord.op \in ControlOps
        /\ exValid' = exValid /\ exWord' = exWord /\ exAddr' = exAddr /\ carrier' = w
        /\ pstate' # "TABLE_PREFETCH"
    BY <1>3 DEF FetchOperand, ControlOperandStep, Holds, slotVars
  <2>2. prog' = prog
    BY <2>1 DEF TableWrite, TableTransferStep
  <2>3. busAddr = NextAddr(exAddr)
    BY <2>1 DEF PipeInv, SequentialAgreement
  <2> QED BY <2>1, <2>2, <2>3 DEF FromMemory, NextAddr
<1>4. CASE StartComputed(bio, irq) \/ TransferIo(bio, irq, d) \/ StartTable(bio, irq)
  <2>1. /\ pstate = "SEQUENTIAL" /\ UNCHANGED slotVars
        /\ pstate' \in {"COMPUTED_TARGET", "IO_PREFETCH", "TABLE_TRANSFER"}
    BY <1>4 DEF StartComputed, TransferIo, StartTable, ComputedStartStep, IoTransferStep,
                TableStartStep
  <2>2. prog' = prog
    BY <2>1 DEF TableWrite, TableTransferStep
  <2> QED BY <2>1, <2>2 DEF FromMemory, slotVars
<1>5. CASE TransferTable(w, bio, irq)
  <2>1. /\ exValid /\ exWord.op \in TableOps /\ UNCHANGED slotVars
        /\ pstate' = "TABLE_PREFETCH"
        /\ carrier' = IF exWord.op = "TBLR" THEN w ELSE carrier
    BY <1>5 DEF TransferTable, TableTransferStep, Holds
  <2>2. busAddr = reg.acc % PcMod /\ reg' = reg
    BY <1>5, DatumAddress
  <2>3. exWord.op = "TBLR" => prog' = prog
    BY DEF TableWrite
  <2> QED BY <2>1, <2>2, <2>3 DEF FromMemory, slotVars, TableOps
<1>6. CASE Retire(w, bio, irq)
  <2>1. ExecuteComplete /\ ~VectorStep /\ ClockCore(bio, irq)
    BY <1>6 DEF Retire
  <2>2. pstate' = "SEQUENTIAL"
    <3>1. Holds(OneCycleOps) => pstate = "SEQUENTIAL"
      BY <2>1, RetireEffect
    <3> QED BY <1>6, <3>1 DEF Retire
  <2>3. prog' = prog
    BY <2>2, OnlyTransferWrites
  <2> QED BY <1>6, <2>2, <2>3 DEF Retire, FillSlot, FromMemory
<1>7. CASE RetireProtected(bio, irq)
  BY <1>7 DEF RetireProtected, EmptySlot, FromMemory
<1> QED BY <1>1, <1>2, <1>3, <1>4, <1>5, <1>6, <1>7 DEF Serve

LEMMA StoredInvStep ==
  ASSUME StoredInv, [StoredNext]_<<vars, prog>>
  PROVE  StoredInv'
<1>1. busAddr \in Addr
  BY DEF StoredInv, PipeInv, TypeOK
<1>2. prog' \in ProgType /\ PipeInv' /\ FromProgram'
  <2>1. CASE StoredNext
    BY <1>1, <2>1, StoredIsSlice, PipeNextInv, FromProgramInv DEF StoredInv
  <2>2. CASE UNCHANGED <<vars, prog>>
    BY <2>2, PipeNextInv, FromProgramInv DEF StoredInv
  <2> QED BY <2>1, <2>2
<1>3. FromMemory'
  <2>1. CASE StoredFetch
    <3>1. PICK bio \in BOOLEAN, irq \in BOOLEAN, d \in IoValues :
            Serve(prog[busAddr], bio, irq, d)
      BY <2>1 DEF StoredFetch
    <3>2. ~TableWrite => prog' = prog
      BY <2>1 DEF StoredFetch
    <3> QED BY <3>1, <3>2, ServeFromMemory DEF StoredInv
  <2>2. CASE \/ (PhaseStep(FALSE) \/ IdleBoundary \/ PhaseStep(TRUE)) /\ UNCHANGED prog
             \/ UNCHANGED <<vars, prog>>
    <3>1. UNCHANGED coreVars /\ UNCHANGED slotVars /\ pstate' = pstate
            /\ carrier' = carrier /\ prog' = prog
      BY <2>2 DEF PhaseStep, IdleBoundary, vars, sliceVars
    <3> QED BY <3>1 DEF coreVars, slotVars, StoredInv, FromMemory, NextAddr
  <2>3. CASE (ResetBoundary \/ SliceInitialize) /\ UNCHANGED prog
    BY <2>3 DEF ResetBoundary, SliceInitialize, EmptySlot, FromMemory
  <2> QED BY <2>1, <2>2, <2>3 DEF StoredNext
<1> QED BY <1>2, <1>3 DEF StoredInv

\* What retires is in the memory.
LEMMA RetiresStored ==
  ASSUME StoredInv, StoredNext, phase = LastPhase, active, active', ~VectorStep,
         ExecuteComplete
  PROVE  /\ exAddr = ArchPc
         /\ exWord.op # "TBLW" => exWord = prog[exAddr]
         /\ \E irq \in BOOLEAN : ExecutesStored(irq)
<1>1. StoredFetch
  BY DEF StoredNext, PhaseStep, IdleBoundary, ResetBoundary, SliceInitialize
<1>2. PICK bio \in BOOLEAN, irq \in BOOLEAN, d \in IoValues :
        Serve(prog[busAddr], bio, irq, d)
  BY <1>1 DEF StoredFetch
<1>3. ClockCore(bio, irq)
  BY <1>2 DEF Serve, Prime, FetchVector, FetchOperand, StartComputed, TransferIo,
              StartTable, TransferTable, Retire, RetireProtected, ExecuteComplete,
              ExecuteReady
<1>4. exAddr = ArchPc /\ ExecutesCarrier(irq)
  BY <1>3, RetireExecutesCarrier DEF StoredInv
<1>5. exValid
  BY DEF ExecuteComplete, ExecuteReady
<1>6. ExecutesStored(irq)
  <2>1. CASE pstate = "CONTROL_TARGET"
               /\ \E b \in BOOLEAN : Abstract!TwoWord(exWord, carrier, b, irq)
    BY <2>1 DEF StoredInv, FromMemory, ExecutesStored
  <2>2. CASE pstate = "TABLE_PREFETCH" /\ exWord.op = "TBLR"
               /\ Abstract!Transfer(exWord, carrier.data, irq)
    BY <2>2 DEF StoredInv, FromMemory, ExecutesStored
  <2>3. CASE exWord.op = "TBLW" /\ \A x : Abstract!Transfer(exWord, x, irq)
    BY <2>3 DEF ExecutesStored
  <2> QED BY <1>4, <2>1, <2>2, <2>3 DEF ExecutesCarrier, ExecutesStored
<1> QED BY <1>4, <1>5, <1>6 DEF StoredInv, FromMemory

-----------------------------------------------------------------------------
\* Theorems.

(* TBLW may rewrite the word that was fetched ahead of it: the word in the *)
(* slot at the start of an instruction is the stored one all the same.     *)
THEOREM SlotFreshCorrect == StoredSpec => []SlotFresh
<1>1. StoredInit => SlotFresh
  BY DEF StoredInit, Init, SlotFresh
<1> QED BY <1>1, SlotFreshStep, PTL DEF StoredSpec

\* The slice keeps its invariant, and what it holds is from the memory.
THEOREM StoredInvariant == StoredSpec => []StoredInv
<1>1. StoredInit => StoredInv
  <2>1. ASSUME StoredInit
        PROVE  prog \in ProgType /\ PipeInv /\ FromProgram /\ FromMemory
    BY <2>1, InitPipe DEF StoredInit, Init, FromProgram, FromMemory
  <2> QED BY <2>1 DEF StoredInv
<1> QED BY <1>1, StoredInvStep, PTL DEF StoredSpec

(* What retires is the program in the memory: the word stored at PC, its    *)
(* operand and its table datum, for every program, also one that rewrites  *)
(* itself, and every schedule of pins and resets.                          *)
THEOREM ProgramExecutesCorrect == StoredSpec => ProgramExecutes
<1>1. StoredInv /\ [StoredNext]_<<vars, prog>> =>
        [phase = LastPhase /\ active /\ active' /\ ~VectorStep /\ ExecuteComplete =>
           /\ exAddr = ArchPc
           /\ exWord.op # "TBLW" => exWord = prog[exAddr]
           /\ \E irq \in BOOLEAN : ExecutesStored(irq)]_<<vars, prog>>
  BY RetiresStored
<1> QED BY <1>1, StoredInvariant, PTL DEF StoredSpec, ProgramExecutes
=============================================================================
