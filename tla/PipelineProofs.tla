--------------------------- MODULE PipelineProofs ---------------------------
(***************************************************************************)
(* The pipeline slice and the core it drives agree, for every width, every *)
(* program and every schedule of the RS, INT and BIO pins.                 *)
(***************************************************************************)
EXTENDS Pipeline, CoreProofs

-----------------------------------------------------------------------------
\* The inductive invariant.

\* Before the bus is active nothing has been fetched and PC is still zero.
IdleAgreement ==
  ~active => ~exValid /\ pstate = "SEQUENTIAL" /\ pc = 0 /\ busAddr = 0

PipeInv ==
  /\ TypeOK /\ CoreInv
  /\ SequentialAgreement /\ TargetAgreement /\ TransferAgreement
  /\ InterruptAgreement /\ IdleAgreement

LEMMA ZeroWordType == ZeroWord \in WordType
BY Widths, WidthAssumption
DEF ZeroWord, WordType, Bit, Ops, OneCycleOps, MemoryOps, LoadOps

-----------------------------------------------------------------------------
\* Types.

LEMMA BusTypes ==
  ASSUME TypeOK, NEW w \in WordType, NEW bio
  PROVE  /\ NextAddr(busAddr) \in Addr /\ pc \in Addr
         /\ reg.acc % PcMod \in Addr /\ stack[0] \in Addr
         /\ OperandNext(w, bio) \in Addr
         /\ 0 \in Addr /\ Vector \in Addr
<1>1. pc \in Addr /\ busAddr \in Addr /\ reg \in Registers /\ stack \in [Levels -> Addr]
  BY DEF TypeOK, CoreTypeOK
<1>2. NextAddr(busAddr) \in Addr /\ w.addr \in Addr
  BY <1>1, NextAddrType, WordTypes
<1>3. reg.acc % PcMod \in Addr /\ stack[0] \in Addr
  BY <1>1, RegisterTypes, AccAddrType, StackType
<1> QED BY <1>1, <1>2, <1>3, Widths DEF OperandNext

\* A boundary that clocks the core keeps the types of the core.
LEMMA ClockType ==
  ASSUME TypeOK, NEW bio, NEW irq \in BOOLEAN, ClockCore(bio, irq)
  PROVE  CoreTypeOK'
BY StepType DEF ClockCore, TypeOK

LEMMA FetchType ==
  ASSUME TypeOK, NEW w \in Words, NEW bio \in BOOLEAN, NEW irq \in BOOLEAN,
         NEW d \in IoValues,
         \/ Prime(w)
         \/ FetchVector(w, bio, irq)
         \/ FetchOperand(w, bio, irq)
         \/ StartComputed(bio, irq)
         \/ TransferIo(bio, irq, d)
         \/ StartTable(bio, irq)
         \/ TransferTable(w, bio, irq)
         \/ Retire(w, bio, irq)
         \/ RetireProtected(bio, irq)
  PROVE  TypeOK'
<1>1. w \in WordType /\ d \in Value /\ w.canon \in BOOLEAN
  BY WordAssumption, CoreAssumption, WordTypes
<1>2. /\ NextAddr(busAddr) \in Addr /\ pc \in Addr
      /\ reg.acc % PcMod \in Addr /\ stack[0] \in Addr
      /\ OperandNext(w, bio) \in Addr
      /\ 0 \in Addr /\ Vector \in Addr
  BY <1>1, BusTypes
<1>3. ClockCore(bio, irq) => CoreTypeOK'
  BY ClockType
<1>4. 0 \in 0 .. LastPhase
  BY PhaseAssumption
<1>5. ProtectNext(irq) \in BOOLEAN
  <2>1. CASE protected
    BY <2>1 DEF ProtectNext
  <2>2. CASE ~protected
    BY <2>2 DEF ProtectNext
  <2> QED BY <2>1, <2>2
<1>6. CASE Prime(w)
  BY <1>1, <1>2, <1>4, <1>6
  DEF Prime, BusTo, FillSlot, TypeOK, CoreTypeOK, coreVars, irqVars, pendVars
<1>7. CASE FetchVector(w, bio, irq)
  BY <1>1, <1>2, <1>3, <1>4, <1>7 DEF FetchVector, BusTo, FillSlot, TypeOK, PipelineStates
<1>8. CASE FetchOperand(w, bio, irq)
  BY <1>1, <1>2, <1>3, <1>4, <1>8 DEF FetchOperand, BusTo, slotVars, TypeOK, PipelineStates
<1>9. CASE StartComputed(bio, irq)
  BY <1>2, <1>3, <1>4, <1>9 DEF StartComputed, BusTo, slotVars, TypeOK, PipelineStates
<1>10. CASE TransferIo(bio, irq, d)
  BY <1>1, <1>2, <1>3, <1>4, <1>10 DEF TransferIo, BusTo, slotVars, TypeOK, PipelineStates
<1>11. CASE StartTable(bio, irq)
  BY <1>2, <1>3, <1>4, <1>11 DEF StartTable, BusTo, slotVars, TypeOK, PipelineStates
<1>12. CASE TransferTable(w, bio, irq)
  BY <1>1, <1>2, <1>3, <1>4, <1>12 DEF TransferTable, BusTo, slotVars, TypeOK, PipelineStates
<1>13. CASE Retire(w, bio, irq)
  BY <1>1, <1>2, <1>3, <1>4, <1>5, <1>13 DEF Retire, BusTo, FillSlot, TypeOK, PipelineStates
<1>14. CASE RetireProtected(bio, irq)
  BY <1>2, <1>3, <1>4, <1>5, <1>14, ZeroWordType
  DEF RetireProtected, BusTo, EmptySlot, TypeOK, PipelineStates
<1> QED BY <1>6, <1>7, <1>8, <1>9, <1>10, <1>11, <1>12, <1>13, <1>14

\* Reset and initialize put slice and core into the same idle state.
LEMMA ResetPipe ==
  ASSUME TypeOK, ResetBoundary \/ SliceInitialize
  PROVE  PipeInv'
<1>1. CoreInv'
  BY ResetInv DEF ResetBoundary, SliceInitialize, TypeOK
<1>2. 0 \in 0 .. LastPhase /\ 0 \in Addr /\ 0 \in Value
  BY PhaseAssumption, Widths
<1>3. TypeOK'
  BY <1>1, <1>2, ZeroWordType
  DEF ResetBoundary, SliceInitialize, EmptySlot, TypeOK, CoreInv, PipelineStates
<1>4. /\ pc' = 0 /\ ~ientry' /\ ~idelay' /\ ~illegal'
      /\ ctl' = "none" /\ cmp' = NoComputed /\ io' = NoTransfer /\ tbl' = NoTransfer
      /\ busAddr' = 0 /\ ~exValid' /\ pstate' = "SEQUENTIAL" /\ ~protected'
      /\ ~active'
  BY DEF ResetBoundary, SliceInitialize, CoreReset, CoreInitialize, EmptySlot
<1>5. /\ SequentialAgreement' /\ InterruptAgreement' /\ IdleAgreement'
      /\ TargetAgreement' /\ TransferAgreement'
  BY <1>3, <1>4
  DEF SequentialAgreement, InterruptAgreement, IdleAgreement,
      TargetAgreement, TransferAgreement, NonePending, VectorStep, TypeOK, CoreTypeOK
<1> QED BY <1>1, <1>3, <1>5 DEF PipeInv

LEMMA InitPipe ==
  ASSUME Init
  PROVE  PipeInv
<1>1. CoreInv
  BY InitInv DEF Init
<1>2. 0 \in 0 .. LastPhase /\ 0 \in Addr /\ 0 \in Value
  BY PhaseAssumption, Widths
<1>3. TypeOK
  BY <1>1, <1>2, ZeroWordType DEF Init, TypeOK, CoreInv, PipelineStates
<1>4. /\ SequentialAgreement /\ InterruptAgreement /\ IdleAgreement
      /\ TargetAgreement /\ TransferAgreement
  BY <1>3
  DEF Init, CoreInit, SequentialAgreement, InterruptAgreement, IdleAgreement,
      TargetAgreement, TransferAgreement, NonePending, VectorStep
<1> QED BY <1>1, <1>3, <1>4 DEF PipeInv

-----------------------------------------------------------------------------
\* What the core does at a boundary of the slice.

LEMMA StepOfOwner ==
  ASSUME NEW w, NEW bio, NEW irq, NEW d, CoreStep(w, bio, irq, d)
  PROVE  /\ Owner = "entry" => InterruptEntry
         /\ InstructionValid(w) =>
              /\ Owner = "computed" => FinishComputed(w, irq, d)
              /\ Owner = "control"  => FinishControl(w, bio, irq, d)
              /\ Owner = "table" /\ ~xfer => StartTableTransfer(w, irq, d)
              /\ Owner = "table" /\ xfer  => FinishTable(w, irq, d)
              /\ Owner = "io"    => FinishIo(w, irq, d)
              /\ Owner = "issue" => Issue(w, irq, d)
BY DEF CoreStep, InterruptEntry, FinishComputed, FinishControl, StartTableTransfer,
       FinishTable, FinishIo, Issue, Refuse

LEMMA OpClasses ==
  ASSUME NEW op
  PROVE  /\ op \in ControlOps => op \notin OneCycleOps \cup ComputedOps \cup IoOps \cup TableOps
         /\ op \in ComputedOps => op \notin OneCycleOps \cup IoOps \cup TableOps
         /\ op \in IoOps => op \notin OneCycleOps \cup TableOps
         /\ op \in TableOps => op \notin OneCycleOps
         /\ op \in {"DINT", "EINT"} \cup MpyOps => op \in OneCycleOps
         /\ op \in OneCycleOps \cup ControlOps \cup ComputedOps \cup IoOps \cup TableOps
              => op # "none"
BY DEF ControlOps, ComputedOps, IoOps, TableOps, OneCycleOps, MemoryOps, LoadOps,
       StoreOps, InherentOps, DmovOps, MpyOps, AccumulatorBranches

\* The first edge of an instruction of several cycles moves PC and nothing else
\* that the slice looks at.
LEMMA StartEffect ==
  ASSUME PipeInv, ExecuteReady, pstate = "SEQUENTIAL", exWord.op \notin OneCycleOps,
         NEW bio, NEW irq, ClockCore(bio, irq)
  PROVE  /\ Owner = "issue" /\ Issue(exWord, irq, ioSample)
         /\ WordValid(exWord)
         /\ exValid /\ carrier = exWord /\ exAddr = pc /\ busAddr = NextAddr(pc)
         /\ pc' = NextAddr(pc) /\ reg' = reg /\ stack' = stack
         /\ ~ientry /\ ~ientry' /\ idelay' = idelay /\ ~illegal'
         /\ NonePending
<1>1. exValid /\ InstructionValid(carrier)
  BY DEF ExecuteReady
<1>2. /\ NonePending /\ ~ientry /\ exAddr = pc /\ carrier = exWord
      /\ busAddr = NextAddr(pc)
  BY <1>1 DEF PipeInv, SequentialAgreement
<1>3. Owner = "issue"
  BY <1>2 DEF NonePending, NoComputed, NoTransfer, Owner
<1>4. Issue(exWord, irq, ioSample)
  BY <1>1, <1>2, <1>3, StepOfOwner DEF ClockCore
<1>5. WordValid(exWord)
  BY <1>1, <1>2, <1>3 DEF InstructionValid
<1>6. Retiring(exWord) = "none"
  BY <1>3 DEF Retiring
<1>7. ientry' = ientry /\ idelay' = idelay /\ illegal' = FALSE
  BY <1>4, <1>6 DEF Issue, Clocked, InterruptUpdate
<1> QED BY <1>1, <1>2, <1>3, <1>4, <1>5, <1>7 DEF Issue

\* Away from the vector the two copies agree when the protected flags do.
LEMMA NoVector ==
  ASSUME TypeOK', ~ientry', pstate' # "INTERRUPT_VECTOR", protected' = idelay'
  PROVE  InterruptAgreement'
BY DEF InterruptAgreement, VectorStep, TypeOK, CoreTypeOK

LEMMA OperandStep ==
  ASSUME PipeInv, TypeOK', NEW w \in WordType, NEW bio \in BOOLEAN,
         NEW irq \in BOOLEAN, FetchOperand(w, bio, irq)
  PROVE  PipeInv'
<1>1. ExecuteReady /\ exWord.op \in ControlOps /\ pstate = "SEQUENTIAL"
        /\ ClockCore(bio, irq) /\ active /\ exValid
  BY DEF FetchOperand, ControlOperandStep, Holds, FetchBoundary, ExecuteReady
<1>2. exWord.op \notin OneCycleOps \cup ComputedOps \cup IoOps \cup TableOps
  BY <1>1, OpClasses
<1>3. /\ Issue(exWord, irq, ioSample)
      /\ exAddr = pc /\ busAddr = NextAddr(pc)
      /\ pc' = NextAddr(pc) /\ reg' = reg
      /\ ~ientry /\ ~ientry' /\ idelay' = idelay /\ ~illegal' /\ NonePending
  BY <1>1, <1>2, StartEffect
<1>4. ctl' = exWord.op /\ cmp' = NoComputed /\ io' = NoTransfer /\ tbl' = NoTransfer
  BY <1>1, <1>2, <1>3 DEF Issue, NonePending
<1>5. /\ carrier' = w /\ busAddr' = OperandNext(w, bio)
      /\ biozTaken' = (w.canon /\ exWord.op = "BIOZ" /\ ~bio)
      /\ pstate' = IF w.canon THEN "CONTROL_TARGET" ELSE "CONTROL_INVALID"
      /\ exValid' = exValid /\ exAddr' = exAddr /\ exWord' = exWord
      /\ protected' = protected /\ active' = active
  BY DEF FetchOperand, BusTo, slotVars
<1>6. CoreInv'
  BY <1>1, StepInv DEF ClockCore, PipeInv, TypeOK
<1>7. Owner' = "control"
  BY <1>1, <1>3, <1>4, OpClasses DEF Owner, NoComputed
<1>8. w.canon \in BOOLEAN
  BY WordTypes
<1>9. \A b \in BOOLEAN : busAddr' = ProgramNextAddress(carrier, CoreBio(b))'
  <2>1. SUFFICES ASSUME NEW b \in BOOLEAN
                 PROVE  busAddr' = ProgramNextAddress(carrier, CoreBio(b))'
    OBVIOUS
  <2>2. CASE ~w.canon
    BY <1>3, <1>5, <1>7, <2>2 DEF ProgramNextAddress, OperandNext
  <2>3. CASE w.canon
    <3>1. CoreBio(b)' = IF exWord.op = "BIOZ" THEN bio ELSE b
      BY <1>1, <1>5, <2>3 DEF CoreBio, ControlTargetStep, Holds
    <3>2. BranchTaken(ctl', reg', CoreBio(b)') = BranchTaken(exWord.op, reg, bio)
      BY <1>3, <1>4, <3>1 DEF BranchTaken
    <3>3. ProgramNextAddress(carrier, CoreBio(b))'
            = IF BranchTaken(ctl', reg', CoreBio(b)') THEN w.addr ELSE NextAddr(pc')
      BY <1>5, <1>7, <2>3 DEF ProgramNextAddress, NextAddr
    <3> QED BY <1>3, <1>5, <2>3, <3>2, <3>3 DEF OperandNext
  <2> QED BY <2>2, <2>3
<1>10. TargetAgreement'
  BY <1>1, <1>3, <1>4, <1>5, <1>8, <1>9 DEF TargetAgreement, NextAddr
<1>11. SequentialAgreement' /\ TransferAgreement' /\ IdleAgreement'
  BY <1>1, <1>3, <1>5
  DEF SequentialAgreement, TransferAgreement, IdleAgreement
<1>12. InterruptAgreement'
  <2>1. protected' = idelay' /\ pstate' # "INTERRUPT_VECTOR"
    BY <1>3, <1>5 DEF InterruptAgreement, PipeInv
  <2> QED BY <1>3, <2>1, NoVector
<1> QED BY <1>6, <1>10, <1>11, <1>12 DEF PipeInv

LEMMA StartComputedStep ==
  ASSUME PipeInv, TypeOK', NEW bio \in BOOLEAN, NEW irq \in BOOLEAN,
         StartComputed(bio, irq)
  PROVE  PipeInv'
<1>1. ExecuteReady /\ exWord.op \in ComputedOps /\ pstate = "SEQUENTIAL"
        /\ ClockCore(bio, irq) /\ active /\ exValid
  BY DEF StartComputed, ComputedStartStep, Holds, FetchBoundary, ExecuteReady
<1>2. exWord.op \notin OneCycleOps \cup ControlOps \cup IoOps \cup TableOps
  BY <1>1, OpClasses
<1>3. /\ Issue(exWord, irq, ioSample)
      /\ carrier = exWord /\ exAddr = pc
      /\ pc' = NextAddr(pc)
      /\ ~ientry /\ ~ientry' /\ idelay' = idelay /\ ~illegal' /\ NonePending
  BY <1>1, <1>2, StartEffect
<1>4. ctl' = "none" /\ io' = NoTransfer /\ tbl' = NoTransfer
        /\ cmp' = [op     |-> exWord.op,
                   target |-> IF exWord.op = "CALA" THEN reg.acc % PcMod
                                                    ELSE stack[0],
                   ret    |-> NextAddr(pc)]
  BY <1>1, <1>2, <1>3 DEF Issue, NonePending, CaptureComputed
<1>5. /\ carrier' = carrier /\ pstate' = "COMPUTED_TARGET"
      /\ busAddr' = IF exWord.op = "CALA" THEN reg.acc % PcMod ELSE stack[0]
      /\ exValid' = exValid /\ exAddr' = exAddr /\ exWord' = exWord
      /\ protected' = protected /\ active' = active
  BY DEF StartComputed, BusTo, slotVars
<1>6. CoreInv'
  BY <1>1, StepInv DEF ClockCore, PipeInv, TypeOK
<1>7. TargetAgreement'
  BY <1>1, <1>3, <1>4, <1>5 DEF TargetAgreement, NextAddr
<1>8. SequentialAgreement' /\ TransferAgreement' /\ IdleAgreement'
  BY <1>1, <1>3, <1>5
  DEF SequentialAgreement, TransferAgreement, IdleAgreement
<1>9. InterruptAgreement'
  <2>1. protected' = idelay' /\ pstate' # "INTERRUPT_VECTOR"
    BY <1>3, <1>5 DEF InterruptAgreement, PipeInv
  <2> QED BY <1>3, <2>1, NoVector
<1> QED BY <1>6, <1>7, <1>8, <1>9 DEF PipeInv

LEMMA StartIoStep ==
  ASSUME PipeInv, TypeOK', NEW bio \in BOOLEAN, NEW irq \in BOOLEAN, NEW d,
         TransferIo(bio, irq, d)
  PROVE  PipeInv'
<1>1. ExecuteReady /\ exWord.op \in IoOps /\ pstate = "SEQUENTIAL"
        /\ ClockCore(bio, irq) /\ active /\ exValid
  BY DEF TransferIo, IoTransferStep, Holds, FetchBoundary, ExecuteReady
<1>2. exWord.op \notin OneCycleOps \cup ControlOps \cup ComputedOps \cup TableOps
  BY <1>1, OpClasses
<1>3. /\ Issue(exWord, irq, ioSample)
      /\ exAddr = pc /\ busAddr = NextAddr(pc)
      /\ pc' = NextAddr(pc)
      /\ ~ientry /\ ~ientry' /\ idelay' = idelay /\ ~illegal' /\ NonePending
  BY <1>1, <1>2, StartEffect
<1>4. ctl' = "none" /\ cmp' = NoComputed /\ tbl' = NoTransfer
        /\ io' = Capture(exWord, exWord.port, DataAddress(exWord))
  BY <1>1, <1>2, <1>3 DEF Issue, NonePending
<1>5. /\ pstate' = "IO_PREFETCH" /\ busAddr' = busAddr
      /\ exValid' = exValid /\ exAddr' = exAddr /\ exWord' = exWord
      /\ protected' = protected /\ active' = active
  BY DEF TransferIo, BusTo, slotVars
<1>6. CoreInv'
  BY <1>1, StepInv DEF ClockCore, PipeInv, TypeOK
<1>7. TransferAgreement'
  BY <1>1, <1>3, <1>4, <1>5 DEF TransferAgreement, NextAddr, Capture
<1>8. SequentialAgreement' /\ TargetAgreement' /\ IdleAgreement'
  BY <1>1, <1>3, <1>5
  DEF SequentialAgreement, TargetAgreement, IdleAgreement
<1>9. InterruptAgreement'
  <2>1. protected' = idelay' /\ pstate' # "INTERRUPT_VECTOR"
    BY <1>3, <1>5 DEF InterruptAgreement, PipeInv
  <2> QED BY <1>3, <2>1, NoVector
<1> QED BY <1>6, <1>7, <1>8, <1>9 DEF PipeInv

LEMMA StartTableStep ==
  ASSUME PipeInv, TypeOK', NEW bio \in BOOLEAN, NEW irq \in BOOLEAN,
         StartTable(bio, irq)
  PROVE  PipeInv'
<1>1. ExecuteReady /\ exWord.op \in TableOps /\ pstate = "SEQUENTIAL"
        /\ ClockCore(bio, irq) /\ active /\ exValid
  BY DEF StartTable, TableStartStep, Holds, FetchBoundary, ExecuteReady
<1>2. exWord.op \notin OneCycleOps \cup ControlOps \cup ComputedOps \cup IoOps
  BY <1>1, OpClasses
<1>3. /\ Issue(exWord, irq, ioSample)
      /\ exAddr = pc
      /\ pc' = NextAddr(pc)
      /\ ~ientry /\ ~ientry' /\ idelay' = idelay /\ ~illegal' /\ NonePending
  BY <1>1, <1>2, StartEffect
<1>4. ctl' = "none" /\ cmp' = NoComputed /\ io' = NoTransfer /\ xfer' = FALSE
        /\ tbl' = Capture(exWord, reg.acc % PcMod, DataAddress(exWord))
  BY <1>1, <1>2, <1>3 DEF Issue, NonePending
<1>5. /\ pstate' = "TABLE_TRANSFER" /\ busAddr' = reg.acc % PcMod
      /\ exValid' = exValid /\ exAddr' = exAddr /\ exWord' = exWord
      /\ protected' = protected /\ active' = active
  BY DEF StartTable, BusTo, slotVars
<1>6. CoreInv'
  BY <1>1, StepInv DEF ClockCore, PipeInv, TypeOK
<1>7. TransferAgreement'
  BY <1>1, <1>3, <1>4, <1>5 DEF TransferAgreement, NextAddr, Capture
<1>8. SequentialAgreement' /\ TargetAgreement' /\ IdleAgreement'
  BY <1>1, <1>3, <1>5
  DEF SequentialAgreement, TargetAgreement, IdleAgreement
<1>9. InterruptAgreement'
  <2>1. protected' = idelay' /\ pstate' # "INTERRUPT_VECTOR"
    BY <1>3, <1>5 DEF InterruptAgreement, PipeInv
  <2> QED BY <1>3, <2>1, NoVector
<1> QED BY <1>6, <1>7, <1>8, <1>9 DEF PipeInv

LEMMA TransferTableStep ==
  ASSUME PipeInv, TypeOK', NEW w \in WordType, NEW bio \in BOOLEAN,
         NEW irq \in BOOLEAN, TransferTable(w, bio, irq)
  PROVE  PipeInv'
<1>1. ExecuteReady /\ exWord.op \in TableOps /\ pstate = "TABLE_TRANSFER"
        /\ ClockCore(bio, irq) /\ active /\ exValid /\ InstructionValid(carrier)
  BY DEF TransferTable, TableTransferStep, Holds, FetchBoundary, ExecuteReady
<1>2. /\ tbl.op = exWord.op /\ ctl = "none" /\ cmp = NoComputed /\ io = NoTransfer
      /\ ~ientry /\ ~xfer /\ pc = NextAddr(exAddr)
  BY <1>1 DEF PipeInv, TransferAgreement
<1>3. Owner = "table"
  BY <1>1, <1>2, OpClasses DEF Owner, NoComputed
<1>4. StartTableTransfer(carrier, irq, ioSample)
  BY <1>1, <1>2, <1>3, StepOfOwner DEF ClockCore
<1>5. Retiring(carrier) = "none"
  BY <1>2, <1>3 DEF Retiring
<1>6. ientry' = ientry /\ idelay' = idelay /\ illegal' = FALSE
  BY <1>4, <1>5 DEF StartTableTransfer, Clocked, InterruptUpdate
<1>7. /\ xfer' = TRUE /\ pc' = pc /\ ctl' = ctl /\ cmp' = cmp /\ io' = io /\ tbl' = tbl
  BY <1>4 DEF StartTableTransfer
<1>8. /\ pstate' = "TABLE_PREFETCH" /\ busAddr' = pc
      /\ exValid' = exValid /\ exAddr' = exAddr /\ exWord' = exWord
      /\ protected' = protected /\ active' = active
  BY DEF TransferTable, BusTo, slotVars
<1>9. CoreInv'
  BY <1>1, StepInv DEF ClockCore, PipeInv, TypeOK
<1>10. TransferAgreement'
  BY <1>1, <1>2, <1>6, <1>7, <1>8 DEF TransferAgreement, NextAddr
<1>11. SequentialAgreement' /\ TargetAgreement' /\ IdleAgreement'
  BY <1>1, <1>6, <1>8
  DEF SequentialAgreement, TargetAgreement, IdleAgreement
<1>12. InterruptAgreement'
  <2>1. protected' = idelay' /\ pstate' # "INTERRUPT_VECTOR"
    BY <1>6, <1>8 DEF InterruptAgreement, PipeInv
  <2> QED BY <1>2, <1>6, <2>1, NoVector
<1> QED BY <1>9, <1>10, <1>11, <1>12 DEF PipeInv

-----------------------------------------------------------------------------
\* Retirement.

\* Whatever the class of the retiring instruction, the core moves PC to the
\* address the bus already carries, and nothing stays pending.
LEMMA RetireEffect ==
  ASSUME PipeInv, ExecuteComplete, ~VectorStep, NEW bio \in BOOLEAN, NEW irq,
         ClockCore(bio, irq)
  PROVE  /\ Retiring(carrier) = exWord.op /\ exWord.op # "none"
         /\ InterruptUpdate(carrier, irq)
         /\ intm' = IntmNext(exWord.op, intm)
         /\ ~ientry /\ ~illegal' /\ NonePending' /\ pc' = busAddr
         /\ Holds(OneCycleOps) => pstate = "SEQUENTIAL"
<1>1. exValid /\ InstructionValid(carrier) /\ LastStep /\ pstate # "INTERRUPT_VECTOR"
  BY DEF ExecuteComplete, ExecuteReady, VectorStep
<1>2. pstate \in PipelineStates
  BY DEF PipeInv, TypeOK
<1>3. CASE exWord.op \in OneCycleOps
  <2>1. exWord.op \notin ControlOps \cup ComputedOps \cup IoOps \cup TableOps
    BY <1>3, OpClasses
  <2>2. pstate = "SEQUENTIAL"
    BY <1>1, <1>2, <2>1 DEF PipeInv, TargetAgreement, TransferAgreement, PipelineStates
  <2>3. NonePending /\ ~ientry /\ carrier = exWord /\ busAddr = NextAddr(pc)
    BY <1>1, <2>2 DEF PipeInv, SequentialAgreement
  <2>4. Owner = "issue"
    BY <2>3 DEF Owner, NonePending, NoComputed, NoTransfer
  <2>5. Issue(exWord, irq, ioSample)
    BY <1>1, <2>3, <2>4, StepOfOwner DEF ClockCore
  <2>6. Retiring(carrier) = exWord.op
    BY <1>1, <1>3, <2>3, <2>4 DEF Retiring
  <2>7. NonePending'
    BY <2>1, <2>3, <2>5 DEF Issue, NonePending
  <2>8. InterruptUpdate(carrier, irq) /\ ~illegal' /\ pc' = NextAddr(pc)
          /\ intm' = IntmNext(exWord.op, intm)
    BY <2>3, <2>5 DEF Issue, Clocked
  <2>9. exWord.op # "none"
    BY <1>3, OpClasses
  <2> QED BY <2>2, <2>3, <2>6, <2>7, <2>8, <2>9
<1>4. CASE exWord.op \notin OneCycleOps
  <2>1. ~Holds(OneCycleOps)
    BY <1>4 DEF Holds
  <2>2. IntmNext(exWord.op, intm) = intm
    BY <1>4, OpClasses DEF IntmNext
  <2>3. CASE ControlTargetStep
    <3>1. exWord.op \in ControlOps /\ pstate = "CONTROL_TARGET"
      BY <2>3 DEF ControlTargetStep, Holds
    <3>2. /\ ctl = exWord.op /\ cmp = NoComputed /\ io = NoTransfer /\ tbl = NoTransfer
          /\ ~ientry /\ busAddr = ProgramNextAddress(carrier, CoreBio(bio))
          /\ carrier.canon
      BY <3>1 DEF PipeInv, TargetAgreement
    <3>3. Owner = "control" /\ exWord.op # "none"
      BY <3>1, <3>2, OpClasses DEF Owner, NoComputed
    <3>4. FinishControl(carrier, CoreBio(bio), irq, ioSample)
      BY <1>1, <3>3, StepOfOwner DEF ClockCore
    <3>5. pc' = busAddr
      BY <3>2, <3>3, <3>4 DEF FinishControl, ProgramNextAddress
    <3>6. Retiring(carrier) = exWord.op
      BY <1>1, <3>2, <3>3 DEF Retiring
    <3>7. NonePending' /\ intm' = intm /\ ~illegal' /\ InterruptUpdate(carrier, irq)
      BY <3>2, <3>4 DEF FinishControl, NonePending, Clocked
    <3> QED BY <2>1, <2>2, <3>2, <3>3, <3>5, <3>6, <3>7
  <2>4. CASE ComputedTargetStep
    <3>1. exWord.op \in ComputedOps /\ pstate = "COMPUTED_TARGET"
      BY <2>4 DEF ComputedTargetStep, Holds
    <3>2. /\ cmp.op = exWord.op /\ ctl = "none" /\ io = NoTransfer /\ tbl = NoTransfer
          /\ ~ientry /\ busAddr = cmp.target
      BY <3>1 DEF PipeInv, TargetAgreement
    <3>3. Owner = "computed" /\ exWord.op # "none"
      BY <3>1, <3>2, OpClasses DEF Owner
    <3>4. FinishComputed(carrier, irq, ioSample)
      BY <1>1, <3>3, StepOfOwner DEF ClockCore
    <3>5. Retiring(carrier) = exWord.op
      BY <1>1, <3>2, <3>3 DEF Retiring
    <3>6. NonePending' /\ intm' = intm /\ ~illegal' /\ InterruptUpdate(carrier, irq)
            /\ pc' = cmp.target
      BY <3>2, <3>4 DEF FinishComputed, NonePending, Clocked
    <3> QED BY <2>1, <2>2, <3>2, <3>3, <3>5, <3>6
  <2>5. CASE IoPrefetchStep
    <3>1. exWord.op \in IoOps /\ pstate = "IO_PREFETCH"
      BY <2>5 DEF IoPrefetchStep, Holds
    <3>2. /\ io.op = exWord.op /\ ctl = "none" /\ cmp = NoComputed /\ tbl = NoTransfer
          /\ ~ientry /\ busAddr = pc
      BY <3>1 DEF PipeInv, TransferAgreement
    <3>3. Owner = "io" /\ exWord.op # "none"
      BY <3>1, <3>2, OpClasses DEF Owner, NoComputed, NoTransfer
    <3>4. FinishIo(carrier, irq, ioSample)
      BY <1>1, <3>3, StepOfOwner DEF ClockCore
    <3>5. Retiring(carrier) = exWord.op
      BY <1>1, <3>2, <3>3 DEF Retiring
    <3>6. NonePending' /\ intm' = intm /\ ~illegal' /\ InterruptUpdate(carrier, irq)
            /\ pc' = pc
      BY <3>2, <3>4 DEF FinishIo, NonePending, Clocked
    <3> QED BY <2>1, <2>2, <3>2, <3>3, <3>5, <3>6
  <2>6. CASE TablePrefetchStep
    <3>1. exWord.op \in TableOps /\ pstate = "TABLE_PREFETCH"
      BY <2>6 DEF TablePrefetchStep, Holds
    <3>2. /\ tbl.op = exWord.op /\ ctl = "none" /\ cmp = NoComputed /\ io = NoTransfer
          /\ ~ientry /\ xfer /\ busAddr = pc
      BY <3>1 DEF PipeInv, TransferAgreement
    <3>3. Owner = "table" /\ exWord.op # "none"
      BY <3>1, <3>2, OpClasses DEF Owner, NoComputed
    <3>4. FinishTable(carrier, irq, ioSample)
      BY <1>1, <3>2, <3>3, StepOfOwner DEF ClockCore
    <3>5. Retiring(carrier) = exWord.op
      BY <1>1, <3>2, <3>3 DEF Retiring
    <3>6. NonePending' /\ intm' = intm /\ ~illegal' /\ InterruptUpdate(carrier, irq)
            /\ pc' = pc
      BY <3>2, <3>4 DEF FinishTable, NonePending, Clocked
    <3> QED BY <2>1, <2>2, <3>2, <3>3, <3>5, <3>6
  <2> QED BY <1>1, <2>1, <2>3, <2>4, <2>5, <2>6 DEF LastStep
<1> QED BY <1>3, <1>4

\* The slice and the core decide alike whether the next instruction is
\* protected and whether the vector comes next.
LEMMA DecideAlike ==
  ASSUME PipeInv, ExecuteComplete, ~VectorStep, NEW bio \in BOOLEAN,
         NEW irq \in BOOLEAN, ClockCore(bio, irq), protected' = ProtectNext(irq)
  PROVE  protected' = idelay' /\ ientry' = DummyFetchStep
<1>1. /\ Retiring(carrier) = exWord.op /\ exWord.op # "none"
      /\ InterruptUpdate(carrier, irq)
      /\ ~ientry
  BY RetireEffect
<1>2. protected = idelay /\ protected \in BOOLEAN /\ intm \in BOOLEAN
        /\ ientry \in BOOLEAN
  BY DEF PipeInv, InterruptAgreement, TypeOK, CoreTypeOK
<1>3. CASE protected
  <2>1. ~intm
    BY <1>2, <1>3 DEF PipeInv, CoreInv, InterruptArmed
  <2>2. IntmNext(exWord.op, intm) = (exWord.op = "DINT")
    BY <1>2, <2>1 DEF IntmNext
  <2>3. /\ idelay' = (exWord.op # "DINT" /\ exWord.op \in MpyOps)
        /\ ientry' = (exWord.op # "DINT" /\ exWord.op \notin MpyOps)
    BY <1>1, <1>2, <1>3, <2>2 DEF InterruptUpdate
  <2>4. DummyFetchStep = (exWord.op # "DINT" /\ exWord.op \notin MpyOps)
    BY <1>3 DEF DummyFetchStep
  <2>5. ProtectNext(irq) = (exWord.op \in MpyOps)
    BY <1>3 DEF ProtectNext
  <2>6. "DINT" \notin MpyOps
    BY DEF MpyOps
  <2> QED BY <2>3, <2>4, <2>5, <2>6
<1>4. CASE ~protected
  <2>1. /\ idelay' = ((ipend \/ irq) /\ ~IntmNext(exWord.op, intm))
        /\ ientry' = ientry
    BY <1>1, <1>2, <1>4 DEF InterruptUpdate
  <2>2. ~DummyFetchStep
    BY <1>4 DEF DummyFetchStep
  <2>3. ProtectNext(irq) = ((ipend \/ irq) /\ ~IntmNext(exWord.op, intm))
    BY <1>4 DEF ProtectNext
  <2> QED BY <1>1, <1>2, <2>1, <2>2, <2>3 DEF DummyFetchStep
<1> QED BY <1>2, <1>3, <1>4

LEMMA RetireStep ==
  ASSUME PipeInv, TypeOK', NEW w \in WordType, NEW bio \in BOOLEAN,
         NEW irq \in BOOLEAN, Retire(w, bio, irq)
  PROVE  PipeInv'
<1>1. ExecuteComplete /\ ~VectorStep /\ ~DummyFetchStep /\ ClockCore(bio, irq) /\ active
        /\ protected' = ProtectNext(irq)
  BY DEF Retire, FetchBoundary
<1>2. /\ ~illegal' /\ NonePending' /\ pc' = busAddr
      /\ Holds(OneCycleOps) => pstate = "SEQUENTIAL"
  BY <1>1, RetireEffect
<1>3. protected' = idelay' /\ ~ientry'
  BY <1>1, DecideAlike
<1>4. /\ exValid' = TRUE /\ exAddr' = busAddr /\ exWord' = w /\ carrier' = w
      /\ busAddr' = NextAddr(busAddr) /\ active' = active
      /\ pstate' = "SEQUENTIAL"
  BY <1>2 DEF Retire, FillSlot, BusTo
<1>5. CoreInv'
  BY <1>1, StepInv DEF ClockCore, PipeInv, TypeOK
<1>6. SequentialAgreement'
  BY <1>2, <1>3, <1>4 DEF SequentialAgreement, NextAddr
<1>7. TargetAgreement' /\ TransferAgreement' /\ IdleAgreement'
  BY <1>1, <1>2, <1>4 DEF TargetAgreement, TransferAgreement, IdleAgreement
<1>8. InterruptAgreement'
  BY <1>3, <1>4, NoVector
<1> QED BY <1>5, <1>6, <1>7, <1>8 DEF PipeInv

LEMMA RetireProtectedStep ==
  ASSUME PipeInv, TypeOK', NEW bio \in BOOLEAN, NEW irq \in BOOLEAN,
         RetireProtected(bio, irq)
  PROVE  PipeInv'
<1>1. ExecuteComplete /\ ~VectorStep /\ DummyFetchStep /\ ClockCore(bio, irq) /\ active
        /\ protected' = ProtectNext(irq)
  BY DEF RetireProtected, FetchBoundary, DummyFetchStep
<1>2. ~illegal' /\ NonePending'
  BY <1>1, RetireEffect
<1>3. protected' = idelay' /\ ientry'
  BY <1>1, DecideAlike
<1>4. /\ exValid' = FALSE /\ busAddr' = Vector /\ active' = active
      /\ pstate' = "INTERRUPT_VECTOR"
  BY DEF RetireProtected, EmptySlot, BusTo
<1>5. CoreInv'
  BY <1>1, StepInv DEF ClockCore, PipeInv, TypeOK
<1>6. SequentialAgreement' /\ TargetAgreement' /\ TransferAgreement' /\ IdleAgreement'

  BY <1>1, <1>2, <1>4
  DEF SequentialAgreement, TargetAgreement, TransferAgreement, IdleAgreement
<1>7. InterruptAgreement'
  BY <1>2, <1>3, <1>4 DEF InterruptAgreement, VectorStep, TypeOK, CoreTypeOK
<1> QED BY <1>5, <1>6, <1>7 DEF PipeInv

LEMMA FetchVectorStep ==
  ASSUME PipeInv, TypeOK', NEW w \in WordType, NEW bio \in BOOLEAN,
         NEW irq \in BOOLEAN, FetchVector(w, bio, irq)
  PROVE  PipeInv'
<1>1. VectorStep /\ ClockCore(bio, irq) /\ active
  BY DEF FetchVector, FetchBoundary
<1>2. ientry /\ NonePending /\ busAddr = Vector /\ protected = idelay
  BY <1>1 DEF PipeInv, InterruptAgreement
<1>3. ~idelay
  BY <1>2 DEF PipeInv, CoreInv, InterruptArmed
<1>4. InterruptEntry
  BY <1>1, <1>2, StepOfOwner DEF ClockCore, Owner
<1>5. pc' = Vector /\ ~ientry' /\ ~idelay' /\ ~illegal' /\ NonePending'
  BY <1>2, <1>4 DEF InterruptEntry, NonePending, pendVars
<1>6. /\ exValid' = TRUE /\ exAddr' = busAddr /\ exWord' = w /\ carrier' = w
      /\ busAddr' = NextAddr(busAddr) /\ active' = active
      /\ pstate' = "SEQUENTIAL" /\ protected' = protected
  BY DEF FetchVector, FillSlot, BusTo
<1>7. CoreInv'
  BY <1>1, StepInv DEF ClockCore, PipeInv, TypeOK
<1>8. SequentialAgreement'
  BY <1>2, <1>5, <1>6 DEF SequentialAgreement, NextAddr
<1>9. TargetAgreement' /\ TransferAgreement' /\ IdleAgreement'
  BY <1>1, <1>5, <1>6 DEF TargetAgreement, TransferAgreement, IdleAgreement
<1>10. protected' = idelay'
  BY <1>2, <1>3, <1>5, <1>6 DEF PipeInv, TypeOK, CoreTypeOK
<1>11. InterruptAgreement'
  BY <1>5, <1>6, <1>10, NoVector
<1> QED BY <1>7, <1>8, <1>9, <1>11 DEF PipeInv

LEMMA PrimeStep ==
  ASSUME PipeInv, TypeOK', NEW w \in WordType, Prime(w)
  PROVE  PipeInv'
<1>1. ~exValid /\ pstate # "INTERRUPT_VECTOR" /\ active
  BY DEF Prime, VectorStep, FetchBoundary
<1>2. pstate = "SEQUENTIAL"
  BY <1>1 DEF PipeInv, TypeOK, PipelineStates, TargetAgreement, TransferAgreement
<1>3. NonePending /\ ~ientry /\ busAddr = pc
  BY <1>1, <1>2 DEF PipeInv, SequentialAgreement
<1>4. /\ pc' = pc /\ ientry' = ientry /\ idelay' = idelay /\ illegal' = illegal
      /\ ctl' = ctl /\ cmp' = cmp /\ io' = io /\ tbl' = tbl
      /\ UNCHANGED coreVars
  BY DEF Prime, coreVars, irqVars, pendVars
<1>5. /\ exValid' = TRUE /\ exAddr' = busAddr /\ exWord' = w /\ carrier' = w
      /\ busAddr' = NextAddr(busAddr) /\ active' = active
      /\ pstate' = pstate /\ protected' = protected
  BY DEF Prime, FillSlot, BusTo
<1>6. CoreInv'
  BY <1>4, NextInv DEF PipeInv
<1>7. SequentialAgreement'
  BY <1>3, <1>4, <1>5 DEF SequentialAgreement, NonePending, NextAddr
<1>8. TargetAgreement' /\ TransferAgreement' /\ IdleAgreement'
  BY <1>1, <1>2, <1>4, <1>5
  DEF PipeInv, TargetAgreement, TransferAgreement, IdleAgreement
<1>9. InterruptAgreement'
  <2>1. protected' = idelay'
    BY <1>4, <1>5 DEF PipeInv, InterruptAgreement
  <2> QED BY <1>2, <1>3, <1>4, <1>5, <2>1, NoVector
<1> QED BY <1>6, <1>7, <1>8, <1>9 DEF PipeInv

\* The phase counts, or the bus becomes active at address zero, where PC is.
LEMMA QuietStep ==
  ASSUME PipeInv, NEW rs, PhaseStep(rs) \/ IdleBoundary \/ UNCHANGED vars
  PROVE  PipeInv'
<1>1. UNCHANGED coreVars
  BY DEF PhaseStep, IdleBoundary, vars
<1>2. /\ pc' = pc /\ ientry' = ientry /\ idelay' = idelay /\ illegal' = illegal
      /\ ctl' = ctl /\ cmp' = cmp /\ io' = io /\ tbl' = tbl /\ xfer' = xfer
      /\ stack' = stack /\ reg' = reg
  BY <1>1 DEF coreVars, irqVars, pendVars
<1>3. /\ exValid' = exValid /\ exAddr' = exAddr /\ exWord' = exWord
      /\ pstate' = pstate /\ carrier' = carrier /\ biozTaken' = biozTaken
      /\ protected' = protected /\ ioSample' = ioSample
  BY DEF PhaseStep, IdleBoundary, vars, sliceVars, slotVars
<1>4. busAddr' = busAddr /\ (~active' => ~active)
  <2>1. CASE PhaseStep(rs) \/ UNCHANGED vars
    BY <2>1 DEF PhaseStep, vars, sliceVars, busVars
  <2>2. CASE IdleBoundary
    <3>1. ~active /\ busAddr = 0
      BY <2>2 DEF IdleBoundary, PipeInv, IdleAgreement
    <3> QED BY <2>2, <3>1 DEF IdleBoundary
  <2> QED BY <2>1, <2>2
<1>5. CoreInv'
  BY <1>1, NextInv DEF PipeInv
<1>6. phase' \in 0 .. LastPhase /\ active' \in BOOLEAN /\ relSeen' \in BOOLEAN
  <2>1. phase \in 0 .. LastPhase /\ active \in BOOLEAN /\ relSeen \in BOOLEAN
    BY DEF PipeInv, TypeOK
  <2>2. CASE PhaseStep(rs)
    BY <2>1, <2>2, PhaseAssumption DEF PhaseStep
  <2>3. CASE IdleBoundary
    BY <2>1, <2>3, PhaseAssumption DEF IdleBoundary
  <2>4. CASE UNCHANGED vars
    BY <2>1, <2>4 DEF vars, sliceVars, busVars
  <2> QED BY <2>2, <2>3, <2>4
<1>7. TypeOK'
  BY <1>3, <1>4, <1>5, <1>6 DEF PipeInv, TypeOK, CoreInv
<1>8. SequentialAgreement' /\ InterruptAgreement' /\ IdleAgreement'
  BY <1>2, <1>3, <1>4
  DEF PipeInv, SequentialAgreement, InterruptAgreement, IdleAgreement,
      NonePending, VectorStep, NextAddr
<1>9. TransferAgreement'
  BY <1>2, <1>3, <1>4 DEF PipeInv, TransferAgreement, NextAddr
<1>10. TargetAgreement'
  <2>1. ASSUME NEW bio \in BOOLEAN
        PROVE  ProgramNextAddress(carrier, CoreBio(bio))'
                 = ProgramNextAddress(carrier, CoreBio(bio))
    <3>1. CoreBio(bio)' = CoreBio(bio)
      BY <1>3 DEF CoreBio, ControlTargetStep, Holds
    <3>2. Owner' = Owner /\ InstructionValid(carrier)' = InstructionValid(carrier)
      BY <1>2, <1>3
      DEF Owner, InstructionValid, WordValid, DataAddress, EffectiveAddress
    <3> QED BY <1>2, <1>3, <3>1, <3>2 DEF ProgramNextAddress, BranchTaken, NextAddr
  <2> QED BY <1>2, <1>3, <1>4, <2>1 DEF PipeInv, TargetAgreement, NextAddr
<1> QED BY <1>5, <1>7, <1>8, <1>9, <1>10 DEF PipeInv

LEMMA PipeNextInv ==
  ASSUME PipeInv, [Next]_vars
  PROVE  PipeInv'
<1>1. CASE Fetch
  <2>1. PICK w \in Words, bio \in BOOLEAN, irq \in BOOLEAN, d \in IoValues :
          \/ Prime(w)
          \/ FetchVector(w, bio, irq)
          \/ FetchOperand(w, bio, irq)
          \/ StartComputed(bio, irq)
          \/ TransferIo(bio, irq, d)
          \/ StartTable(bio, irq)
          \/ TransferTable(w, bio, irq)
          \/ Retire(w, bio, irq)
          \/ RetireProtected(bio, irq)
    BY <1>1 DEF Fetch, Serve
  <2>2. w \in WordType
    BY WordAssumption
  <2>3. TypeOK'
    BY <2>1, FetchType DEF PipeInv
  <2> QED BY <2>1, <2>2, <2>3, PrimeStep, FetchVectorStep, OperandStep, StartComputedStep,
             StartIoStep, StartTableStep, TransferTableStep, RetireStep,
             RetireProtectedStep
<1>2. CASE PhaseStep(FALSE) \/ PhaseStep(TRUE) \/ IdleBoundary \/ UNCHANGED vars
  BY <1>2, QuietStep
<1>3. CASE ResetBoundary \/ SliceInitialize
  BY <1>3, ResetPipe DEF PipeInv
<1> QED BY <1>1, <1>2, <1>3 DEF Next, Run

\* An instruction that began its transaction was accepted by the core, so only
\* a bad operand word or an instruction that has not started can park the bus.
LEMMA ParkPoint ==
  ASSUME PipeInv
  PROVE  ParksBeforeEffects
<1>1. SUFFICES ASSUME exValid
               PROVE  Stuck <=> \/ pstate = "CONTROL_INVALID"
                                \/ pstate = "SEQUENTIAL" /\ ~WordValid(exWord)
  BY DEF ParksBeforeEffects
<1>2. pstate \in PipelineStates
  BY DEF PipeInv, TypeOK
<1>3. Stuck <=> ~(InstructionValid(carrier) /\ (LastStep \/ FirstStep))
  BY <1>1 DEF Stuck, ExecuteReady
<1>4. CASE pstate = "SEQUENTIAL"
  <2>1. NonePending /\ ~ientry /\ carrier = exWord
    BY <1>1, <1>4 DEF PipeInv, SequentialAgreement
  <2>2. Owner = "issue"
    BY <2>1 DEF Owner, NonePending, NoComputed, NoTransfer
  <2>3. InstructionValid(carrier) = WordValid(exWord)
    BY <2>1, <2>2 DEF InstructionValid
  <2>4. WordValid(exWord) => LastStep \/ FirstStep
    BY <1>1, <1>4 DEF WordValid, Ops, LastStep, FirstStep, Holds, ControlOperandStep,
                      ComputedStartStep, IoTransferStep, TableStartStep
  <2> QED BY <1>3, <1>4, <2>3, <2>4
<1>5. CASE pstate = "CONTROL_TARGET"
  <2>1. exWord.op \in ControlOps /\ ctl = exWord.op /\ cmp = NoComputed /\ ~ientry
          /\ carrier.canon
    BY <1>5 DEF PipeInv, TargetAgreement
  <2>2. InstructionValid(carrier)
    BY <2>1, OpClasses DEF InstructionValid, Owner, NoComputed
  <2>3. LastStep
    BY <1>1, <1>5, <2>1 DEF LastStep, ControlTargetStep, Holds
  <2> QED BY <1>3, <1>5, <2>2, <2>3
<1>6. CASE pstate = "CONTROL_INVALID"
  <2>1. exWord.op \in ControlOps
    BY <1>6 DEF PipeInv, TargetAgreement
  <2>2. exWord.op \notin OneCycleOps
    BY <2>1, OpClasses
  <2>3. ~LastStep /\ ~FirstStep
    BY <1>6, <2>2
    DEF LastStep, FirstStep, Holds, ControlTargetStep, ComputedTargetStep,
        IoPrefetchStep, TablePrefetchStep, ControlOperandStep, ComputedStartStep,
        IoTransferStep, TableStartStep, TableTransferStep
  <2> QED BY <1>3, <1>6, <2>3
<1>7. CASE pstate = "COMPUTED_TARGET"
  <2>1. exWord.op \in ComputedOps /\ cmp.op = exWord.op /\ ~ientry
    BY <1>7 DEF PipeInv, TargetAgreement
  <2>2. cmp.op # "none"
    BY <2>1, OpClasses
  <2>3. Owner = "computed" /\ InferredComputed
    BY <2>1, <2>2 DEF Owner, PipeInv, CoreInv, Accepted
  <2>4. LastStep
    BY <1>1, <1>7, <2>1 DEF LastStep, ComputedTargetStep, Holds
  <2> QED BY <1>3, <1>7, <2>3, <2>4 DEF InstructionValid
<1>8. CASE pstate = "IO_PREFETCH"
  <2>1. exWord.op \in IoOps /\ io.op = exWord.op /\ ~ientry /\ ctl = "none"
          /\ cmp = NoComputed /\ tbl = NoTransfer
    BY <1>8 DEF PipeInv, TransferAgreement
  <2>2. io.op # "none"
    BY <2>1, OpClasses
  <2>3. Owner = "io" /\ io.da < RamWords
    BY <2>1, <2>2 DEF Owner, NoComputed, NoTransfer, PipeInv, CoreInv, Accepted
  <2>4. LastStep
    BY <1>1, <1>8, <2>1 DEF LastStep, IoPrefetchStep, Holds
  <2> QED BY <1>3, <1>8, <2>3, <2>4 DEF InstructionValid
<1>9. CASE pstate \in {"TABLE_TRANSFER", "TABLE_PREFETCH"}
  <2>1. exWord.op \in TableOps /\ tbl.op = exWord.op /\ ~ientry /\ ctl = "none"
          /\ cmp = NoComputed
    BY <1>9 DEF PipeInv, TransferAgreement
  <2>2. tbl.op # "none"
    BY <2>1, OpClasses
  <2>3. Owner = "table" /\ tbl.da < RamWords
    BY <2>1, <2>2 DEF Owner, NoComputed, PipeInv, CoreInv, Accepted
  <2>4. LastStep \/ FirstStep
    BY <1>1, <1>9, <2>1
    DEF LastStep, FirstStep, TablePrefetchStep, TableTransferStep, Holds
  <2> QED BY <1>3, <1>9, <2>3, <2>4 DEF InstructionValid
<1>10. pstate # "INTERRUPT_VECTOR"
  BY <1>1 DEF PipeInv, InterruptAgreement, VectorStep
<1> QED BY <1>2, <1>4, <1>5, <1>6, <1>7, <1>8, <1>9, <1>10 DEF PipelineStates

-----------------------------------------------------------------------------
\* Theorems.

THEOREM PipeInvariant == Spec => []PipeInv
<1>1. Init => PipeInv
  BY InitPipe
<1>2. PipeInv /\ [Next]_vars => PipeInv'
  BY PipeNextInv
<1> QED BY <1>1, <1>2, PTL DEF Spec

(* The registers of slice and core hold values of their types.             *)
THEOREM TypeCorrect == Spec => []TypeOK
<1>1. PipeInv => TypeOK
  BY DEF PipeInv
<1> QED BY <1>1, PipeInvariant, PTL

(* Between instructions slice and core hold the same word and address, and *)
(* while one is in flight the bus carries the address the core computes.   *)
THEOREM SequentialCorrect == Spec => []SequentialAgreement
<1>1. PipeInv => SequentialAgreement
  BY DEF PipeInv
<1> QED BY <1>1, PipeInvariant, PTL

(* Both sides take the same branch, call or return, although each decides  *)
(* for itself and at another boundary.                                     *)
THEOREM TargetCorrect == Spec => []TargetAgreement
<1>1. PipeInv => TargetAgreement
  BY DEF PipeInv
<1> QED BY <1>1, PipeInvariant, PTL

(* During a transfer the bus carries the addresses the core expects.       *)
THEOREM TransferCorrect == Spec => []TransferAgreement
<1>1. PipeInv => TransferAgreement
  BY DEF PipeInv
<1> QED BY <1>1, PipeInvariant, PTL

(* The interrupt decision the slice takes is the one the core takes.       *)
THEOREM InterruptCorrect == Spec => []InterruptAgreement
<1>1. PipeInv => InterruptAgreement
  BY DEF PipeInv
<1> QED BY <1>1, PipeInvariant, PTL

(* A parked bus never holds a half-finished transfer.                      *)
THEOREM ParksCorrect == Spec => []ParksBeforeEffects
<1>1. PipeInv => ParksBeforeEffects
  BY ParkPoint
<1> QED BY <1>1, PipeInvariant, PTL

(* The word dropped before an interrupt entry is the word PC points at.    *)
THEOREM DummyFetchCorrect == Spec => DummyFetchResumes
<1>1. ASSUME PipeInv, Next, ~VectorStep, VectorStep'
      PROVE  pc' = busAddr
  <2>1. pstate # "INTERRUPT_VECTOR" /\ pstate' = "INTERRUPT_VECTOR"
    BY <1>1 DEF VectorStep
  <2>2. CASE Fetch
    <3>1. PICK w \in Words, bio \in BOOLEAN, irq \in BOOLEAN, d \in IoValues :
            \/ Prime(w)
            \/ FetchVector(w, bio, irq)
            \/ FetchOperand(w, bio, irq)
            \/ StartComputed(bio, irq)
            \/ TransferIo(bio, irq, d)
            \/ StartTable(bio, irq)
            \/ TransferTable(w, bio, irq)
            \/ Retire(w, bio, irq)
            \/ RetireProtected(bio, irq)
      BY <2>2 DEF Fetch, Serve
    <3>2. w.canon \in BOOLEAN
      BY WordAssumption, WordTypes
    <3>3. CASE RetireProtected(bio, irq)
      <4>1. ExecuteComplete /\ ClockCore(bio, irq)
        BY <3>3 DEF RetireProtected, DummyFetchStep
      <4> QED BY <1>1, <4>1, RetireEffect
    <3>4. CASE ~RetireProtected(bio, irq)
      BY <2>1, <3>1, <3>2, <3>4
      DEF Prime, FetchVector, FetchOperand, StartComputed, TransferIo, StartTable,
          TransferTable, Retire
    <3> QED BY <3>3, <3>4
  <2>3. CASE PhaseStep(FALSE) \/ PhaseStep(TRUE) \/ IdleBoundary
    BY <2>1, <2>3 DEF PhaseStep, IdleBoundary
  <2>4. CASE ResetBoundary \/ SliceInitialize
    BY <2>1, <2>4 DEF ResetBoundary, SliceInitialize
  <2> QED BY <1>1, <2>2, <2>3, <2>4 DEF Next, Run
<1>2. PipeInv /\ [Next]_vars => [~VectorStep /\ VectorStep' => pc' = busAddr]_vars
  BY <1>1
<1> QED BY <1>2, PipeInvariant, PTL DEF Spec, DummyFetchResumes

-----------------------------------------------------------------------------
\* Progress.  Each boundary brings the end of a transaction, and the service of
\* a request, closer; RunSpec makes the boundaries recur.

BoundaryStep == Fetch \/ IdleBoundary

\* The slot is empty only where no request can be waiting.
EmptyMasked == ~exValid => intm \/ VectorStep

\* What a boundary of the active bus does for the instruction in the slot.
FillsSlot == ~exValid /\ exValid' /\ pstate' = "SEQUENTIAL"

GoesOn ==
  /\ exValid /\ UNCHANGED <<exValid, exWord, protected>>
  /\ \/ /\ pstate = "SEQUENTIAL"
        /\ pstate' \in PipelineStates \ {"SEQUENTIAL", "TABLE_PREFETCH", "INTERRUPT_VECTOR"}
     \/ pstate = "TABLE_TRANSFER" /\ pstate' = "TABLE_PREFETCH"

Retires ==
  /\ exValid /\ exValid' /\ pstate # "TABLE_TRANSFER" /\ pstate' = "SEQUENTIAL"
  /\ protected /\ exWord.op \notin MpyOps => intm'
  /\ ~protected /\ ipend => protected' \/ intm'

RetiresToVector == exValid /\ pstate # "TABLE_TRANSFER" /\ VectorStep'

LEMMA FetchCases ==
  ASSUME PipeInv, Fetch
  PROVE  FillsSlot \/ GoesOn \/ Retires \/ RetiresToVector
<1>1. PICK w \in Words, bio \in BOOLEAN, irq \in BOOLEAN, d \in IoValues :
        Serve(w, bio, irq, d)
  BY DEF Fetch
<1>2. w.canon \in BOOLEAN
  BY WordAssumption, WordTypes
<1>3. VectorStep => ~exValid
  BY DEF PipeInv, InterruptAgreement
<1>4. CASE Prime(w)
  <2>1. ~exValid /\ exValid' /\ pstate' = pstate /\ pstate # "INTERRUPT_VECTOR"
    BY <1>4 DEF Prime, FillSlot, VectorStep
  <2>2. pstate = "SEQUENTIAL"
    BY <2>1 DEF PipeInv, TypeOK, PipelineStates, TargetAgreement, TransferAgreement
  <2> QED BY <2>1, <2>2 DEF FillsSlot
<1>5. CASE FetchVector(w, bio, irq)
  BY <1>3, <1>5 DEF FetchVector, FillSlot, FillsSlot
<1>6. CASE FetchOperand(w, bio, irq)
  <2>1. exValid /\ pstate = "SEQUENTIAL" /\ UNCHANGED <<exValid, exWord, protected>>
    BY <1>6 DEF FetchOperand, ControlOperandStep, Holds, slotVars
  <2>2. pstate' \in {"CONTROL_TARGET", "CONTROL_INVALID"}
    BY <1>2, <1>6 DEF FetchOperand
  <2> QED BY <2>1, <2>2 DEF GoesOn, PipelineStates
<1>7. CASE StartComputed(bio, irq)
  BY <1>7 DEF StartComputed, ComputedStartStep, Holds, slotVars, GoesOn, PipelineStates
<1>8. CASE TransferIo(bio, irq, d)
  BY <1>8 DEF TransferIo, IoTransferStep, Holds, slotVars, GoesOn, PipelineStates
<1>9. CASE StartTable(bio, irq)
  BY <1>9 DEF StartTable, TableStartStep, Holds, slotVars, GoesOn, PipelineStates
<1>10. CASE TransferTable(w, bio, irq)
  BY <1>10 DEF TransferTable, TableTransferStep, Holds, slotVars, GoesOn
<1>11. ASSUME ExecuteComplete
       PROVE  exValid /\ pstate # "TABLE_TRANSFER"
  <2>1. exValid /\ LastStep
    BY <1>11 DEF ExecuteComplete, ExecuteReady
  <2>2. pstate = "TABLE_TRANSFER" => exWord.op \in TableOps
    BY DEF PipeInv, TransferAgreement
  <2>3. pstate = "TABLE_TRANSFER" => exWord.op \notin OneCycleOps
    BY <2>2, OpClasses
  <2> QED BY <2>1, <2>3
          DEF LastStep, Holds, ControlTargetStep, ComputedTargetStep, IoPrefetchStep,
              TablePrefetchStep
<1>12. CASE Retire(w, bio, irq)
  <2>1. /\ ExecuteComplete /\ ~VectorStep /\ ~DummyFetchStep /\ ClockCore(bio, irq)
        /\ exValid' /\ protected' = ProtectNext(irq)
    BY <1>12 DEF Retire, FillSlot
  <2>2. /\ intm' = IntmNext(exWord.op, intm)
        /\ Holds(OneCycleOps) => pstate = "SEQUENTIAL"
    BY <2>1, RetireEffect
  <2>3. pstate' = "SEQUENTIAL"
    BY <1>12, <2>2 DEF Retire
  <2>4. protected /\ exWord.op \notin MpyOps => intm'
    BY <2>1, <2>2 DEF DummyFetchStep, IntmNext
  <2>5. ~protected /\ ipend => protected' \/ intm'
    BY <2>1, <2>2 DEF ProtectNext
  <2> QED BY <1>11, <2>1, <2>3, <2>4, <2>5 DEF Retires
<1>13. CASE RetireProtected(bio, irq)
  <2>1. ExecuteComplete /\ VectorStep'
    BY <1>13 DEF RetireProtected, DummyFetchStep, VectorStep
  <2> QED BY <1>11, <2>1 DEF RetiresToVector
<1> QED BY <1>1, <1>4, <1>5, <1>6, <1>7, <1>8, <1>9, <1>10, <1>12, <1>13 DEF Serve

LEMMA EmptyStep ==
  ASSUME PipeInv, EmptyMasked, [Next]_vars
  PROVE  EmptyMasked'
<1>1. CASE Fetch
  <2>1. exValid' \/ VectorStep'
    BY <1>1, FetchCases DEF FillsSlot, GoesOn, Retires, RetiresToVector
  <2> QED BY <2>1 DEF EmptyMasked
<1>2. CASE PhaseStep(FALSE) \/ PhaseStep(TRUE) \/ IdleBoundary \/ UNCHANGED vars
  BY <1>2 DEF PhaseStep, IdleBoundary, vars, sliceVars, slotVars, coreVars,
              EmptyMasked, VectorStep
<1>3. CASE ResetBoundary \/ SliceInitialize
  BY <1>3 DEF ResetBoundary, SliceInitialize, CoreReset, CoreInitialize, EmptyMasked
<1> QED BY <1>1, <1>2, <1>3 DEF Next, Run

\* At most so many boundaries until the instruction in the slot retires.
BoundariesLeft ==
  CASE pstate = "SEQUENTIAL"     -> 3
    [] pstate = "TABLE_TRANSFER" -> 2
    [] OTHER                     -> 1

\* And from there until the protected instruction retires.
ProtectedLeft == IF protected THEN 0 ELSE 3

\* The instruction in flight, and after it the protected one, retire before
\* the core enters; k bounds the boundaries that takes.
Served == ientry \/ intm \/ Stuck \/ Holds(MpyOps)

Waiting(k) ==
  ipend /\ ~Served /\ BoundariesLeft + ProtectedLeft <= k

Landed == pstate \in {"SEQUENTIAL", "CONTROL_INVALID"}

\* A transaction in flight, or the entry it made way for, with at most k
\* boundaries to go.
InFlight(k) ==
  /\ ~Landed
  /\ (IF VectorStep THEN 1 ELSE 1 + BoundariesLeft) <= k

LEMMA GoesOnCloser ==
  ASSUME GoesOn, NEW k \in Nat, BoundariesLeft + ProtectedLeft <= k
  PROVE  BoundariesLeft' + ProtectedLeft' <= k - 1
<1>1. \/ ProtectedLeft = 0 /\ ProtectedLeft' = 0
      \/ ProtectedLeft = 3 /\ ProtectedLeft' = 3
  BY DEF GoesOn, ProtectedLeft
<1>2. CASE pstate = "SEQUENTIAL"
  <2>1. BoundariesLeft = 3 /\ (BoundariesLeft' = 1 \/ BoundariesLeft' = 2)
    BY <1>2 DEF GoesOn, BoundariesLeft, PipelineStates
  <2> QED BY <1>1, <2>1
<1>3. CASE pstate = "TABLE_TRANSFER"
  <2>1. BoundariesLeft = 2 /\ BoundariesLeft' = 1
    BY <1>3 DEF GoesOn, BoundariesLeft
  <2> QED BY <1>1, <2>1
<1> QED BY <1>2, <1>3 DEF GoesOn

\* Nothing but a boundary of the active bus moves any of this.
LEMMA QuietKeeps ==
  ASSUME PipeInv, [Run]_vars, ~Fetch
  PROVE  UNCHANGED <<coreVars, slotVars, pstate, carrier, protected>>
BY DEF Run, PhaseStep, IdleBoundary, vars, sliceVars

\* The core forgets a request only by entering.
LEMMA RequestKept ==
  ASSUME PipeInv, Fetch, ipend, ~ientry
  PROVE  ipend'
<1>1. PICK w \in Words, bio \in BOOLEAN, irq \in BOOLEAN, d \in IoValues :
        Serve(w, bio, irq, d)
  BY DEF Fetch
<1>2. ClockCore(bio, irq) \/ UNCHANGED coreVars
  BY <1>1 DEF Serve, Prime, FetchVector, FetchOperand, StartComputed, TransferIo,
              StartTable, TransferTable, Retire, RetireProtected
<1>3. CASE ClockCore(bio, irq)
  <2>1. Owner # "entry"
    BY DEF Owner
  <2> QED BY <1>3, <2>1
          DEF ClockCore, CoreStep, InterruptEntry, FinishComputed, FinishControl,
              StartTableTransfer, FinishTable, FinishIo, Issue, Refuse, Clocked,
              InterruptUpdate
<1> QED BY <1>2, <1>3 DEF coreVars, irqVars

\* A boundary serves a waiting request or brings the service closer.
LEMMA WaitingStep ==
  ASSUME PipeInv, EmptyMasked, NEW k \in Nat, Waiting(k), [Run]_vars
  PROVE  /\ Waiting(k)' \/ Served'
         /\ BoundaryStep => Waiting(k - 1)' \/ Served'
<1>1. ipend /\ ~ientry /\ ~intm /\ ~Stuck /\ ~Holds(MpyOps)
  BY DEF Waiting, Served
<1>2. exValid /\ ~VectorStep
  BY <1>1 DEF EmptyMasked, PipeInv, InterruptAgreement
<1>3. active
  BY <1>2 DEF PipeInv, IdleAgreement
<1>4. pstate \in PipelineStates /\ protected \in BOOLEAN
  BY DEF PipeInv, TypeOK
<1>5. CASE ~Fetch
  <2>1. ~BoundaryStep
    BY <1>3, <1>5 DEF BoundaryStep, IdleBoundary
  <2>2. ipend' = ipend /\ pstate' = pstate /\ protected' = protected
    BY <1>5, QuietKeeps DEF coreVars, irqVars
  <2>3. Waiting(k)' \/ Served'
    BY <1>1, <2>2 DEF Waiting, BoundariesLeft, ProtectedLeft
  <2> QED BY <2>1, <2>3
<1>6. CASE Fetch
  <2>1. SUFFICES ASSUME ~Served'
                 PROVE  Waiting(k)' /\ Waiting(k - 1)'
    BY DEF Served
  <2>2. ipend'
    BY <1>1, <1>6, RequestKept
  <2>3. ~intm' /\ ~ientry'
    BY <2>1 DEF Served
  <2>4. PipeInv'
    BY PipeNextInv DEF Next
  <2>5. ~VectorStep'
    BY <2>3, <2>4 DEF PipeInv, InterruptAgreement
  <2>6. GoesOn \/ Retires
    BY <1>2, <1>6, <2>5, FetchCases DEF FillsSlot, RetiresToVector
  <2>7. exWord.op \notin MpyOps
    BY <1>1, <1>2 DEF Holds
  <2>8. BoundariesLeft' + ProtectedLeft' <= k - 1
    <3>1. CASE GoesOn
      <4>1. BoundariesLeft + ProtectedLeft <= k
        BY DEF Waiting
      <4> QED BY <3>1, <4>1, GoesOnCloser
    <3>2. CASE Retires
      <4>1. ~protected /\ protected'
        BY <1>1, <2>3, <2>7, <3>2 DEF Retires
      <4>2. BoundariesLeft \in 1..3 /\ BoundariesLeft' = 3
        BY <3>2 DEF Retires, BoundariesLeft
      <4>3. ProtectedLeft = 3 /\ ProtectedLeft' = 0
        BY <4>1 DEF ProtectedLeft
      <4> QED BY <4>2, <4>3 DEF Waiting
    <3> QED BY <2>6, <3>1, <3>2
  <2>9. BoundariesLeft' + ProtectedLeft' \in Int
    BY DEF BoundariesLeft, ProtectedLeft
  <2> QED BY <2>1, <2>2, <2>8, <2>9 DEF Waiting
<1> QED BY <1>5, <1>6

\* A boundary ends a transaction or brings its end closer.
LEMMA InFlightStep ==
  ASSUME PipeInv, NEW k \in Nat, InFlight(k), [Run]_vars
  PROVE  /\ ~Stuck
         /\ InFlight(k)' \/ Landed'
         /\ BoundaryStep => InFlight(k - 1)' \/ Landed'
<1>1. pstate \in PipelineStates \ {"SEQUENTIAL", "CONTROL_INVALID"} /\ active
  BY DEF InFlight, Landed, PipeInv, TypeOK, IdleAgreement
<1>2. ~Stuck
  BY <1>1, ParkPoint DEF ParksBeforeEffects, Stuck
<1>3. CASE ~Fetch
  <2>1. ~BoundaryStep
    BY <1>1, <1>3 DEF BoundaryStep, IdleBoundary
  <2>2. pstate' = pstate
    BY <1>3, QuietKeeps
  <2> QED BY <1>2, <2>1, <2>2 DEF InFlight, Landed, VectorStep, BoundariesLeft
<1>4. CASE Fetch
  <2>1. FillsSlot \/ GoesOn \/ Retires \/ RetiresToVector
    BY <1>4, FetchCases
  <2>2. CASE FillsSlot \/ Retires
    BY <1>2, <2>2 DEF FillsSlot, Retires, Landed
  <2>3. CASE GoesOn
    <3>1. pstate = "TABLE_TRANSFER" /\ pstate' = "TABLE_PREFETCH"
      BY <1>1, <2>3 DEF GoesOn
    <3> QED BY <1>2, <3>1 DEF InFlight, Landed, VectorStep, BoundariesLeft
  <2>4. CASE RetiresToVector
    <3>1. pstate # "INTERRUPT_VECTOR" /\ pstate' = "INTERRUPT_VECTOR"
      BY <2>4 DEF RetiresToVector, PipeInv, InterruptAgreement, VectorStep
    <3> QED BY <1>1, <1>2, <3>1 DEF InFlight, Landed, VectorStep, BoundariesLeft
  <2> QED BY <2>1, <2>2, <2>3, <2>4
<1> QED BY <1>3, <1>4

\* No step is forced on a parked slice; any other can move.  Both theorems of
\* progress take this reading of ENABLED for granted.
RunsUnlessParked == [](~Stuck => ENABLED <<Run>>_vars)

LEMMA RunInvariant ==
  Init /\ [][Run]_vars => [](PipeInv /\ EmptyMasked)
<1>1. Init => PipeInv /\ EmptyMasked
  BY InitPipe DEF Init, CoreInit, EmptyMasked
<1>2. PipeInv /\ EmptyMasked /\ [Run]_vars => (PipeInv /\ EmptyMasked)'
  BY PipeNextInv, EmptyStep DEF Next
<1> QED BY <1>1, <1>2, PTL

\* The fair clock brings one boundary after the other, or the bus parks.
LEMMA BoundariesRecur ==
  ASSUME LastPhase = 3
  PROVE  RunSpec /\ RunsUnlessParked => []<>Stuck \/ []<><<BoundaryStep>>_vars
<1>1. PipeInv => phase = 0 \/ phase = 1 \/ phase = 2 \/ phase = 3
  BY DEF PipeInv, TypeOK
<1>2. phase = 0 /\ [Run]_vars =>
        /\ (phase = 0)' \/ (phase = 1)'
        /\ <<Run>>_vars => (phase = 1)'
  BY DEF Run, PhaseStep, IdleBoundary, Fetch, Serve, Prime, FetchVector, FetchOperand,
         StartComputed, TransferIo, StartTable, TransferTable, Retire, RetireProtected,
         DummyFetchStep, FetchBoundary, Boundary, vars, sliceVars, busVars
<1>3. phase = 1 /\ [Run]_vars =>
        /\ (phase = 1)' \/ (phase = 2)'
        /\ <<Run>>_vars => (phase = 2)'
  BY DEF Run, PhaseStep, IdleBoundary, Fetch, Serve, Prime, FetchVector, FetchOperand,
         StartComputed, TransferIo, StartTable, TransferTable, Retire, RetireProtected,
         DummyFetchStep, FetchBoundary, Boundary, vars, sliceVars, busVars
<1>4. phase = 2 /\ [Run]_vars =>
        /\ (phase = 2)' \/ (phase = 3)'
        /\ <<Run>>_vars => (phase = 3)'
  BY DEF Run, PhaseStep, IdleBoundary, Fetch, Serve, Prime, FetchVector, FetchOperand,
         StartComputed, TransferIo, StartTable, TransferTable, Retire, RetireProtected,
         DummyFetchStep, FetchBoundary, Boundary, vars, sliceVars, busVars
<1>5. phase = 3 /\ [Run]_vars =>
        /\ (phase = 3)' \/ <<BoundaryStep>>_vars
        /\ <<Run>>_vars => <<BoundaryStep>>_vars
  BY DEF Run, PhaseStep, BoundaryStep, vars, sliceVars, busVars
<1> QED BY <1>1, <1>2, <1>3, <1>4, <1>5, RunInvariant, PTL DEF RunSpec, RunsUnlessParked

\* A request waits for six boundaries at most.
LEMMA WaitingBounded ==
  /\ PipeInv /\ ipend /\ ~intm => Waiting(6) \/ Served
  /\ ~Waiting(0)
<1>1. \/ ProtectedLeft = 0 \/ ProtectedLeft = 3
  BY DEF ProtectedLeft
<1>2. BoundariesLeft = 1 \/ BoundariesLeft = 2 \/ BoundariesLeft = 3
  BY DEF BoundariesLeft
<1> QED BY <1>1, <1>2 DEF Waiting, Served

\* A transaction, with the entry it may make way for, for three.
LEMMA InFlightBounded ==
  /\ PipeInv /\ pstate # "SEQUENTIAL" => InFlight(3) \/ Landed
  /\ ~InFlight(0)
BY DEF InFlight, Landed, BoundariesLeft, VectorStep

\* What a run of the slice offers the two arguments below.
BoundariesGoOn ==
  /\ [](PipeInv /\ EmptyMasked) /\ [][Run]_vars
  /\ []<>Stuck \/ []<><<BoundaryStep>>_vars

LEMMA RunGoesOn ==
  ASSUME LastPhase = 3
  PROVE  RunSpec /\ RunsUnlessParked => BoundariesGoOn
BY BoundariesRecur, RunInvariant, PTL DEF RunSpec, BoundariesGoOn

\* One boundary less; k and j are numbers where a theorem cites these.
LEMMA WaitingDescends ==
  ASSUME NEW k \in Nat, NEW j \in Nat, k = j + 1
  PROVE  /\ PipeInv /\ EmptyMasked /\ Waiting(k) /\ [Run]_vars => Waiting(k)' \/ Served'
         /\ PipeInv /\ EmptyMasked /\ Waiting(k) /\ <<BoundaryStep>>_vars
              => Waiting(j)' \/ Served'
<1>1. PipeInv /\ EmptyMasked /\ Waiting(k) /\ [Run]_vars => Waiting(k)' \/ Served'
  BY WaitingStep
<1>2. ASSUME PipeInv, EmptyMasked, Waiting(k), BoundaryStep
      PROVE  Waiting(j)' \/ Served'
  <2>1. Waiting(k - 1)' \/ Served'
    BY <1>2, WaitingStep DEF BoundaryStep, Run
  <2>2. k - 1 = j
    OBVIOUS
  <2> QED BY <2>1, <2>2
<1> QED BY <1>1, <1>2

LEMMA InFlightDescends ==
  ASSUME NEW k \in Nat, NEW j \in Nat, k = j + 1
  PROVE  /\ PipeInv /\ InFlight(k) /\ [Run]_vars => ~Stuck /\ (InFlight(k)' \/ Landed')
         /\ PipeInv /\ InFlight(k) /\ <<BoundaryStep>>_vars => InFlight(j)' \/ Landed'
<1>1. PipeInv /\ InFlight(k) /\ [Run]_vars => ~Stuck /\ (InFlight(k)' \/ Landed')
  BY InFlightStep DEF Landed
<1>2. ASSUME PipeInv, InFlight(k), BoundaryStep
      PROVE  InFlight(j)' \/ Landed'
  <2>1. InFlight(k - 1)' \/ Landed'
    BY <1>2, InFlightStep DEF BoundaryStep, Run, Landed
  <2>2. k - 1 = j
    OBVIOUS
  <2> QED BY <2>1, <2>2
<1> QED BY <1>1, <1>2

(* Under a clock that always returns, a latched and enabled request is     *)
(* served, whatever the program does short of DINT, MPY and MPYK, or an    *)
(* illegal word: within the six boundaries of the instruction in flight    *)
(* and the protected one.                                                  *)
THEOREM InterruptServedCorrect ==
  ASSUME LastPhase = 3
  PROVE  RunSpec /\ RunsUnlessParked => InterruptServed
<1> DEFINE
      Descends(k, j) ==
        /\ PipeInv /\ EmptyMasked /\ Waiting(k) /\ [Run]_vars => Waiting(k)' \/ Served'
        /\ PipeInv /\ EmptyMasked /\ Waiting(k) /\ <<BoundaryStep>>_vars
             => Waiting(j)' \/ Served'
<1>1. Descends(6, 5) /\ Descends(5, 4) /\ Descends(4, 3)
  BY WaitingDescends
<1>2. Descends(3, 2) /\ Descends(2, 1) /\ Descends(1, 0)
  BY WaitingDescends
<1>3. /\ PipeInv /\ ipend /\ ~intm => Waiting(6) \/ Served
      /\ ~Waiting(0)
      /\ Stuck => Served
      /\ Served <=> (ientry \/ intm \/ Stuck \/ Holds(MpyOps))
  BY WaitingBounded DEF Served
<1>4. RunSpec /\ RunsUnlessParked => BoundariesGoOn
  BY RunGoesOn
<1> QED BY <1>1, <1>2, <1>3, <1>4, PTL DEF InterruptServed, BoundariesGoOn

(* Under a clock that always returns, an instruction that takes several    *)
(* machine cycles leaves the slice in the sequential state, or parked on a *)
(* bad operand word, three boundaries later at most.                       *)
THEOREM TransactionsFinishCorrect ==
  ASSUME LastPhase = 3
  PROVE  RunSpec /\ RunsUnlessParked => TransactionsFinish
<1> DEFINE
      Descends(k, j) ==
        /\ PipeInv /\ InFlight(k) /\ [Run]_vars => ~Stuck /\ (InFlight(k)' \/ Landed')
        /\ PipeInv /\ InFlight(k) /\ <<BoundaryStep>>_vars => InFlight(j)' \/ Landed'
<1>1. Descends(3, 2) /\ Descends(2, 1) /\ Descends(1, 0)
  BY InFlightDescends
<1>2. /\ PipeInv /\ pstate # "SEQUENTIAL" => InFlight(3) \/ Landed
      /\ ~InFlight(0)
      /\ Landed <=> pstate \in {"SEQUENTIAL", "CONTROL_INVALID"}
  BY InFlightBounded DEF Landed
<1>3. RunSpec /\ RunsUnlessParked => BoundariesGoOn
  BY RunGoesOn
<1> QED BY <1>1, <1>2, <1>3, PTL DEF TransactionsFinish, BoundariesGoOn
=============================================================================
