----------------------------- MODULE CoreProofs -----------------------------
(***************************************************************************)
(* The execution core keeps its invariants for every width, every program  *)
(* and every schedule of its pins.  The steps are proved for any word of   *)
(* WordType, so that the pipeline slice, whose carrier starts as a word    *)
(* that no program holds, can use them.                                    *)
(***************************************************************************)
EXTENDS Core, DatapathProofs

-----------------------------------------------------------------------------
\* What the combinational outputs return.

LEMMA OutputTypes ==
  ASSUME CoreTypeOK, NEW w \in WordType, NEW d \in Value
  PROVE  /\ DataAddress(w) \in Nat
         /\ ReadData(w) \in Value
         /\ RamNext(w, d) \in [RamAddr -> Value]
<1>1. DataAddress(w) \in Nat
  <2>1. tbl.da \in Nat /\ io.da \in Nat /\ reg \in Registers
    BY DEF CoreTypeOK, TransferType
  <2> QED BY <2>1, AddressType DEF DataAddress
<1>2. \A a \in Nat : a < RamWords => a \in RamAddr
  BY Widths DEF RamAddr
<1>3. ReadData(w) \in Value
  BY <1>1, <1>2, Widths DEF ReadData, CoreTypeOK
<1>4. WriteData(w, d) \in Value
  <2>1. w.data \in Value
    BY WordTypes
  <2>2. StoreValue(w, reg, intm, ReadData(w)) \in Value
    BY <1>3, StoreType DEF CoreTypeOK
  <2> QED BY <2>1, <2>2 DEF WriteData
<1>5. WriteAddress(w) \in Nat
  <2>1. DataAddress(w) + 1 \in Int
    BY <1>1
  <2>2. (DataAddress(w) + 1) % DaMod \in Nat
    BY <2>1, ModRange, WidthAssumption
  <2> QED BY <1>1, <2>2 DEF WriteAddress
<1> QED BY <1>1, <1>2, <1>3, <1>4, <1>5 DEF RamNext, CoreTypeOK

LEMMA NextAddrType ==
  ASSUME NEW a \in Addr
  PROVE  NextAddr(a) \in Addr
<1>1. a + 1 \in Int
  BY DEF Addr
<1> QED BY <1>1, ModRange, Widths DEF NextAddr, Addr

LEMMA AccAddrType ==
  ASSUME NEW a \in AccVal
  PROVE  a % PcMod \in Addr
<1>1. a \in Int
  BY DEF AccVal
<1> QED BY <1>1, ModRange, Widths DEF Addr

LEMMA TransferRegType ==
  ASSUME reg \in Registers, NEW t \in TransferType
  PROVE  TransferReg(t) \in Registers
<1>1. t.arp \in Bit /\ t.narp \in Bit
  BY DEF TransferType
<1>2. reg.ar[t.arp] \in Value
  BY <1>1, RegisterTypes
<1>3. Counter(reg.ar[t.arp], t.inc, t.dec) \in Value
  BY <1>2, CounterType
<1> QED BY <1>1, <1>2, <1>3, RegisterTypes DEF TransferReg, Registers

\* The interrupt flags stay Booleans.
LEMMA InterruptTypes ==
  ASSUME CoreTypeOK, NEW w, NEW irq \in BOOLEAN, InterruptUpdate(w, irq)
  PROVE  ipend' \in BOOLEAN /\ idelay' \in BOOLEAN /\ ientry' \in BOOLEAN
BY DEF CoreTypeOK, InterruptUpdate

LEMMA IntmType ==
  ASSUME intm \in BOOLEAN, NEW op
  PROVE  IntmNext(op, intm) \in BOOLEAN
BY DEF IntmNext

\* A captured transfer is a transfer.
LEMMA CaptureType ==
  ASSUME CoreTypeOK, NEW w \in WordType, w.op \in IoOps \cup TableOps,
         NEW at \in Nat, NEW da \in Nat
  PROVE  Capture(w, at, da) \in TransferType
BY WordTypes, RegisterTypes DEF Capture, TransferType, CoreTypeOK

-----------------------------------------------------------------------------
\* Types.

LEMMA StepType ==
  ASSUME CoreTypeOK, NEW w \in WordType, NEW bio, NEW irq \in BOOLEAN,
         NEW d \in Value, CoreStep(w, bio, irq, d)
  PROVE  CoreTypeOK'
<1>1. pc \in Addr /\ stack \in [Levels -> Addr] /\ reg \in Registers
        /\ cmp.target \in Addr /\ cmp.ret \in Addr
        /\ io \in TransferType /\ tbl \in TransferType
        /\ reg.acc \in AccVal
  BY RegisterTypes DEF CoreTypeOK
<1>2. /\ NextAddr(pc) \in Addr /\ Vector \in Addr /\ 0 \in Addr
      /\ w.addr \in Addr /\ reg.acc % PcMod \in Addr /\ stack[0] \in Addr
  BY <1>1, NextAddrType, Widths, WordTypes, AccAddrType, StackType
<1>3. NoTransfer \in TransferType /\ NoTransfer.op = "none"
  BY DEF NoTransfer, TransferType, Bit
<1>4. NoComputed \in [op : {"none"} \cup ComputedOps, target : Addr, ret : Addr]
  BY <1>2 DEF NoComputed
<1>5. RamNext(w, d) \in [RamAddr -> Value] /\ DataAddress(w) \in Nat
        /\ ReadData(w) \in Value
  BY OutputTypes
<1>6. CASE InterruptEntry
  BY <1>1, <1>2, <1>6, StackType DEF InterruptEntry, CoreTypeOK, pendVars
<1>7. CASE FinishComputed(w, irq, d)
  <2>1. Push(stack, cmp.ret) \in [Levels -> Addr] /\ Pop(stack) \in [Levels -> Addr]
    BY <1>1, StackType
  <2> QED BY <1>1, <1>4, <1>5, <1>7, <2>1, InterruptTypes
          DEF FinishComputed, Clocked, CoreTypeOK
<1>8. CASE FinishControl(w, bio, irq, d)
  <2>1. Push(stack, NextAddr(pc)) \in [Levels -> Addr]
    BY <1>1, <1>2, StackType
  <2>2. BranchReg(ctl, reg) \in Registers
    BY <1>1, BranchRegType
  <2> QED BY <1>1, <1>2, <1>5, <1>8, <2>1, <2>2, InterruptTypes
          DEF FinishControl, Clocked, CoreTypeOK
<1>9. CASE StartTableTransfer(w, irq, d)
  BY <1>5, <1>9, InterruptTypes DEF StartTableTransfer, Clocked, CoreTypeOK
<1>10. CASE FinishTable(w, irq, d)
  BY <1>1, <1>3, <1>5, <1>10, InterruptTypes, StackType, TransferRegType
  DEF FinishTable, Clocked, CoreTypeOK
<1>11. CASE FinishIo(w, irq, d)
  BY <1>1, <1>3, <1>5, <1>11, InterruptTypes, TransferRegType
  DEF FinishIo, Clocked, CoreTypeOK
<1>12. CASE Issue(w, irq, d)
  <2>1. ExecReg(w, reg, ReadData(w)) \in Registers
    BY <1>1, <1>5, ExecRegType
  <2>2. w.op \in IoOps =>
          Capture(w, w.port, DataAddress(w)) \in TransferType
            /\ Capture(w, w.port, DataAddress(w)).op \in IoOps
    BY <1>5, CaptureType, WordTypes DEF Capture
  <2>3. w.op \in TableOps =>
          Capture(w, reg.acc % PcMod, DataAddress(w)) \in TransferType
            /\ Capture(w, reg.acc % PcMod, DataAddress(w)).op \in TableOps
    BY <1>2, <1>5, CaptureType, WordTypes DEF Capture, Addr
  <2>4. w.op \in ComputedOps =>
          CaptureComputed(w) \in [op : {"none"} \cup ComputedOps,
                                  target : Addr, ret : Addr]
    BY <1>2 DEF CaptureComputed
  <2>5. IntmNext(w.op, intm) \in BOOLEAN
    BY IntmType DEF CoreTypeOK
  <2>6. reg' \in Registers /\ pc' \in Addr /\ intm' \in BOOLEAN
          /\ stack' \in [Levels -> Addr] /\ illegal' \in BOOLEAN
    BY <1>1, <1>2, <1>12, <2>1, <2>5 DEF Issue, Clocked
  <2>7. io' \in TransferType /\ io'.op \in {"none"} \cup IoOps
    BY <1>1, <1>12, <2>2 DEF Issue, CoreTypeOK
  <2>8. tbl' \in TransferType /\ tbl'.op \in {"none"} \cup TableOps
    BY <1>1, <1>12, <2>3 DEF Issue, CoreTypeOK
  <2>9. cmp' \in [op : {"none"} \cup ComputedOps, target : Addr, ret : Addr]
    BY <1>12, <2>4 DEF Issue, CoreTypeOK
  <2>10. ctl' \in {"none"} \cup ControlOps /\ xfer' \in BOOLEAN
    BY <1>12 DEF Issue, CoreTypeOK
  <2>11. ram' \in [RamAddr -> Value]
    BY <1>5, <1>12 DEF Issue, Clocked
  <2>12. ipend' \in BOOLEAN /\ idelay' \in BOOLEAN /\ ientry' \in BOOLEAN
    BY <1>12, InterruptTypes DEF Issue, Clocked
  <2> QED BY <2>6, <2>7, <2>8, <2>9, <2>10, <2>11, <2>12 DEF CoreTypeOK
<1>13. CASE Refuse(w, irq)
  BY <1>13 DEF Refuse, CoreTypeOK, pendVars
<1> QED BY <1>6, <1>7, <1>8, <1>9, <1>10, <1>11, <1>12, <1>13 DEF CoreStep

-----------------------------------------------------------------------------
\* The inductive invariant.

\* What AcceptedCompletes rests on: the checks made at issue, which no later
\* step can undo because the captured operands do not change.
Accepted ==
  /\ cmp.op # "none" => InferredComputed
  /\ tbl.op # "none" => tbl.da < RamWords
  /\ io.op # "none"  => io.da < RamWords

CoreInv == CoreTypeOK /\ OneOwner /\ InterruptArmed /\ Accepted /\ CapturedCurrent

LEMMA OwnerFacts ==
  ASSUME CoreTypeOK, OneOwner
  PROVE  /\ Owner = "entry" <=> ientry
         /\ Owner = "computed" <=> cmp.op # "none"
         /\ Owner = "control" <=> ctl # "none"
         /\ Owner = "table" <=> tbl.op # "none"
         /\ Owner = "io" <=> io.op # "none"
BY DEF Owner, OneOwner, CoreTypeOK

\* Only an edge that retires an instruction can schedule the entry, and the
\* owner of that edge gives up the next one.
LEMMA StepOneOwner ==
  ASSUME CoreTypeOK, OneOwner, NEW w \in WordType, NEW bio, NEW irq \in BOOLEAN,
         NEW d \in Value, CoreStep(w, bio, irq, d)
  PROVE  OneOwner'
<1>1. /\ Owner = "entry" <=> ientry
      /\ Owner = "computed" <=> cmp.op # "none"
      /\ Owner = "control" <=> ctl # "none"
      /\ Owner = "table" <=> tbl.op # "none"
      /\ Owner = "io" <=> io.op # "none"
  BY OwnerFacts
<1>2. NoTransfer.op = "none" /\ NoComputed.op = "none"
  BY DEF NoTransfer, NoComputed
<1>3. CASE InterruptEntry
  BY <1>3 DEF InterruptEntry, OneOwner, pendVars
<1>4. CASE FinishComputed(w, irq, d)
  BY <1>1, <1>2, <1>4 DEF FinishComputed, OneOwner
<1>5. CASE FinishControl(w, bio, irq, d)
  BY <1>1, <1>5 DEF FinishControl, OneOwner
<1>6. CASE StartTableTransfer(w, irq, d)
  <2>1. Retiring(w) = "none"
    BY <1>6 DEF StartTableTransfer, Clocked, Retiring
  <2>2. ientry' = ientry
    BY <1>6, <2>1 DEF StartTableTransfer, Clocked, InterruptUpdate
  <2> QED BY <1>1, <1>6, <2>2 DEF StartTableTransfer, OneOwner
<1>7. CASE FinishTable(w, irq, d)
  BY <1>1, <1>2, <1>7 DEF FinishTable, OneOwner
<1>8. CASE FinishIo(w, irq, d)
  BY <1>1, <1>2, <1>8 DEF FinishIo, OneOwner
<1>9. CASE Issue(w, irq, d)
  <2>1. ~ientry /\ cmp.op = "none" /\ ctl = "none" /\ tbl.op = "none" /\ io.op = "none"
    BY <1>1, <1>9 DEF Issue
  <2>2. w.op \notin OneCycleOps => ientry' = ientry
    <3>1. SUFFICES ASSUME w.op \notin OneCycleOps PROVE ientry' = ientry
      OBVIOUS
    <3>2. Retiring(w) = "none"
      BY <1>9, <3>1 DEF Issue, Retiring
    <3> QED BY <1>9, <3>2 DEF Issue, Clocked, InterruptUpdate
  <2>3. /\ w.op \in ControlOps => w.op \notin OneCycleOps \cup ComputedOps \cup IoOps \cup TableOps
        /\ w.op \in ComputedOps => w.op \notin OneCycleOps \cup IoOps \cup TableOps
        /\ w.op \in IoOps => w.op \notin OneCycleOps \cup TableOps
        /\ w.op \in TableOps => w.op \notin OneCycleOps
    BY DEF ControlOps, ComputedOps, IoOps, TableOps, OneCycleOps, MemoryOps, LoadOps,
           StoreOps, InherentOps, DmovOps, AccumulatorBranches
  <2>4. /\ ctl' # "none" => w.op \in ControlOps
        /\ cmp'.op # "none" => w.op \in ComputedOps
        /\ io'.op # "none" => w.op \in IoOps
        /\ tbl'.op # "none" => w.op \in TableOps
        /\ xfer' = TRUE => xfer
    BY <1>9, <2>1 DEF Issue
  <2>5. ~xfer
    BY <2>1 DEF OneOwner, CoreTypeOK
  <2>6. xfer' \in BOOLEAN
    BY <1>9 DEF Issue, CoreTypeOK
  <2> QED BY <2>1, <2>2, <2>3, <2>4, <2>5, <2>6 DEF OneOwner
<1>10. CASE Refuse(w, irq)
  BY <1>10 DEF Refuse, OneOwner, pendVars
<1> QED BY <1>3, <1>4, <1>5, <1>6, <1>7, <1>8, <1>9, <1>10 DEF CoreStep

\* The update keeps the two flags armed when it uses the new mask.
LEMMA UpdateArmed ==
  ASSUME CoreTypeOK, InterruptArmed, ~ientry, NEW w, NEW irq \in BOOLEAN,
         InterruptUpdate(w, irq), intm' = IntmNext(Retiring(w), intm)
  PROVE  InterruptArmed'
<1>1. CASE Retiring(w) = "none"
  <2>1. intm' = intm
    BY <1>1 DEF IntmNext
  <2> QED BY <1>1, <2>1 DEF InterruptArmed, InterruptUpdate, CoreTypeOK
<1>2. CASE Retiring(w) # "none"
  BY <1>2 DEF InterruptArmed, InterruptUpdate, CoreTypeOK
<1> QED BY <1>1, <1>2

LEMMA StepArmed ==
  ASSUME CoreTypeOK, OneOwner, InterruptArmed, NEW w \in WordType, NEW bio,
         NEW irq \in BOOLEAN, NEW d \in Value, CoreStep(w, bio, irq, d)
  PROVE  InterruptArmed'
<1>1. Owner = "entry" <=> ientry
  BY OwnerFacts
<1>2. CASE InterruptEntry
  BY <1>2 DEF InterruptEntry, InterruptArmed
<1>3. CASE Refuse(w, irq)
  BY <1>3 DEF Refuse, InterruptArmed, CoreTypeOK
<1>4. CASE Issue(w, irq, d)
  <2>1. IntmNext(w.op, intm) = IntmNext(Retiring(w), intm)
    BY <1>4 DEF Issue, Clocked, Retiring, IntmNext, OneCycleOps, InherentOps
  <2> QED BY <1>1, <1>4, <2>1, UpdateArmed DEF Issue, Clocked
<1>5. CASE \/ FinishComputed(w, irq, d) \/ FinishControl(w, bio, irq, d)
           \/ StartTableTransfer(w, irq, d) \/ FinishTable(w, irq, d)
           \/ FinishIo(w, irq, d)
  <2>1. Owner \in {"computed", "control", "table", "io"}
    BY <1>5 DEF FinishComputed, FinishControl, StartTableTransfer, FinishTable, FinishIo
  <2>2. Retiring(w) \notin {"DINT", "EINT"}
    BY <2>1 DEF Retiring, CoreTypeOK, ComputedOps, ControlOps, TableOps, IoOps,
                AccumulatorBranches
  <2>3. intm' = intm /\ InterruptUpdate(w, irq)
    BY <1>5 DEF FinishComputed, FinishControl, StartTableTransfer, FinishTable,
                FinishIo, Clocked
  <2>4. intm' = IntmNext(Retiring(w), intm)
    BY <2>2, <2>3 DEF IntmNext
  <2> QED BY <1>1, <2>1, <2>3, <2>4, UpdateArmed
<1> QED BY <1>2, <1>3, <1>4, <1>5 DEF CoreStep

\* Between the issue of a transaction and its last edge the registers its
\* operands were captured from do not move.
LEMMA StepCaptured ==
  ASSUME CoreTypeOK, OneOwner, Accepted, CapturedCurrent, NEW w \in WordType,
         NEW bio, NEW irq \in BOOLEAN, NEW d \in Value, CoreStep(w, bio, irq, d)
  PROVE  Accepted' /\ CapturedCurrent'
<1>1. /\ Owner = "entry" <=> ientry
      /\ Owner = "computed" <=> cmp.op # "none"
      /\ Owner = "control" <=> ctl # "none"
      /\ Owner = "table" <=> tbl.op # "none"
      /\ Owner = "io" <=> io.op # "none"
  BY OwnerFacts
<1>2. NoTransfer.op = "none" /\ NoComputed.op = "none"
  BY DEF NoTransfer, NoComputed
<1>3. CASE InterruptEntry
  <2>1. cmp.op = "none" /\ tbl.op = "none" /\ io.op = "none"
    BY <1>1, <1>3 DEF InterruptEntry, OneOwner
  <2> QED BY <1>3, <2>1 DEF InterruptEntry, Accepted, CapturedCurrent, pendVars
<1>4. CASE FinishComputed(w, irq, d)
  BY <1>1, <1>2, <1>4 DEF FinishComputed, OneOwner, Accepted, CapturedCurrent
<1>5. CASE FinishControl(w, bio, irq, d)
  <2>1. cmp.op = "none" /\ tbl.op = "none" /\ io.op = "none"
    BY <1>1, <1>5 DEF FinishControl, OneOwner
  <2> QED BY <1>5, <2>1 DEF FinishControl, Accepted, CapturedCurrent
<1>6. CASE StartTableTransfer(w, irq, d)
  BY <1>6 DEF StartTableTransfer, Accepted, CapturedCurrent
<1>7. CASE FinishTable(w, irq, d)
  <2>1. cmp.op = "none" /\ io.op = "none"
    BY <1>1, <1>7 DEF FinishTable, OneOwner
  <2> QED BY <1>2, <1>7, <2>1 DEF FinishTable, Accepted, CapturedCurrent
<1>8. CASE FinishIo(w, irq, d)
  <2>1. cmp.op = "none" /\ tbl.op = "none"
    BY <1>1, <1>8 DEF FinishIo, OneOwner
  <2> QED BY <1>2, <1>8, <2>1 DEF FinishIo, Accepted, CapturedCurrent
<1>9. CASE Issue(w, irq, d)
  <2>1. cmp.op = "none" /\ tbl.op = "none" /\ io.op = "none" /\ Owner = "issue"
    BY <1>1, <1>9 DEF Issue
  <2>2. WordValid(w)
    BY <1>9, <2>1 DEF Issue, Clocked, InstructionValid
  <2>3. w.op \in ComputedOps \cup IoOps \cup TableOps => w.op \notin OneCycleOps
    BY DEF ComputedOps, IoOps, TableOps, OneCycleOps, MemoryOps, LoadOps, StoreOps,
           InherentOps, DmovOps
  <2>4. reg' = reg \/ w.op \in OneCycleOps
    BY <1>9 DEF Issue
  <2>5. CASE w.op \in ComputedOps
    <3>1. w.op \notin IoOps \cup TableOps
      BY <2>5 DEF ComputedOps, IoOps, TableOps
    <3>2. reg' = reg /\ stack' = stack /\ pc' = NextAddr(pc) /\ io' = io /\ tbl' = tbl
      BY <1>9, <2>3, <2>4, <2>5, <3>1 DEF Issue
    <3>3. cmp' = [op |-> w.op,
                  target |-> IF w.op = "CALA" THEN reg.acc % PcMod ELSE stack[0],
                  ret |-> NextAddr(pc)]
      BY <1>9, <2>5 DEF Issue, CaptureComputed
    <3> QED BY <2>1, <2>2, <2>5, <3>2, <3>3
            DEF Accepted, CapturedCurrent, WordValid, ComputedOps
  <2>6. CASE w.op \in IoOps
    <3>1. w.op \notin ComputedOps \cup TableOps
      BY <2>6 DEF ComputedOps, IoOps, TableOps
    <3>2. reg' = reg /\ cmp' = cmp /\ tbl' = tbl
      BY <1>9, <2>3, <2>4, <2>6, <3>1 DEF Issue
    <3>3. io' = Capture(w, w.port, DataAddress(w))
      BY <1>9, <2>6 DEF Issue
    <3>4. io'.da = DataAddress(w) /\ io'.arp = reg.arp
      BY <3>3 DEF Capture
    <3>5. DataAddress(w) < RamWords
      BY <2>2, <2>6 DEF WordValid, DataAddressed
    <3> QED BY <2>1, <3>2, <3>4, <3>5 DEF Accepted, CapturedCurrent
  <2>7. CASE w.op \in TableOps
    <3>1. w.op \notin ComputedOps \cup IoOps
      BY <2>7 DEF ComputedOps, IoOps, TableOps
    <3>2. reg' = reg /\ cmp' = cmp /\ io' = io
      BY <1>9, <2>3, <2>4, <2>7, <3>1 DEF Issue
    <3>3. tbl' = Capture(w, reg.acc % PcMod, DataAddress(w))
      BY <1>9, <2>7 DEF Issue
    <3>4. tbl'.da = DataAddress(w) /\ tbl'.arp = reg.arp /\ tbl'.at = reg.acc % PcMod
      BY <3>3 DEF Capture
    <3>5. DataAddress(w) < RamWords
      BY <2>2, <2>7 DEF WordValid, DataAddressed
    <3> QED BY <2>1, <3>2, <3>4, <3>5 DEF Accepted, CapturedCurrent
  <2>8. CASE w.op \notin ComputedOps \cup IoOps \cup TableOps
    <3>1. cmp' = cmp /\ io' = io /\ tbl' = tbl
      BY <1>9, <2>8 DEF Issue
    <3> QED BY <2>1, <3>1 DEF Accepted, CapturedCurrent
  <2> QED BY <2>5, <2>6, <2>7, <2>8
<1>10. CASE Refuse(w, irq)
  BY <1>10 DEF Refuse, Accepted, CapturedCurrent, pendVars
<1> QED BY <1>3, <1>4, <1>5, <1>6, <1>7, <1>8, <1>9, <1>10 DEF CoreStep

LEMMA StepInv ==
  ASSUME CoreInv, NEW w \in WordType, NEW bio, NEW irq \in BOOLEAN,
         NEW d \in Value, CoreStep(w, bio, irq, d)
  PROVE  CoreInv'
BY StepType, StepOneOwner, StepArmed, StepCaptured DEF CoreInv

\* Reset and initialize leave nothing pending.
LEMMA ResetInv ==
  ASSUME CoreTypeOK, CoreReset \/ CoreInitialize
  PROVE  CoreInv'
<1>1. NoTransfer \in TransferType /\ NoTransfer.op = "none" /\ NoComputed.op = "none"
        /\ NoComputed \in [op : {"none"} \cup ComputedOps, target : Addr, ret : Addr]
  BY Widths DEF NoTransfer, NoComputed, TransferType, Bit
<1>2. ZeroRegisters \in Registers /\ [i \in Levels |-> 0] \in [Levels -> Addr]
  BY Widths DEF ZeroRegisters, Registers, Bit
<1>3. CoreTypeOK'
  BY <1>1, <1>2, Widths DEF CoreReset, CoreInitialize, CoreTypeOK
<1>4. OneOwner' /\ InterruptArmed' /\ Accepted' /\ CapturedCurrent'
  BY <1>1 DEF CoreReset, CoreInitialize, OneOwner, InterruptArmed, Accepted,
              CapturedCurrent
<1> QED BY <1>3, <1>4 DEF CoreInv

LEMMA InitInv ==
  ASSUME CoreInit
  PROVE  CoreInv
<1>1. NoTransfer \in TransferType /\ NoTransfer.op = "none" /\ NoComputed.op = "none"
        /\ NoComputed \in [op : {"none"} \cup ComputedOps, target : Addr, ret : Addr]
  BY Widths DEF NoTransfer, NoComputed, TransferType, Bit
<1>2. ZeroRegisters \in Registers /\ [i \in Levels |-> 0] \in [Levels -> Addr]
  BY Widths DEF ZeroRegisters, Registers, Bit
<1>3. CoreTypeOK
  BY <1>1, <1>2, Widths, CoreAssumption DEF CoreInit, CoreTypeOK
<1>4. OneOwner /\ InterruptArmed /\ Accepted /\ CapturedCurrent
  BY <1>1 DEF CoreInit, OneOwner, InterruptArmed, Accepted, CapturedCurrent
<1> QED BY <1>3, <1>4 DEF CoreInv

LEMMA DebugInv ==
  ASSUME CoreInv, DebugWrite
  PROVE  CoreInv'
<1>1. PICK a \in RamAddr, v \in IoValues : ram' = [ram EXCEPT ![a] = v]
  BY DEF DebugWrite
<1>2. ram' \in [RamAddr -> Value]
  BY <1>1, CoreAssumption DEF CoreInv, CoreTypeOK
<1> QED BY <1>2 DEF CoreInv, DebugWrite, CoreTypeOK, OneOwner, InterruptArmed, Accepted,
                    CapturedCurrent, irqVars, pendVars

LEMMA NextInv ==
  ASSUME CoreInv, [CoreNext]_coreVars
  PROVE  CoreInv'
<1>1. CASE Clock
  <2>1. PICK w \in Words, bio \in BOOLEAN, irq \in BOOLEAN, d \in IoValues :
               CoreStep(w, bio, irq, d)
    BY <1>1 DEF Clock
  <2>2. w \in WordType /\ d \in Value
    BY WordAssumption, CoreAssumption
  <2> QED BY <2>1, <2>2, StepInv
<1>2. CASE CoreReset \/ CoreInitialize
  BY <1>2, ResetInv DEF CoreInv
<1>3. CASE DebugWrite
  BY <1>3, DebugInv
<1>4. CASE UNCHANGED coreVars
  BY <1>4 DEF CoreInv, coreVars, irqVars, pendVars, CoreTypeOK, OneOwner,
              InterruptArmed, Accepted, CapturedCurrent
<1> QED BY <1>1, <1>2, <1>3, <1>4 DEF CoreNext

-----------------------------------------------------------------------------
\* Theorems.

THEOREM CoreInvariant == CoreSpec => []CoreInv
<1>1. CoreInit => CoreInv
  BY InitInv
<1>2. CoreInv /\ [CoreNext]_coreVars => CoreInv'
  BY NextInv
<1> QED BY <1>1, <1>2, PTL DEF CoreSpec

(* The registers of the core hold values of their widths.                  *)
THEOREM CoreTypeCorrect == CoreSpec => []CoreTypeOK
<1>1. CoreInv => CoreTypeOK
  BY DEF CoreInv
<1> QED BY <1>1, CoreInvariant, PTL

(* The priority order of the five owners of an edge never matters.         *)
THEOREM CoreOneOwner == CoreSpec => []OneOwner
<1>1. CoreInv => OneOwner
  BY DEF CoreInv
<1> QED BY <1>1, CoreInvariant, PTL

(* The interrupt sequence runs only for an enabled, latched request.       *)
THEOREM CoreInterruptArmed == CoreSpec => []InterruptArmed
<1>1. CoreInv => InterruptArmed
  BY DEF CoreInv
<1> QED BY <1>1, CoreInvariant, PTL

(* The captured operands of a pending transaction never go stale.          *)
THEOREM CoreCapturedCurrent == CoreSpec => []CapturedCurrent
<1>1. CoreInv => CapturedCurrent
  BY DEF CoreInv
<1> QED BY <1>1, CoreInvariant, PTL

(* A transfer or a computed branch that was accepted is not refused later. *)
THEOREM CoreAcceptedCompletes == CoreSpec => []AcceptedCompletes
<1>1. CoreInv => AcceptedCompletes
  BY OwnerFacts DEF CoreInv, Accepted, AcceptedCompletes, InstructionValid
<1> QED BY <1>1, CoreInvariant, PTL

(* One transaction at a time drives the strobes and the data bus.          *)
THEOREM CoreStrobesExclusive == CoreSpec => []StrobesExclusive
<1>1. ASSUME CoreInv
      PROVE  StrobesExclusive
  <2>1. SUFFICES ASSUME NEW w \in Words
                 PROVE  /\ ~(IoRead /\ IoWrite) /\ ~(ProgramRead /\ ProgramWrite)
                        /\ IoRead \/ IoWrite => ~ProgramRead /\ ~ProgramWrite
                        /\ IoWrite \/ ProgramWrite => DataRead(w) /\ ~DataWrite(w)
                        /\ IoRead => DataWrite(w) /\ ~DataRead(w)
                        /\ Owner \in {"control", "entry"} => ~DataRead(w) /\ ~DataWrite(w)
                        /\ DataRead(w) \/ DataWrite(w) =>
                             DataAddress(w) < RamWords \/ ~InstructionValid(w)
    BY DEF StrobesExclusive
  <2>2. OneOwner /\ CoreTypeOK /\ Accepted
    BY <1>1 DEF CoreInv
  <2>3. /\ Owner = "entry" <=> ientry
        /\ Owner = "computed" <=> cmp.op # "none"
        /\ Owner = "control" <=> ctl # "none"
        /\ Owner = "table" <=> tbl.op # "none"
        /\ Owner = "io" <=> io.op # "none"
    BY <2>2, OwnerFacts
  <2>4. /\ ~(IoRead /\ IoWrite) /\ ~(ProgramRead /\ ProgramWrite)
        /\ IoRead \/ IoWrite => ~ProgramRead /\ ~ProgramWrite
    BY <2>2 DEF IoRead, IoWrite, ProgramRead, ProgramWrite, OneOwner
  <2>5. /\ IoWrite \/ ProgramWrite => DataRead(w) /\ ~DataWrite(w)
        /\ IoRead => DataWrite(w) /\ ~DataRead(w)
    BY <2>2 DEF IoRead, IoWrite, ProgramWrite, DataRead, DataWrite, WordOnDataBus,
                OneOwner
  <2>6. Owner \in {"control", "entry"} => ~DataRead(w) /\ ~DataWrite(w)
    BY <2>2, <2>3 DEF DataRead, DataWrite, WordOnDataBus, OneOwner
  <2>7. DataRead(w) \/ DataWrite(w) =>
          DataAddress(w) < RamWords \/ ~InstructionValid(w)
    <3>1. CASE Owner \in {"table", "io"}
      BY <2>2, <2>3, <3>1 DEF DataAddress, Accepted, OneOwner
    <3>2. CASE Owner = "computed"
      <4>1. DataAddress(w) = 0
        BY <2>2, <2>3, <3>2 DEF DataAddress, OneOwner
      <4> QED BY <4>1, Widths
    <3>3. CASE Owner = "issue"
      BY <2>2, <2>3, <3>3 DEF InstructionValid, WordValid, DataRead, DataWrite,
                              WordOnDataBus, DataAddressed, MemoryOps, OneOwner
    <3>4. CASE Owner \in {"control", "entry"}
      BY <2>6, <3>4
    <3> QED BY <3>1, <3>2, <3>3, <3>4 DEF Owner
  <2> QED BY <2>4, <2>5, <2>6, <2>7
<1> QED BY <1>1, CoreInvariant, PTL
=============================================================================
