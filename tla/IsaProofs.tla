----------------------------- MODULE IsaProofs ------------------------------
(***************************************************************************)
(* The core gives each word the effect the reference model gives it, for   *)
(* every width, program and schedule of the pins.                          *)
(***************************************************************************)
EXTENDS CoreProofs

-----------------------------------------------------------------------------
\* The two specifications use the same datapath.

LEMMA SameClasses ==
  /\ Abstract!OneCycleOps = OneCycleOps /\ Abstract!MemoryOps = MemoryOps
  /\ Abstract!DmovOps = DmovOps /\ Abstract!StoreOps = StoreOps
  /\ Abstract!ControlOps = ControlOps /\ Abstract!ComputedOps = ComputedOps
  /\ Abstract!IoOps = IoOps /\ Abstract!TableOps = TableOps
  /\ Abstract!MpyOps = MpyOps /\ Abstract!RamWords = RamWords
BY DEF Abstract!OneCycleOps, OneCycleOps, Abstract!MemoryOps, MemoryOps,
       Abstract!DmovOps, DmovOps, Abstract!StoreOps, StoreOps, Abstract!LoadOps,
       LoadOps, Abstract!InherentOps, InherentOps, Abstract!ControlOps, ControlOps,
       Abstract!AccumulatorBranches, AccumulatorBranches, Abstract!ComputedOps,
       ComputedOps, Abstract!IoOps, IoOps, Abstract!TableOps, TableOps,
       Abstract!MpyOps, MpyOps, Abstract!RamWords, RamWords

LEMMA SameAddress ==
  ASSUME NEW w, NEW r
  PROVE  Abstract!EffectiveAddress(w, r) = EffectiveAddress(w, r)
BY DEF Abstract!EffectiveAddress, EffectiveAddress

LEMMA SameStack ==
  ASSUME NEW s, NEW a
  PROVE  /\ Abstract!Push(s, a) = Push(s, a)
         /\ Abstract!Pop(s) = Pop(s)
         /\ Abstract!TablePass(s) = TablePass(s)
BY DEF Abstract!Push, Push, Abstract!Pop, Pop, Abstract!TablePass, TablePass,
       Abstract!Levels, Levels

LEMMA SameCounter ==
  ASSUME NEW v, NEW inc, NEW dec
  PROVE  Abstract!Counter(v, inc, dec) = Counter(v, inc, dec)
BY DEF Abstract!Counter, Counter

LEMMA SameExecution ==
  ASSUME NEW w, NEW r, NEW d, NEW mask
  PROVE  /\ Abstract!ExecReg(w, r, d) = ExecReg(w, r, d)
         /\ Abstract!StoreValue(w, r, mask, d) = StoreValue(w, r, mask, d)
BY DEF Abstract!AccMod, AccMod, Abstract!High, High, Abstract!Low, Low,
       Abstract!Join, Join, Abstract!NegAcc, NegAcc, Abstract!Signed, Signed,
       Abstract!MaxAcc, MaxAcc, Abstract!MinAcc, MinAcc, Abstract!AddSub,
       AddSub, Abstract!AddUnsigned, AddUnsigned, Abstract!SubUnsigned,
       SubUnsigned, Abstract!SubConditional, SubConditional, Abstract!AbsAcc,
       AbsAcc, Abstract!Product, Product, Abstract!ShiftIn, ShiftIn,
       Abstract!ShiftOut, ShiftOut, Abstract!Counter, Counter,
       Abstract!StatusWord, StatusWord, Abstract!BitSet, BitSet,
       Abstract!Stepped, Stepped, Abstract!StoreValue, StoreValue,
       Abstract!AluResult, AluResult, Abstract!SteppedRegisters,
       SteppedRegisters, Abstract!ArNext, ArNext, Abstract!ArpNext, ArpNext,
       Abstract!ExecReg, ExecReg, Abstract!MemoryOps, MemoryOps,
       Abstract!LoadOps, LoadOps, Abstract!StoreOps, StoreOps,
       Abstract!DmovOps, DmovOps

LEMMA SameBranches ==
  ASSUME NEW op, NEW r, NEW bio
  PROVE  /\ Abstract!BranchTaken(op, r, bio) = BranchTaken(op, r, bio)
         /\ Abstract!BranchReg(op, r) = BranchReg(op, r)
BY DEF Abstract!BranchTaken, BranchTaken, Abstract!BranchReg, BranchReg,
       Abstract!AccumulatorTaken, AccumulatorTaken, Abstract!NegAcc, NegAcc,
       Abstract!AccMod, AccMod, Abstract!Counter, Counter

-----------------------------------------------------------------------------
\* Where the two write a computation differently.

LEMMA SameRegisters ==
  ASSUME NEW w, NEW r \in Registers, NEW d \in Value
  PROVE  Abstract!IsaReg(w, r, d) = ExecReg(w, r, d)
<1>1. Abstract!ExecReg(w, r, d) = ExecReg(w, r, d)
  BY SameExecution
<1>2. \A a, b, sub, ovm : Abstract!AddSub(a, b, sub, ovm) = AddSub(a, b, sub, ovm)
  BY DEF Abstract!AddSub, AddSub, Abstract!AccMod, AccMod, Abstract!NegAcc, NegAcc,
         Abstract!MaxAcc, MaxAcc, Abstract!MinAcc, MinAcc
<1>3. CASE w.op \in {"ADDS", "SUBS"}
  <2> DEFINE sum == AddSub(r.acc, d, w.op = "SUBS", r.ovm)
  <2>1. AluResult(w, r, d) = sum
    BY <1>3, UnsignedSame, RegisterTypes DEF AluResult
  <2>2. ExecReg(w, r, d).acc = sum.v /\ ExecReg(w, r, d).ov = (r.ov \/ sum.ov)
    BY <1>3, <2>1 DEF ExecReg
  <2> HIDE DEF sum
  <2>3. [ExecReg(w, r, d) EXCEPT !.acc = sum.v, !.ov = r.ov \/ sum.ov]
          = ExecReg(w, r, d)
    <3> DEFINE x == ExecReg(w, r, d)
    <3>1. x = [acc |-> x.acc, t |-> x.t, p |-> x.p, ar |-> x.ar, arp |-> x.arp,
               dp |-> x.dp, ov |-> x.ov, ovm |-> x.ovm]
      BY DEF ExecReg
    <3>2. x.acc = sum.v /\ x.ov = (r.ov \/ sum.ov)
      BY <2>2
    <3> HIDE DEF x
    <3>3. [x EXCEPT !.acc = x.acc, !.ov = x.ov] = x
      BY <3>1
    <3> QED BY <3>2, <3>3 DEF x
  <2> QED BY <1>1, <1>2, <1>3, <2>3 DEF Abstract!IsaReg, sum
<1>4. CASE w.op \notin {"ADDS", "SUBS"}
  BY <1>1, <1>4 DEF Abstract!IsaReg
<1> QED BY <1>3, <1>4

\* The core reads the data memory at address 0 for a word without an operand,
\* the reference model reads nothing.
LEMMA InherentIgnores ==
  ASSUME NEW w, w.op \in InherentOps, NEW r, NEW d, NEW e
  PROVE  ExecReg(w, r, d) = ExecReg(w, r, e)
<1>1. AluResult(w, r, d) = AluResult(w, r, e)
  BY DEF AluResult, InherentOps
<1>2. ArNext(w, r, d) = ArNext(w, r, e) /\ ArpNext(w, r, d) = ArpNext(w, r, e)
  BY DEF ArNext, ArpNext, InherentOps, MemoryOps, LoadOps, StoreOps, DmovOps
<1>3. w.op \notin {"MPY", "LT", "LTA", "LTD", "LST", "LDP"}
  BY DEF InherentOps
<1> QED BY <1>1, <1>2, <1>3 DEF ExecReg

-----------------------------------------------------------------------------
\* The address of the executing instruction.

LEMMA PcBack ==
  ASSUME NEW a \in Addr
  PROVE  /\ (NextAddr(a) + PcMod - 1) % PcMod = a
         /\ NextAddr((a + PcMod - 1) % PcMod) = a
<1>1. PcMod \in Nat \ {0} /\ a \in Nat /\ a <= PcMod - 1
  BY Widths DEF Addr
<1>2. \A x \in Int : 0 <= x /\ x < PcMod => x % PcMod = x
  BY <1>1
<1>3. \A x \in Int : PcMod <= x /\ x < 2 * PcMod => x % PcMod = x - PcMod
  BY <1>1
<1>4. NextAddr(a) = IF a = PcMod - 1 THEN 0 ELSE a + 1
  BY <1>1, <1>2, <1>3 DEF NextAddr
<1>5. (a + PcMod - 1) % PcMod = IF a = 0 THEN PcMod - 1 ELSE a - 1
  BY <1>1, <1>2, <1>3
<1>6. (NextAddr(a) + PcMod - 1) % PcMod = a
  BY <1>1, <1>2, <1>3, <1>4
<1>7. NextAddr((a + PcMod - 1) % PcMod) = a
  BY <1>1, <1>2, <1>3, <1>5 DEF NextAddr
<1> QED BY <1>6, <1>7

LEMMA Classes ==
  ASSUME NEW op
  PROVE  /\ op \in OneCycleOps => /\ op \notin ControlOps \cup ComputedOps
                                  /\ op \notin IoOps \cup TableOps
         /\ op \in ControlOps => /\ op \notin OneCycleOps \cup ComputedOps
                                 /\ op \notin IoOps \cup TableOps
         /\ op \in ComputedOps => /\ op \notin OneCycleOps \cup ControlOps
                                  /\ op \notin IoOps \cup TableOps
         /\ op \in IoOps => /\ op \notin OneCycleOps \cup ControlOps
                            /\ op \notin ComputedOps \cup TableOps
         /\ op \in TableOps => /\ op \notin OneCycleOps \cup ControlOps
                               /\ op \notin ComputedOps \cup IoOps
         /\ op = "none" => op \notin OneCycleOps \cup ControlOps \cup ComputedOps
                                    \cup IoOps \cup TableOps
BY DEF OneCycleOps, MemoryOps, LoadOps, StoreOps, DmovOps, InherentOps, ControlOps,
       AccumulatorBranches, ComputedOps, IoOps, TableOps

\* What the core's registers say about the owner, and what the address of the
\* instruction is when nothing, or something, is pending.
LEMMA Pending ==
  ASSUME OneOwner
  PROVE  /\ Owner \in {"issue", "entry"} <=>
              cmp.op = "none" /\ ctl = "none" /\ tbl.op = "none" /\ io.op = "none"
         /\ Owner \in {"issue", "entry"} => ArchPc = pc
         /\ Owner \notin {"issue", "entry"} => ArchPc = (pc + PcMod - 1) % PcMod
BY DEF Owner, OneOwner, ArchPc

\* A retirement moves the interrupt sequence as the reference model does.
LEMMA SameInterrupt ==
  ASSUME OneOwner, Owner # "entry", NEW w, NEW irq, InterruptUpdate(w, irq),
         Retiring(w) # "none", intm' = IntmNext(Retiring(w), intm)
  PROVE  Abstract!AdvanceInterrupt(Retiring(w), irq)
<1>1. ientry = FALSE
  BY DEF Owner, OneOwner
<1> QED BY <1>1, SameClasses DEF InterruptUpdate, Abstract!AdvanceInterrupt

-----------------------------------------------------------------------------
\* Each edge of the core, in the reference model's terms.

\* A word that may issue reads and writes where the reference model says.
LEMMA IssueOperand ==
  ASSUME CoreTypeOK, OneOwner, NEW w \in WordType, NEW d, Owner = "issue",
         InstructionValid(w), w.op \in OneCycleOps
  PROVE  /\ w.op \in MemoryOps =>
              /\ Abstract!Address(w) < RamWords
              /\ ReadData(w) = ram[Abstract!Address(w)]
         /\ w.op \in DmovOps => Abstract!Address(w) + 1 < RamWords
         /\ RamNext(w, d) =
              IF w.op \in StoreOps
                THEN [ram EXCEPT ![IF w.op \in DmovOps
                                     THEN Abstract!Address(w) + 1
                                     ELSE Abstract!Address(w)]
                        = StoreValue(w, reg, intm, ReadData(w))]
                ELSE ram
<1> DEFINE a == EffectiveAddress(w, reg)
<1>1. Abstract!Address(w) = a
  BY SameAddress DEF Abstract!Address
<1>2. WordValid(w) /\ ~ientry /\ cmp.op = "none" /\ ctl = "none" /\ tbl.op = "none"
        /\ io.op = "none" /\ xfer = FALSE
  BY Pending, OwnerFacts DEF InstructionValid, OneOwner, CoreTypeOK
<1>3. w.op \in MemoryOps => DataAddress(w) = a
  BY <1>2 DEF DataAddress, DataAddressed
<1>4. a \in Nat
  BY AddressType DEF CoreTypeOK
<1> HIDE DEF a
<1>5. w.op \in MemoryOps => a < RamWords
  BY <1>2, <1>3 DEF WordValid, DataAddressed
<1>6. w.op \in DmovOps => a + 1 < RamWords /\ (a + 1) % DaMod = a + 1
  <2>1. DmovOps \subseteq MemoryOps
    BY DEF MemoryOps, StoreOps
  <2>2. w.op \in DmovOps => a + 1 < RamWords
    BY <1>2, <1>3, <2>1 DEF WordValid
  <2>3. RamWords \in Nat /\ DaMod \in Nat /\ RamWords <= DaMod
    BY WidthAssumption DEF RamWords
  <2> QED BY <1>4, <2>2, <2>3
<1>7. w.op \in MemoryOps => ReadData(w) = ram[a]
  BY <1>3, <1>5 DEF ReadData
<1>8. DataWrite(w) <=> w.op \in StoreOps
  BY <1>2 DEF DataWrite, WordOnDataBus
<1>9. w.op \in StoreOps => WriteAddress(w) = IF w.op \in DmovOps THEN a + 1 ELSE a
  <2>1. w.op \in StoreOps => w.op \in MemoryOps
    BY DEF MemoryOps
  <2> QED BY <1>2, <1>3, <1>6, <2>1 DEF WriteAddress
<1>10. WriteData(w, d) = StoreValue(w, reg, intm, ReadData(w))
  BY <1>2 DEF WriteData
<1>11. w.op \in StoreOps => WriteAddress(w) < RamWords
  <2>1. w.op \in StoreOps => w.op \in MemoryOps
    BY DEF MemoryOps
  <2> QED BY <1>5, <1>6, <1>9, <2>1
<1>12. RamNext(w, d) = IF w.op \in StoreOps
         THEN [ram EXCEPT ![IF w.op \in DmovOps THEN a + 1 ELSE a]
                 = StoreValue(w, reg, intm, ReadData(w))]
         ELSE ram
  BY <1>8, <1>9, <1>10, <1>11 DEF RamNext
<1> QED BY <1>1, <1>5, <1>6, <1>7, <1>12

LEMMA OneCycleEffect ==
  ASSUME CoreInv, NEW w \in WordType, NEW irq, NEW d \in Value, Issue(w, irq, d),
         w.op \in OneCycleOps
  PROVE  Abstract!OneCycle(w, irq)
<1> DEFINE a   == Abstract!Address(w)
           dat == IF w.op \in MemoryOps THEN ram[a] ELSE 0
           to  == IF w.op \in DmovOps THEN a + 1 ELSE a
<1>1. CoreTypeOK /\ OneOwner /\ Owner = "issue" /\ InstructionValid(w)
  BY DEF CoreInv, Issue, Clocked
<1>2. /\ w.op \in MemoryOps => a < RamWords /\ ReadData(w) = ram[a]
      /\ w.op \in DmovOps => a + 1 < RamWords
      /\ RamNext(w, d) = IF w.op \in StoreOps
           THEN [ram EXCEPT ![to] = StoreValue(w, reg, intm, ReadData(w))] ELSE ram
  BY <1>1, IssueOperand
<1>3. ReadData(w) \in Value /\ reg \in Registers /\ 0 \in Value
  BY <1>1, OutputTypes, Widths DEF CoreTypeOK
<1>4. Retiring(w) = w.op /\ w.op # "none"
  BY <1>1, Classes DEF Retiring
<1>5. /\ w.op \notin ControlOps /\ w.op \notin ComputedOps
      /\ w.op \notin IoOps /\ w.op \notin TableOps
  BY Classes
<1>6. /\ reg' = ExecReg(w, reg, ReadData(w)) /\ intm' = IntmNext(w.op, intm)
      /\ pc' = NextAddr(pc) /\ stack' = stack /\ ram' = RamNext(w, d)
      /\ InterruptUpdate(w, irq)
      /\ ctl' = ctl /\ cmp' = cmp /\ io' = io /\ tbl' = tbl
  BY <1>5 DEF Issue, Clocked
<1>7. reg' = Abstract!IsaReg(w, reg, dat)
  <2>1. CASE w.op \in MemoryOps
    BY <1>2, <1>3, <1>6, <2>1, SameRegisters
  <2>2. CASE w.op \notin MemoryOps
    <3>1. w.op \in InherentOps
      BY <2>2 DEF OneCycleOps
    <3>2. ExecReg(w, reg, ReadData(w)) = ExecReg(w, reg, 0)
      BY <3>1, InherentIgnores
    <3> QED BY <1>3, <1>6, <2>2, <3>2, SameRegisters
  <2> QED BY <2>1, <2>2
<1>8. ram' = IF w.op \in StoreOps
               THEN [ram EXCEPT ![to] = Abstract!StoreValue(w, reg, intm, dat)]
               ELSE ram
  <2>1. w.op \in StoreOps => w.op \in MemoryOps
    BY DEF MemoryOps
  <2>2. w.op \in MemoryOps => StoreValue(w, reg, intm, ReadData(w))
                                = Abstract!StoreValue(w, reg, intm, dat)
    BY <1>2, SameExecution
  <2> QED BY <1>2, <1>6, <2>1, <2>2
<1>9. ArchPc = pc /\ ArchPc' = pc'
  <2>1. ArchPc = pc
    BY <1>1, Pending
  <2>2. cmp.op = "none" /\ ctl = "none" /\ tbl.op = "none" /\ io.op = "none"
    BY <1>1, Pending
  <2>3. (Owner \in {"issue", "entry"})'
    BY <1>6, <2>2 DEF Owner
  <2> QED BY <2>1, <2>3 DEF ArchPc
<1>10. ArchPc' = Abstract!Next1(ArchPc)
  BY <1>6, <1>9 DEF Abstract!Next1, NextAddr
<1>11. Abstract!AdvanceInterrupt(w.op, irq)
  BY <1>1, <1>4, <1>6, SameInterrupt
<1>12. intm' = Abstract!IntmNext(w.op, intm)
  BY <1>6 DEF Abstract!IntmNext, IntmNext
<1> HIDE DEF a, dat, to
<1>13. w.op \in Abstract!OneCycleOps
         /\ (w.op \in Abstract!MemoryOps => a < Abstract!RamWords)
         /\ (w.op \in Abstract!DmovOps => a + 1 < Abstract!RamWords)
  BY <1>2, SameClasses
<1> QED BY <1>6, <1>7, <1>8, <1>10, <1>11, <1>12, <1>13, SameClasses
        DEF Abstract!OneCycle, a, dat, to

LEMMA ControlEffect ==
  ASSUME CoreInv, NEW w \in WordType, NEW bio, NEW irq, NEW d \in Value,
         FinishControl(w, bio, irq, d)
  PROVE  Abstract!TwoWord([op |-> ctl], w, bio, irq)
<1>1. CoreTypeOK /\ OneOwner /\ Owner = "control" /\ InstructionValid(w)
  BY DEF CoreInv, FinishControl, Clocked
<1>2. /\ ~ientry /\ cmp.op = "none" /\ tbl.op = "none" /\ io.op = "none"
      /\ ctl \in ControlOps /\ ctl # "none"
  BY <1>1, OwnerFacts DEF OneOwner, CoreTypeOK
<1>3. w.canon
  BY <1>1 DEF InstructionValid
<1>4. /\ pc' = IF BranchTaken(ctl, reg, bio) THEN w.addr ELSE NextAddr(pc)
      /\ reg' = BranchReg(ctl, reg)
      /\ stack' = IF ctl = "CALL" THEN Push(stack, NextAddr(pc)) ELSE stack
      /\ intm' = intm /\ ctl' = "none" /\ cmp' = cmp /\ io' = io /\ tbl' = tbl
      /\ InterruptUpdate(w, irq)
  BY DEF FinishControl, Clocked
<1>5. ram' = ram
  <2>1. DataWrite(w) = FALSE
    BY <1>1, <1>2 DEF DataWrite, WordOnDataBus, OneOwner
  <2> QED BY <2>1 DEF RamNext, FinishControl, Clocked
<1>6. Abstract!Next1(Abstract!Next1(ArchPc)) = NextAddr(pc)
  <2>1. ArchPc = (pc + PcMod - 1) % PcMod
    BY <1>1, Pending
  <2>2. NextAddr(ArchPc) = pc
    BY <1>1, <2>1, PcBack DEF CoreTypeOK
  <2> QED BY <2>2 DEF Abstract!Next1, NextAddr
<1>7. ArchPc' = pc'
  <2>1. (Owner \in {"issue", "entry"})'
    BY <1>2, <1>4 DEF Owner
  <2> QED BY <2>1 DEF ArchPc
<1>8. Retiring(w) = ctl /\ ctl # "none" /\ IntmNext(ctl, intm) = intm
  <2>1. ctl \notin {"DINT", "EINT", "none"}
    BY <1>2 DEF ControlOps, AccumulatorBranches
  <2> QED BY <1>1, <2>1 DEF Retiring, IntmNext
<1>9. Abstract!AdvanceInterrupt(ctl, irq)
  BY <1>1, <1>4, <1>8, SameInterrupt
<1>10. /\ Abstract!BranchTaken(ctl, reg, bio) = BranchTaken(ctl, reg, bio)
       /\ Abstract!BranchReg(ctl, reg) = BranchReg(ctl, reg)
       /\ Abstract!Push(stack, NextAddr(pc)) = Push(stack, NextAddr(pc))
  BY SameBranches, SameStack
<1> DEFINE c == [op |-> ctl]
<1>11. c.op = ctl
  OBVIOUS
<1> HIDE DEF c
<1>12. Abstract!TwoWord(c, w, bio, irq)
  BY <1>2, <1>3, <1>4, <1>5, <1>6, <1>7, <1>9, <1>10, <1>11, SameClasses
     DEF Abstract!TwoWord
<1> QED BY <1>12 DEF c

\* A discarded word that is not a store leaves the data memory alone.
LEMMA DiscardKeeps ==
  ASSUME CoreInv, NEW w \in WordType, w.op \notin StoreOps, NEW irq, NEW d \in Value,
         FinishComputed(w, irq, d)
  PROVE  ram' = ram
<1>1. ~ientry /\ tbl.op = "none" /\ io.op = "none"
  BY OwnerFacts DEF CoreInv, OneOwner, FinishComputed
<1>2. DataWrite(w) = FALSE
  BY <1>1 DEF DataWrite
<1> QED BY <1>2 DEF RamNext, FinishComputed, Clocked

LEMMA ComputedEffect ==
  ASSUME CoreInv, NEW w \in WordType, NEW irq, NEW d \in Value,
         FinishComputed(w, irq, d), ram' = ram
  PROVE  Abstract!Computed([op |-> cmp.op], irq)
<1>1. CoreTypeOK /\ OneOwner /\ CapturedCurrent /\ Owner = "computed"
        /\ InstructionValid(w)
  BY DEF CoreInv, FinishComputed, Clocked
<1>2. /\ ~ientry /\ ctl = "none" /\ tbl.op = "none" /\ io.op = "none"
      /\ cmp.op \in ComputedOps /\ cmp.op # "none"
  BY <1>1, OwnerFacts DEF OneOwner, CoreTypeOK
<1>3. /\ pc' = cmp.target /\ cmp' = NoComputed
      /\ stack' = IF cmp.op = "CALA" THEN Push(stack, cmp.ret) ELSE Pop(stack)
      /\ reg' = reg /\ intm' = intm /\ ctl' = ctl /\ io' = io /\ tbl' = tbl
      /\ InterruptUpdate(w, irq)
  BY DEF FinishComputed, Clocked
<1>4. /\ cmp.ret = pc
      /\ cmp.target = IF cmp.op = "CALA" THEN reg.acc % PcMod ELSE stack[0]
  BY <1>1, <1>2 DEF CapturedCurrent, ComputedOps
<1>6. Abstract!Next1(ArchPc) = pc
  <2>1. ArchPc = (pc + PcMod - 1) % PcMod
    BY <1>1, Pending
  <2>2. NextAddr(ArchPc) = pc
    BY <1>1, <2>1, PcBack DEF CoreTypeOK
  <2> QED BY <2>2 DEF Abstract!Next1, NextAddr
<1>7. ArchPc' = pc'
  <2>1. NoComputed.op = "none"
    BY DEF NoComputed
  <2>2. (Owner \in {"issue", "entry"})'
    BY <1>2, <1>3, <2>1 DEF Owner
  <2> QED BY <2>2 DEF ArchPc
<1>8. Retiring(w) = cmp.op /\ IntmNext(cmp.op, intm) = intm
  BY <1>1, <1>2 DEF Retiring, IntmNext, ComputedOps
<1>9. Abstract!AdvanceInterrupt(cmp.op, irq)
  BY <1>1, <1>2, <1>3, <1>8, SameInterrupt
<1>10. Abstract!Push(stack, pc) = Push(stack, pc) /\ Abstract!Pop(stack) = Pop(stack)
  BY SameStack
<1> DEFINE c == [op |-> cmp.op]
<1>11. c.op = cmp.op
  OBVIOUS
<1> HIDE DEF c
<1>12. Abstract!Computed(c, irq)
  BY <1>2, <1>3, <1>4, <1>6, <1>7, <1>9, <1>10, <1>11, SameClasses
     DEF Abstract!Computed
<1> QED BY <1>12 DEF c

\* The effect of a transfer, given the operands its instruction was issued with.
LEMMA TransferEffect ==
  ASSUME CoreInv, NEW t, t \in {io, tbl}, t.op # "none", NEW v \in WordType,
         Captured(v, t)
  PROVE  /\ Abstract!PostModify(v, reg) = TransferReg(t)
         /\ Abstract!Address(v) = t.da /\ t.da < RamWords
         /\ v.op = t.op
<1>1. CapturedCurrent /\ Accepted /\ CoreTypeOK
  BY DEF CoreInv
<1> DEFINE c == Capture(v, t.at, EffectiveAddress(v, reg))
<1>2. /\ v.op = t.op /\ EffectiveAddress(v, reg) = t.da /\ v.ind = t.ind
      /\ v.inc = t.inc /\ v.dec = t.dec /\ v.keep = t.keep /\ v.narp = t.narp
      /\ reg.arp = t.arp
  <2>1. /\ c.op = v.op /\ c.da = EffectiveAddress(v, reg) /\ c.ind = v.ind
        /\ c.inc = v.inc /\ c.dec = v.dec /\ c.keep = v.keep /\ c.narp = v.narp
        /\ c.arp = reg.arp
    BY DEF Capture
  <2>2. c = t
    BY DEF Captured
  <2> HIDE DEF c
  <2> QED BY <2>1, <2>2
<1>3. Abstract!Address(v) = t.da
  BY <1>2, SameAddress DEF Abstract!Address
<1>4. t.da < RamWords
  BY <1>1 DEF Accepted
<1>5. reg \in Registers /\ t.ind \in BOOLEAN /\ t.keep \in BOOLEAN
  BY <1>1, <1>2, WordTypes DEF CoreTypeOK
<1>6. \A x : Abstract!Counter(x, t.inc, t.dec) = Counter(x, t.inc, t.dec)
  BY SameCounter
<1>7. TransferReg(t) = Abstract!PostModify(v, reg)
  <2>1. CASE t.ind
    <3> DEFINE step == Counter(reg.ar[t.arp], t.inc, t.dec)
               next == [reg EXCEPT !.ar[t.arp] = step,
                                   !.arp = IF t.keep THEN reg.arp ELSE t.narp]
    <3>1. TransferReg(t) = next
      BY <1>5, <2>1 DEF TransferReg
    <3>2. Abstract!PostModify(v, reg)
            = [reg EXCEPT !.ar[t.arp] = Abstract!Counter(@, t.inc, t.dec),
                          !.arp = IF t.keep THEN @ ELSE t.narp]
      BY <1>2, <2>1 DEF Abstract!PostModify
    <3>3. Abstract!Counter(reg.ar[t.arp], t.inc, t.dec) = step
      BY <1>6
    <3>4. Abstract!PostModify(v, reg) = next
      BY <3>2, <3>3
    <3> QED BY <3>1, <3>4
  <2>2. CASE ~t.ind
    <3>1. TransferReg(t) = [reg EXCEPT !.ar[t.arp] = @, !.arp = @]
      BY <2>2 DEF TransferReg
    <3>2. [reg EXCEPT !.ar[t.arp] = @, !.arp = @] = reg
      BY <1>5 DEF Registers
    <3>3. Abstract!PostModify(v, reg) = reg
      BY <1>2, <2>2 DEF Abstract!PostModify
    <3> QED BY <3>1, <3>2, <3>3
  <2> QED BY <2>1, <2>2
<1> QED BY <1>2, <1>3, <1>4, <1>7

LEMMA IoEffect ==
  ASSUME CoreInv, NEW w \in WordType, NEW irq, NEW d \in Value, FinishIo(w, irq, d),
         NEW v \in WordType, Captured(v, io)
  PROVE  Abstract!Transfer(v, d, irq)
<1>1. CoreTypeOK /\ OneOwner /\ Owner = "io" /\ InstructionValid(w)
  BY DEF CoreInv, FinishIo, Clocked
<1>2. /\ ~ientry /\ cmp.op = "none" /\ ctl = "none" /\ tbl.op = "none"
      /\ io.op \in IoOps /\ io.op # "none"
  BY <1>1, OwnerFacts DEF OneOwner, CoreTypeOK
<1>3. /\ Abstract!PostModify(v, reg) = TransferReg(io)
      /\ Abstract!Address(v) = io.da /\ io.da < RamWords /\ v.op = io.op
  BY <1>2, TransferEffect
<1>4. /\ reg' = TransferReg(io) /\ ram' = RamNext(w, d) /\ pc' = pc /\ stack' = stack
      /\ intm' = intm /\ io' = NoTransfer /\ cmp' = cmp /\ ctl' = ctl /\ tbl' = tbl
      /\ InterruptUpdate(w, irq)
  BY DEF FinishIo, Clocked
<1>5. ram' = IF v.op \in {"IN", "TBLR"} THEN [ram EXCEPT ![io.da] = d] ELSE ram
  <2>1. DataWrite(w) <=> io.op = "IN"
    BY <1>2 DEF DataWrite, WordOnDataBus
  <2>2. WriteAddress(w) = io.da /\ WriteData(w, d) = d
    BY <1>2 DEF WriteAddress, DataAddress, WriteData
  <2>3. io.op # "TBLR"
    BY <1>2 DEF IoOps
  <2> QED BY <1>1, <1>3, <1>4, <2>1, <2>2, <2>3 DEF RamNext
<1>6. Abstract!Next1(ArchPc) = pc
  <2>1. ArchPc = (pc + PcMod - 1) % PcMod
    BY <1>1, Pending
  <2>2. NextAddr(ArchPc) = pc
    BY <1>1, <2>1, PcBack DEF CoreTypeOK
  <2> QED BY <2>2 DEF Abstract!Next1, NextAddr
<1>7. ArchPc' = pc'
  <2>1. NoTransfer.op = "none"
    BY DEF NoTransfer
  <2>2. (Owner \in {"issue", "entry"})'
    BY <1>2, <1>4, <2>1 DEF Owner
  <2> QED BY <2>2 DEF ArchPc
<1>8. Retiring(w) = io.op /\ IntmNext(io.op, intm) = intm
  BY <1>1, <1>2 DEF Retiring, IntmNext, IoOps
<1>9. Abstract!AdvanceInterrupt(io.op, irq)
  BY <1>1, <1>2, <1>4, <1>8, SameInterrupt
<1>10. v.op \in IoOps /\ v.op \notin TableOps
  BY <1>2, <1>3, Classes
<1> QED BY <1>3, <1>4, <1>5, <1>6, <1>7, <1>9, <1>10, SameClasses
        DEF Abstract!Transfer

LEMMA TableEffect ==
  ASSUME CoreInv, NEW w \in WordType, NEW irq, NEW d \in Value, FinishTable(w, irq, d),
         NEW v \in WordType, Captured(v, tbl)
  PROVE  Abstract!Transfer(v, w.data, irq)
<1>1. CoreTypeOK /\ OneOwner /\ Owner = "table" /\ xfer /\ InstructionValid(w)
  BY DEF CoreInv, FinishTable, Clocked
<1>2. /\ ~ientry /\ cmp.op = "none" /\ ctl = "none" /\ io.op = "none"
      /\ tbl.op \in TableOps /\ tbl.op # "none"
  BY <1>1, OwnerFacts DEF OneOwner, CoreTypeOK
<1>3. /\ Abstract!PostModify(v, reg) = TransferReg(tbl)
      /\ Abstract!Address(v) = tbl.da /\ tbl.da < RamWords /\ v.op = tbl.op
  BY <1>2, TransferEffect
<1>4. /\ reg' = TransferReg(tbl) /\ ram' = RamNext(w, d) /\ pc' = pc
      /\ stack' = TablePass(stack) /\ intm' = intm /\ tbl' = NoTransfer
      /\ cmp' = cmp /\ ctl' = ctl /\ io' = io
      /\ InterruptUpdate(w, irq)
  BY DEF FinishTable, Clocked
<1>5. ram' = IF v.op \in {"IN", "TBLR"} THEN [ram EXCEPT ![tbl.da] = w.data] ELSE ram
  <2>1. DataWrite(w) <=> tbl.op = "TBLR"
    BY <1>1, <1>2 DEF DataWrite, WordOnDataBus
  <2>2. WriteAddress(w) = tbl.da
    BY <1>2 DEF WriteAddress, DataAddress
  <2>3. tbl.op = "TBLR" => WriteData(w, d) = w.data
    BY <1>1 DEF WriteData
  <2>4. tbl.op # "IN"
    BY <1>2 DEF TableOps
  <2> QED BY <1>1, <1>3, <1>4, <2>1, <2>2, <2>3, <2>4 DEF RamNext
<1>6. Abstract!Next1(ArchPc) = pc
  <2>1. ArchPc = (pc + PcMod - 1) % PcMod
    BY <1>1, Pending
  <2>2. NextAddr(ArchPc) = pc
    BY <1>1, <2>1, PcBack DEF CoreTypeOK
  <2> QED BY <2>2 DEF Abstract!Next1, NextAddr
<1>7. ArchPc' = pc'
  <2>1. NoTransfer.op = "none"
    BY DEF NoTransfer
  <2>2. (Owner \in {"issue", "entry"})'
    BY <1>2, <1>4, <2>1 DEF Owner
  <2> QED BY <2>2 DEF ArchPc
<1>8. Retiring(w) = tbl.op /\ IntmNext(tbl.op, intm) = intm
  BY <1>1, <1>2 DEF Retiring, IntmNext, TableOps
<1>9. Abstract!AdvanceInterrupt(tbl.op, irq)
  BY <1>1, <1>2, <1>4, <1>8, SameInterrupt
<1>10. Abstract!TablePass(stack) = TablePass(stack)
  BY SameStack
<1> QED BY <1>2, <1>3, <1>4, <1>5, <1>6, <1>7, <1>9, <1>10, SameClasses
        DEF Abstract!Transfer

\* The first edge of an instruction of several cycles, and the second of a table
\* instruction, are invisible.
LEMMA HiddenEdges ==
  ASSUME CoreInv, NEW w \in WordType, NEW irq, NEW d \in Value,
         \/ Issue(w, irq, d) /\ w.op \notin OneCycleOps
         \/ StartTableTransfer(w, irq, d)
  PROVE  Hidden(irq)
<1>1. CoreTypeOK /\ OneOwner /\ InstructionValid(w)
  BY DEF CoreInv, Issue, StartTableTransfer, Clocked
<1>2. CASE Issue(w, irq, d) /\ w.op \notin OneCycleOps
  <2>1. Owner = "issue"
    BY <1>2 DEF Issue
  <2>2. /\ ~ientry /\ cmp.op = "none" /\ ctl = "none" /\ tbl.op = "none"
        /\ io.op = "none" /\ xfer = FALSE
    BY <1>1, <2>1, OwnerFacts DEF OneOwner, CoreTypeOK
  <2>3. w.op \in ControlOps \cup ComputedOps \cup IoOps \cup TableOps
    BY <1>1, <1>2, <2>1 DEF InstructionValid, WordValid, Ops
  <2>4. Retiring(w) = "none" /\ w.op # "none" /\ w.op \notin {"DINT", "EINT"}
    BY <1>1, <1>2, <2>1, <2>3 DEF Retiring, ControlOps, AccumulatorBranches,
                                  ComputedOps, IoOps, TableOps
  <2>5. w.op \notin StoreOps
    BY <1>2 DEF OneCycleOps, MemoryOps
  <2>6. DataWrite(w) = FALSE
    BY <2>2, <2>5 DEF DataWrite
  <2>7. ram' = ram /\ reg' = reg /\ intm' = intm /\ stack' = stack
        /\ ipend' = (ipend \/ irq) /\ idelay' = idelay /\ ientry' = ientry
        /\ pc' = NextAddr(pc)
    BY <1>2, <2>4, <2>6 DEF Issue, Clocked, RamNext, InterruptUpdate, IntmNext
  <2>8. cmp'.op # "none" \/ ctl' # "none" \/ tbl'.op # "none" \/ io'.op # "none"
    <3>1. w.op \in ControlOps => ctl' = w.op
      BY <1>2 DEF Issue
    <3>2. w.op \in ComputedOps => cmp'.op = w.op
      BY <1>2 DEF Issue, CaptureComputed
    <3>3. w.op \in IoOps => io'.op = w.op
      BY <1>2 DEF Issue, Capture
    <3>4. w.op \in TableOps => tbl'.op = w.op
      BY <1>2 DEF Issue, Capture
    <3> QED BY <2>3, <2>4, <3>1, <3>2, <3>3, <3>4
  <2>9. (Owner \notin {"issue", "entry"})'
    BY <2>2, <2>7, <2>8 DEF Owner
  <2>10. ArchPc = pc /\ ArchPc' = pc
    <3>1. ArchPc = pc
      BY <1>1, <2>1, Pending
    <3>2. ArchPc' = (NextAddr(pc) + PcMod - 1) % PcMod
      BY <2>7, <2>9 DEF ArchPc
    <3> QED BY <1>1, <3>1, <3>2, PcBack DEF CoreTypeOK
  <2> QED BY <2>7, <2>10 DEF Hidden
<1>3. CASE StartTableTransfer(w, irq, d)
  <2>1. Owner = "table" /\ ~xfer
    BY <1>3 DEF StartTableTransfer
  <2>2. /\ ~ientry /\ cmp.op = "none" /\ ctl = "none" /\ tbl.op # "none"
        /\ io.op = "none"
    BY <1>1, <2>1, OwnerFacts DEF OneOwner
  <2>3. Retiring(w) = "none" /\ DataWrite(w) = FALSE
    BY <2>1, <2>2 DEF Retiring, DataWrite, WordOnDataBus
  <2>4. ram' = ram /\ reg' = reg /\ intm' = intm /\ stack' = stack
        /\ ipend' = (ipend \/ irq) /\ idelay' = idelay /\ ientry' = ientry
        /\ pc' = pc /\ tbl' = tbl /\ cmp' = cmp /\ ctl' = ctl /\ io' = io
    BY <1>3, <2>3 DEF StartTableTransfer, Clocked, RamNext, InterruptUpdate
  <2>5. ArchPc' = ArchPc
    BY <2>4 DEF ArchPc, Owner
  <2> QED BY <2>4, <2>5 DEF Hidden
<1> QED BY <1>2, <1>3

LEMMA EffectOfWord ==
  ASSUME CoreInv, NEW w \in WordType, NEW bio, NEW irq, NEW d \in Value,
         Owner = "computed" => w.op \notin StoreOps
  PROVE  IsaEffect(w, bio, irq, d)
<1>1. Issue(w, irq, d) /\ w.op \in OneCycleOps => Abstract!OneCycle(w, irq)
  BY OneCycleEffect
<1>2. Issue(w, irq, d) /\ w.op \notin OneCycleOps => Hidden(irq)
  BY HiddenEdges
<1>3. StartTableTransfer(w, irq, d) => Hidden(irq)
  BY HiddenEdges
<1>4. FinishControl(w, bio, irq, d) => Abstract!TwoWord([op |-> ctl], w, bio, irq)
  BY ControlEffect
<1>5. FinishComputed(w, irq, d) => Abstract!Computed([op |-> cmp.op], irq)
  BY ComputedEffect, DiscardKeeps DEF FinishComputed
<1>6. \A v \in Words : FinishIo(w, irq, d) /\ Captured(v, io) => Abstract!Transfer(v, d, irq)
  BY IoEffect, WordAssumption
<1>7. \A v \in Words : FinishTable(w, irq, d) /\ Captured(v, tbl)
                        => Abstract!Transfer(v, w.data, irq)
  BY TableEffect, WordAssumption
<1> QED BY <1>1, <1>2, <1>3, <1>4, <1>5, <1>6, <1>7 DEF IsaEffect

(* The standalone core gives each word the reference model's effect.       *)
THEOREM CoreRetiresAsIsa == CoreSpec => RetiresAsIsa
<1>1. ASSUME CoreInv
      PROVE  \A w \in Words, bio, irq \in BOOLEAN, d \in IoValues :
               (Owner = "computed" => w.op \notin StoreOps) => IsaEffect(w, bio, irq, d)
  BY <1>1, EffectOfWord, WordAssumption, CoreAssumption
<1> QED BY <1>1, CoreInvariant, PTL DEF RetiresAsIsa

-----------------------------------------------------------------------------
\* The standalone core implements the reference model.

\* An invisible edge latches a request or is a stutter of the reference model.
LEMMA HiddenIsStutter ==
  ASSUME CoreTypeOK, ~ientry, NEW irq \in BOOLEAN, Hidden(irq)
  PROVE  [Abstract!Next]_(Abstract!isaVars)
<1>1. CASE irq
  BY <1>1 DEF Hidden, Abstract!Next, Abstract!Latch
<1>2. CASE ~irq
  <2>1. ipend' = ipend
    BY <1>2 DEF Hidden, CoreTypeOK
  <2> QED BY <2>1 DEF Hidden, Abstract!isaVars
<1> QED BY <1>1, <1>2

LEMMA QuietIsStutter ==
  ASSUME UNCHANGED coreVars
  PROVE  UNCHANGED Abstract!isaVars
BY DEF coreVars, irqVars, pendVars, Abstract!isaVars, ArchPc, Owner

LEMMA ResetIsReset ==
  ASSUME CoreReset \/ CoreInitialize
  PROVE  Abstract!Reset \/ Abstract!Initialize
<1>1. ArchPc' = 0
  BY DEF CoreReset, CoreInitialize, ArchPc, Owner, NoComputed, NoTransfer
<1>2. Abstract!ZeroRegisters = ZeroRegisters
  BY DEF Abstract!ZeroRegisters, ZeroRegisters, Abstract!Bit, Bit
<1>3. Abstract!Levels = Levels
  BY DEF Abstract!Levels, Levels
<1> QED BY <1>1, <1>2, <1>3
        DEF CoreReset, CoreInitialize, Abstract!Reset, Abstract!Initialize

LEMMA InitIsIsa ==
  ASSUME CoreInit
  PROVE  Abstract!Init
<1>1. ArchPc = 0
  BY DEF CoreInit, ArchPc, Owner, NoComputed, NoTransfer
<1>2. Abstract!ZeroRegisters = ZeroRegisters
  BY DEF Abstract!ZeroRegisters, ZeroRegisters, Abstract!Bit, Bit
<1>3. Abstract!Levels = Levels
  BY DEF Abstract!Levels, Levels
<1> QED BY <1>1, <1>2, <1>3 DEF CoreInit, Abstract!Init

\* What is pending was captured from a word of the program, whose operands the
\* live registers still give.
PendingFromProgram ==
  /\ ctl # "none"    => \E v \in Words : v.op = ctl
  /\ cmp.op # "none" => \E v \in Words : v.op = cmp.op
  /\ io.op # "none"  => \E v \in Words : Captured(v, io)
  /\ tbl.op # "none" => \E v \in Words : Captured(v, tbl)

LEMMA IssueFromProgram ==
  ASSUME CoreInv, PendingFromProgram, NEW w \in Words, NEW irq, NEW d,
         Issue(w, irq, d)
  PROVE  PendingFromProgram'
<1>1. Owner = "issue" /\ OneOwner /\ CoreTypeOK
  BY DEF Issue, CoreInv
<1>2. ~ientry /\ cmp.op = "none" /\ ctl = "none" /\ tbl.op = "none" /\ io.op = "none"
  BY <1>1, OwnerFacts, Pending
<1>3. (ctl # "none" => \E v \in Words : v.op = ctl)'
  BY <1>2 DEF Issue
<1>4. (cmp.op # "none" => \E v \in Words : v.op = cmp.op)'
  BY <1>2 DEF Issue, CaptureComputed
<1>5. w.op \in IoOps \cup TableOps => DataAddress(w) = EffectiveAddress(w, reg)
  BY <1>2 DEF DataAddress, DataAddressed
<1>6. w.op \in IoOps \cup TableOps =>
        reg' = reg /\ EffectiveAddress(w, reg)' = EffectiveAddress(w, reg)
  BY Classes DEF Issue, EffectiveAddress
<1>7. \A at, da : Capture(w, at, da).at = at
  BY DEF Capture
<1>8. (io.op # "none" => \E v \in Words : Captured(v, io))'
  <2>1. CASE w.op \in IoOps
    <3>1. io' = Capture(w, w.port, EffectiveAddress(w, reg))
      BY <1>5, <2>1 DEF Issue
    <3>2. Captured(w, io)'
      BY <1>6, <1>7, <2>1, <3>1 DEF Captured, Capture
    <3> QED BY <3>2
  <2>2. CASE w.op \notin IoOps
    BY <1>2, <2>2 DEF Issue
  <2> QED BY <2>1, <2>2
<1>9. (tbl.op # "none" => \E v \in Words : Captured(v, tbl))'
  <2>1. CASE w.op \in TableOps
    <3>1. tbl' = Capture(w, reg.acc % PcMod, EffectiveAddress(w, reg))
      BY <1>5, <2>1 DEF Issue
    <3>2. Captured(w, tbl)'
      BY <1>6, <1>7, <2>1, <3>1 DEF Captured, Capture
    <3> QED BY <3>2
  <2>2. CASE w.op \notin TableOps
    BY <1>2, <2>2 DEF Issue
  <2> QED BY <2>1, <2>2
<1> QED BY <1>3, <1>4, <1>8, <1>9 DEF PendingFromProgram

LEMMA StepFromProgram ==
  ASSUME CoreInv, PendingFromProgram, NEW w \in Words, NEW bio, NEW irq, NEW d,
         CoreStep(w, bio, irq, d)
  PROVE  PendingFromProgram'
<1>1. CoreTypeOK /\ OneOwner
  BY DEF CoreInv
<1>2. NoComputed.op = "none" /\ NoTransfer.op = "none"
  BY DEF NoComputed, NoTransfer
<1>3. CASE Issue(w, irq, d)
  BY <1>3, IssueFromProgram
<1>4. CASE InterruptEntry \/ StartTableTransfer(w, irq, d) \/ Refuse(w, irq)
  <2>1. reg' = reg /\ ctl' = ctl /\ cmp' = cmp /\ io' = io /\ tbl' = tbl
    BY <1>4 DEF InterruptEntry, StartTableTransfer, Refuse, pendVars
  <2> QED BY <2>1 DEF PendingFromProgram, Captured, EffectiveAddress, Capture
<1>5. CASE FinishComputed(w, irq, d)
  <2>1. /\ reg' = reg /\ ctl' = ctl /\ cmp' = NoComputed /\ io' = io /\ tbl' = tbl
    BY <1>5 DEF FinishComputed
  <2> QED BY <1>2, <2>1 DEF PendingFromProgram, Captured, EffectiveAddress, Capture
<1>6. CASE FinishControl(w, bio, irq, d)
  <2>1. Owner = "control" /\ ctl' = "none" /\ cmp' = cmp /\ io' = io /\ tbl' = tbl
    BY <1>6 DEF FinishControl
  <2>2. cmp.op = "none" /\ io.op = "none" /\ tbl.op = "none"
    BY <1>1, <2>1, OwnerFacts DEF OneOwner
  <2> QED BY <2>1, <2>2 DEF PendingFromProgram
<1>7. CASE FinishIo(w, irq, d)
  <2>1. Owner = "io" /\ ctl' = ctl /\ cmp' = cmp /\ io' = NoTransfer /\ tbl' = tbl
    BY <1>7 DEF FinishIo
  <2>2. tbl.op = "none"
    BY <1>1, <2>1, OwnerFacts DEF OneOwner
  <2> QED BY <1>2, <2>1, <2>2 DEF PendingFromProgram
<1>8. CASE FinishTable(w, irq, d)
  <2>1. Owner = "table" /\ ctl' = ctl /\ cmp' = cmp /\ io' = io /\ tbl' = NoTransfer
    BY <1>8 DEF FinishTable
  <2>2. io.op = "none"
    BY <1>1, <2>1, OwnerFacts DEF OneOwner
  <2> QED BY <1>2, <2>1, <2>2 DEF PendingFromProgram
<1> QED BY <1>3, <1>4, <1>5, <1>6, <1>7, <1>8 DEF CoreStep

LEMMA NextFromProgram ==
  ASSUME CoreInv, PendingFromProgram, [CoreNext]_coreVars
  PROVE  PendingFromProgram'
<1>1. CASE Clock
  BY <1>1, StepFromProgram DEF Clock
<1>2. CASE CoreReset \/ CoreInitialize
  BY <1>2 DEF CoreReset, CoreInitialize, NoComputed, NoTransfer, PendingFromProgram
<1>3. CASE DebugWrite \/ UNCHANGED coreVars
  <2>1. reg' = reg /\ ctl' = ctl /\ cmp' = cmp /\ io' = io /\ tbl' = tbl
    BY <1>3 DEF DebugWrite, coreVars, pendVars
  <2> QED BY <2>1 DEF PendingFromProgram, Captured, EffectiveAddress, Capture
<1> QED BY <1>1, <1>2, <1>3 DEF CoreNext

\* The edge an entry owns is the entry of the reference model.
LEMMA EntryEffect ==
  ASSUME CoreInv, InterruptEntry
  PROVE  Abstract!Enter
<1>1. OneOwner /\ CoreTypeOK /\ Owner = "entry"
  BY DEF CoreInv, InterruptEntry
<1>2. /\ ientry /\ cmp.op = "none" /\ ctl = "none" /\ tbl.op = "none"
      /\ io.op = "none"
  BY <1>1, OwnerFacts DEF OneOwner
<1>3. /\ stack' = Push(stack, pc) /\ pc' = Vector /\ intm' = TRUE
      /\ ipend' = FALSE /\ idelay' = FALSE /\ ientry' = FALSE
      /\ reg' = reg /\ ram' = ram /\ ctl' = ctl /\ cmp' = cmp /\ io' = io /\ tbl' = tbl
  BY DEF InterruptEntry, pendVars
<1>4. ArchPc = pc /\ ArchPc' = pc'
  BY <1>1, <1>2, <1>3 DEF ArchPc, Owner
<1>5. Abstract!Push(stack, pc) = Push(stack, pc) /\ Abstract!Vector = Vector
  BY SameStack DEF Abstract!Vector, Vector
<1> QED BY <1>2, <1>3, <1>4, <1>5 DEF Abstract!Enter

\* A retiring edge is one instruction of the reference model.
LEMMA RetireIsExecute ==
  ASSUME CoreInv, PendingFromProgram, NEW w \in Words, NEW bio \in BOOLEAN,
         NEW irq \in BOOLEAN, NEW d \in IoValues,
         Owner = "computed" => ram' = ram,
         \/ Issue(w, irq, d) /\ w.op \in OneCycleOps
         \/ FinishControl(w, bio, irq, d)
         \/ FinishComputed(w, irq, d)
         \/ FinishIo(w, irq, d)
         \/ FinishTable(w, irq, d)
  PROVE  Abstract!Execute
<1>1. CoreTypeOK /\ OneOwner /\ w \in WordType /\ d \in Value
  BY WordAssumption, CoreAssumption DEF CoreInv
<1>2. ~ientry
  BY <1>1, OwnerFacts DEF Issue, FinishControl, FinishComputed, FinishIo, FinishTable
<1>3. Abstract!IoOps = IoOps /\ Abstract!TableOps = TableOps
  BY SameClasses
<1>4. CASE Issue(w, irq, d) /\ w.op \in OneCycleOps
  <2>1. Abstract!OneCycle(w, irq)
    BY <1>1, <1>4, OneCycleEffect
  <2> QED BY <1>2, <2>1 DEF Abstract!Execute
<1>5. CASE FinishControl(w, bio, irq, d)
  <2>1. ctl # "none"
    BY <1>1, <1>5, OwnerFacts DEF FinishControl
  <2>2. PICK v \in Words : v.op = ctl
    BY <2>1 DEF PendingFromProgram
  <2> DEFINE c == [op |-> ctl]
  <2>3. Abstract!TwoWord(c, w, bio, irq) /\ c.op = v.op
    BY <1>1, <1>5, <2>2, ControlEffect
  <2> HIDE DEF c
  <2>4. Abstract!TwoWord(v, w, bio, irq)
    BY <2>3 DEF Abstract!TwoWord
  <2> QED BY <1>2, <2>4 DEF Abstract!Execute
<1>6. CASE FinishComputed(w, irq, d)
  <2>1. cmp.op # "none" /\ ram' = ram
    BY <1>1, <1>6, OwnerFacts DEF FinishComputed
  <2>2. PICK v \in Words : v.op = cmp.op
    BY <2>1 DEF PendingFromProgram
  <2> DEFINE c == [op |-> cmp.op]
  <2>3. Abstract!Computed(c, irq) /\ c.op = v.op
    BY <1>1, <1>6, <2>1, <2>2, ComputedEffect
  <2> HIDE DEF c
  <2>4. Abstract!Computed(v, irq)
    BY <2>3 DEF Abstract!Computed
  <2> QED BY <1>2, <2>4 DEF Abstract!Execute
<1>7. CASE FinishIo(w, irq, d)
  <2>1. io.op # "none" /\ io.op \in IoOps
    BY <1>1, <1>7, OwnerFacts DEF FinishIo, CoreTypeOK
  <2>2. PICK v \in Words : Captured(v, io)
    BY <2>1 DEF PendingFromProgram
  <2>3. v \in WordType
    BY WordAssumption
  <2>4. v.op \in IoOps
    BY <2>1, <2>2, <2>3, TransferEffect
  <2>5. Abstract!Transfer(v, d, irq)
    BY <1>1, <1>7, <2>2, <2>3, IoEffect
  <2> QED BY <1>2, <1>3, <2>4, <2>5, Zenon DEF Abstract!Execute
<1>8. CASE FinishTable(w, irq, d)
  <2>1. tbl.op # "none" /\ tbl.op \in TableOps
    BY <1>1, <1>8, OwnerFacts DEF FinishTable, CoreTypeOK
  <2>2. PICK v \in Words : Captured(v, tbl)
    BY <2>1 DEF PendingFromProgram
  <2>3. v \in WordType
    BY WordAssumption
  <2>4. v.op \in TableOps
    BY <2>1, <2>2, <2>3, TransferEffect
  <2>5. Abstract!Transfer(v, w.data, irq)
    BY <1>1, <1>8, <2>2, <2>3, TableEffect
  <2> QED BY <1>2, <1>3, <2>4, <2>5, Zenon DEF Abstract!Execute
<1> QED BY <1>4, <1>5, <1>6, <1>7, <1>8

LEMMA CoreStepIsIsa ==
  ASSUME CoreInv, PendingFromProgram, [CoreNext]_coreVars,
         Owner = "computed" /\ cmp'.op = "none" => ram' = ram
  PROVE  [Abstract!Next]_(Abstract!isaVars)
<1>1. CASE Clock
  <2>1. PICK w \in Words, bio \in BOOLEAN, irq \in BOOLEAN, d \in IoValues :
          CoreStep(w, bio, irq, d)
    BY <1>1 DEF Clock
  <2>2. w \in WordType /\ d \in Value /\ CoreTypeOK /\ OneOwner
    BY WordAssumption, CoreAssumption DEF CoreInv
  <2>3. CASE InterruptEntry
    BY <2>3, EntryEffect DEF Abstract!Next
  <2>4. CASE \/ Issue(w, irq, d) /\ w.op \in OneCycleOps
             \/ FinishControl(w, bio, irq, d)
             \/ FinishComputed(w, irq, d)
             \/ FinishIo(w, irq, d)
             \/ FinishTable(w, irq, d)
    <3>1. Owner = "computed" => ram' = ram
      <4>1. Owner = "computed" => FinishComputed(w, irq, d)
        BY <2>4 DEF Issue, FinishControl, FinishIo, FinishTable
      <4> QED BY <4>1 DEF FinishComputed, NoComputed
    <3>2. Abstract!Execute
      BY <2>4, <3>1, RetireIsExecute
    <3> QED BY <3>2 DEF Abstract!Next
  <2>5. CASE \/ Issue(w, irq, d) /\ w.op \notin OneCycleOps
             \/ StartTableTransfer(w, irq, d)
    <3>1. Hidden(irq)
      BY <2>2, <2>5, HiddenEdges
    <3>2. ~ientry
      BY <2>2, <2>5, OwnerFacts DEF Issue, StartTableTransfer
    <3> QED BY <2>2, <3>1, <3>2, HiddenIsStutter
  <2>6. CASE Refuse(w, irq)
    <3>1. ~ientry
      BY <2>2, <2>6, OwnerFacts DEF Refuse
    <3>2. ArchPc' = ArchPc
      <4>1. pc' = pc /\ ientry' = ientry /\ cmp' = cmp /\ ctl' = ctl /\ tbl' = tbl
              /\ io' = io
        BY <2>6 DEF Refuse, pendVars
      <4> QED BY <4>1 DEF ArchPc, Owner
    <3>3. Hidden(irq)
      BY <2>6, <3>2 DEF Refuse, Hidden
    <3> QED BY <2>2, <3>1, <3>3, HiddenIsStutter
  <2> QED BY <2>1, <2>3, <2>4, <2>5, <2>6 DEF CoreStep
<1>2. CASE CoreReset \/ CoreInitialize
  BY <1>2, ResetIsReset DEF Abstract!Next
<1>3. CASE DebugWrite
  <2>1. ArchPc' = ArchPc
    BY <1>3 DEF DebugWrite, irqVars, pendVars, ArchPc, Owner
  <2>2. Abstract!RamAddr = RamAddr
    BY DEF Abstract!RamAddr, RamAddr, Abstract!RamWords, RamWords
  <2> QED BY <1>3, <2>1, <2>2 DEF DebugWrite, irqVars, Abstract!Preload, Abstract!Next
<1>4. CASE UNCHANGED coreVars
  BY <1>4, QuietIsStutter
<1> QED BY <1>1, <1>2, <1>3, <1>4 DEF CoreNext

(* The standalone core implements the reference model, as long as its own  *)
(* assertion holds: that a word discarded by a pending CALA or RET does    *)
(* not write the data memory.  The run core_discard shows that the core    *)
(* alone does not keep it; the pipeline slice does, by what it fetches.    *)
THEOREM CoreImplementsIsa == CoreSpec /\ DiscardedWordKeepsRam => ImplementsIsa
<1>1. CoreInit => Abstract!Init
  BY InitIsIsa
<1>2. CoreInit => PendingFromProgram
  BY DEF CoreInit, NoComputed, NoTransfer, PendingFromProgram
<1>3. CoreInv /\ PendingFromProgram /\ [CoreNext]_coreVars => PendingFromProgram'
  BY NextFromProgram
<1>4. /\ CoreInv /\ PendingFromProgram /\ [CoreNext]_coreVars
      /\ [Owner = "computed" /\ cmp'.op = "none" => ram' = ram]_coreVars
      => [Abstract!Next]_(Abstract!isaVars)
  BY CoreStepIsIsa, QuietIsStutter
<1> QED BY <1>1, <1>2, <1>3, <1>4, CoreInvariant, PTL
        DEF CoreSpec, ImplementsIsa, DiscardedWordKeepsRam, Abstract!Spec
=============================================================================
