-------------------------------- MODULE Isa ---------------------------------
(***************************************************************************)
(* The instruction-level machine: the reference model of                   *)
(* sim/reference_models/tms32010_model.py.  One step is one instruction,   *)
(* whatever number of machine cycles it takes, or one interrupt entry.     *)
(* The program memory is not modelled: an instruction word, its operand    *)
(* word and the word a TBLR reads are arbitrary members of Words.          *)
(*                                                                         *)
(* The reference model samples the INT input when an instruction starts.   *)
(* The pin may also be low only between two such points, and the hardware  *)
(* latches it at any machine cycle: Latch is that event.                   *)
(***************************************************************************)
EXTENDS Datapath

CONSTANTS RamStart, IoValues

VARIABLES pc, stack, reg, ram, intm, ipend, idelay, ientry

isaVars == <<pc, stack, reg, ram, intm, ipend, idelay, ientry>>

Next1(a) == (a + 1) % PcMod

\* ADDS and SUBS go through the signed accumulator routine here.
IsaReg(w, r, d) ==
  IF w.op \notin {"ADDS", "SUBS"} THEN ExecReg(w, r, d)
  ELSE LET sum == AddSub(r.acc, d, w.op = "SUBS", r.ovm)
       IN  [ExecReg(w, r, d) EXCEPT !.acc = sum.v, !.ov = r.ov \/ sum.ov]

\* Indirect post-modification of IN, OUT, TBLR and TBLW.
PostModify(w, r) ==
  IF w.ind THEN [r EXCEPT !.ar[r.arp] = Counter(@, w.inc, w.dec),
                          !.arp = IF w.keep THEN @ ELSE w.narp]
           ELSE r

Address(w) == EffectiveAddress(w, reg)

\* The mask is the one the retired instruction leaves behind.
AdvanceInterrupt(op, irq) ==
  /\ ipend' = (ipend \/ irq)
  /\ IF idelay THEN /\ idelay' = (~intm' /\ op \in MpyOps)
                    /\ ientry' = (~intm' /\ op \notin MpyOps)
     ELSE idelay' = (ipend' /\ ~intm') /\ ientry' = FALSE

OneCycle(w, irq) ==
  /\ w.op \in OneCycleOps
  /\ w.op \in MemoryOps => Address(w) < RamWords
  /\ w.op \in DmovOps => Address(w) + 1 < RamWords
  /\ LET d  == IF w.op \in MemoryOps THEN ram[Address(w)] ELSE 0
         to == IF w.op \in DmovOps THEN Address(w) + 1 ELSE Address(w)
     IN  /\ reg' = IsaReg(w, reg, d)
         /\ ram' = IF w.op \in StoreOps
                     THEN [ram EXCEPT ![to] = StoreValue(w, reg, intm, d)]
                     ELSE ram
  /\ intm' = IntmNext(w.op, intm)
  /\ pc' = Next1(pc)
  /\ AdvanceInterrupt(w.op, irq)
  /\ UNCHANGED stack

TwoWord(w, operand, bio, irq) ==
  /\ w.op \in ControlOps /\ operand.canon
  /\ pc' = IF BranchTaken(w.op, reg, bio) THEN operand.addr ELSE Next1(Next1(pc))
  /\ reg' = BranchReg(w.op, reg)
  /\ stack' = IF w.op = "CALL" THEN Push(stack, Next1(Next1(pc))) ELSE stack
  /\ AdvanceInterrupt(w.op, irq)
  /\ UNCHANGED <<ram, intm>>

Computed(w, irq) ==
  /\ w.op \in ComputedOps
  /\ pc' = IF w.op = "CALA" THEN reg.acc % PcMod ELSE stack[0]
  /\ stack' = IF w.op = "CALA" THEN Push(stack, Next1(pc)) ELSE Pop(stack)
  /\ AdvanceInterrupt(w.op, irq)
  /\ UNCHANGED <<reg, ram, intm>>

PushPop(w, irq) ==
  /\ w.op \in StackOps
  /\ pc' = Next1(pc)
  /\ stack' = IF w.op = "PUSH" THEN Push(stack, reg.acc % PcMod) ELSE Pop(stack)
  /\ reg' = IF w.op = "POP" THEN [reg EXCEPT !.acc = stack[0]] ELSE reg
  /\ AdvanceInterrupt(w.op, irq)
  /\ UNCHANGED <<ram, intm>>

\* OUT only reads the data word; v is the word IN or TBLR receives.
Transfer(w, v, irq) ==
  /\ w.op \in IoOps \cup TableOps
  /\ Address(w) < RamWords
  /\ ram' = IF w.op \in {"IN", "TBLR"} THEN [ram EXCEPT ![Address(w)] = v]
                                       ELSE ram
  /\ reg' = PostModify(w, reg)
  /\ stack' = IF w.op \in TableOps THEN TablePass(stack) ELSE stack
  /\ pc' = Next1(pc)
  /\ AdvanceInterrupt(w.op, irq)
  /\ UNCHANGED intm

Execute ==
  /\ ~ientry
  /\ \E w \in Words, irq \in BOOLEAN :
       \/ OneCycle(w, irq)
       \/ \E operand \in Words, bio \in BOOLEAN : TwoWord(w, operand, bio, irq)
       \/ Computed(w, irq)
       \/ PushPop(w, irq)
       \/ \E v \in IoValues : w.op \in IoOps /\ Transfer(w, v, irq)
       \/ \E x \in Words : w.op \in TableOps /\ Transfer(w, x.data, irq)

Enter ==
  /\ ientry
  /\ stack' = Push(stack, pc)
  /\ pc' = Vector
  /\ intm' = TRUE
  /\ ipend' = FALSE /\ idelay' = FALSE /\ ientry' = FALSE
  /\ UNCHANGED <<reg, ram>>

Latch ==
  /\ ~ientry
  /\ ipend' = TRUE
  /\ UNCHANGED <<pc, stack, reg, ram, intm, idelay, ientry>>

Reset ==
  /\ pc' = 0 /\ intm' = TRUE
  /\ ipend' = FALSE /\ idelay' = FALSE /\ ientry' = FALSE
  /\ UNCHANGED <<stack, reg, ram>>

\* A fresh machine on the same data memory, constructed and then reset: the
\* constructor leaves intm clear, reset_at_instruction_boundary sets it.
Initialize ==
  /\ pc' = 0 /\ intm' = TRUE
  /\ ipend' = FALSE /\ idelay' = FALSE /\ ientry' = FALSE
  /\ stack' = [i \in Levels |-> 0] /\ reg' = ZeroRegisters
  /\ UNCHANGED ram

Preload ==
  /\ \E a \in RamAddr, v \in IoValues : ram' = [ram EXCEPT ![a] = v]
  /\ UNCHANGED <<pc, stack, reg, intm, ipend, idelay, ientry>>

\* A machine that has been constructed and reset.
Init ==
  /\ pc = 0 /\ intm = TRUE
  /\ ipend = FALSE /\ idelay = FALSE /\ ientry = FALSE
  /\ stack = [i \in Levels |-> 0] /\ reg = ZeroRegisters
  /\ ram \in RamStart

Next == Execute \/ Enter \/ Latch \/ Reset \/ Initialize \/ Preload

Spec == Init /\ [][Next]_isaVars
=============================================================================
