------------------------------ MODULE Datapath ------------------------------
(***************************************************************************)
(* The pure part of the TMS32010: what one instruction computes.           *)
(*                                                                         *)
(* Every operator is a function of its arguments: the accumulator unit,    *)
(* the multiplier, the shifters, the auxiliary-register counter, the       *)
(* status word and the four-level stack, and ExecReg, which puts them      *)
(* together the way the issue branch of the core does.  Widths are         *)
(* parameters: the chip has PcMod = 2^12, WordMod = 2^16, CtrMod = 2^9,    *)
(* DaMod = 2^8, PageWords = 128 and SstWords = 16.                         *)
(*                                                                         *)
(* A program word is a record, the decoder's outputs for that word and the *)
(* two other ways the machine reads a word: as the operand of a two-word   *)
(* instruction (canon: the upper nibble is zero; addr: the low bits), and  *)
(* as the datum TBLR moves (data).                                         *)
(***************************************************************************)
EXTENDS Integers

CONSTANTS
  PcMod,       \* program addresses are counted modulo PcMod
  WordMod,     \* values of a data word; the accumulator has WordMod^2
  CtrMod,      \* values of the counter field, AR[8:0]
  DaMod,       \* values of an indirect data address, AR[7:0]
  PageWords,   \* words of data page 0
  SstWords,    \* words of data page 1 that exist on chip
  Words,       \* the program words the memory may return
  StatusBit,   \* weights of the status-word bits, see StatusWord
  BitAnd(_, _), BitOr(_, _), BitXor(_, _)    \* bitwise operators on words

AccMod   == WordMod * WordMod
RamWords == PageWords + SstWords

Addr    == 0 .. PcMod - 1
Value   == 0 .. WordMod - 1
AccVal  == 0 .. AccMod - 1
RamAddr == 0 .. RamWords - 1
Bit     == 0 .. 1
Levels  == 0 .. 3

Vector  == 2      \* interrupt entry address; reset starts at address 0

-----------------------------------------------------------------------------
\* The operation classes the core and the pipeline slice tell apart.

AccumulatorBranches == {"BGEZ", "BGZ", "BLEZ", "BLZ", "BNZ", "BZ"}
ControlOps  == AccumulatorBranches \cup {"B", "BANZ", "BV", "BIOZ", "CALL"}
ComputedOps == {"CALA", "RET"}
IoOps       == {"IN", "OUT"}
TableOps    == {"TBLR", "TBLW"}
DmovOps     == {"DMOV", "LTD"}
MpyOps      == {"MPY", "MPYK"}
LoadOps     == {"LAC", "ZALH", "ZALS", "ADDH", "ADDS", "XOR", "AND", "OR",
                "ADD", "SUB", "SUBH", "SUBS", "SUBC", "LAR", "LDP", "LT",
                "LTA", "MPY", "LST"} \cup DmovOps
StoreOps    == {"SACL", "SACH", "SAR", "SST"} \cup DmovOps
MemoryOps   == LoadOps \cup StoreOps
InherentOps == {"ABS", "APAC", "DINT", "EINT", "LACK", "LARK", "LARP", "LDPK",
                "MAR", "MPYK", "NOP", "PAC", "ROVM", "SOVM", "SPAC", "ZAC"}
OneCycleOps == MemoryOps \cup InherentOps
DataAddressed == MemoryOps \cup IoOps \cup TableOps
Ops == OneCycleOps \cup ControlOps \cup ComputedOps \cup IoOps \cup TableOps

\* Instructions of the chip that the reference model executes and the RTL does
\* not decode.
StackOps == {"PUSH", "POP"}

WordType == [op : Ops \cup StackOps \cup {"ILLEGAL"}, canon : BOOLEAN, addr : Addr,
             k : Value, sh : Nat \ {0}, port : Nat, ar : Bit, ind : BOOLEAN,
             dma : 0 .. PageWords - 1, inc : BOOLEAN, dec : BOOLEAN,
             keep : BOOLEAN, narp : Bit, data : Value]

ASSUME WidthAssumption ==
  /\ PcMod \in Nat /\ PcMod > Vector
  /\ CtrMod \in Nat \ {0} /\ DaMod \in Nat \ {0}
  /\ PageWords \in Nat \ {0} /\ SstWords \in Nat \ {0}
  /\ PageWords + SstWords <= DaMod
  /\ WordMod \in Nat \ {0} /\ WordMod % 2 = 0 /\ WordMod % CtrMod = 0

ASSUME WordAssumption ==
  /\ Words \subseteq WordType
  /\ \A w \in Words : /\ ~(w.inc /\ w.dec)
                      /\ w.canon => w.op \in {"ADD", "ILLEGAL"}

ASSUME BitAssumption ==
  \A x, y \in Value : /\ BitAnd(x, y) \in Value
                      /\ BitOr(x, y) \in Value
                      /\ BitXor(x, y) \in Value

\* The five flags and the fixed ones of the status word do not overlap.
ASSUME StatusAssumption ==
  /\ StatusBit \in [ov : Nat \ {0}, ovm : Nat \ {0}, intm : Nat,
                    arp : Nat \ {0}, ones : Nat]
  /\ StatusBit.ov + StatusBit.ovm + StatusBit.intm + StatusBit.arp
       + 1 + StatusBit.ones < WordMod

-----------------------------------------------------------------------------
\* Arithmetic.

High(a) == a \div WordMod
Low(a)  == a % WordMod
Join(high, low) == high * WordMod + low

NegAcc(a)  == a >= AccMod \div 2
Signed(v)  == IF v >= WordMod \div 2 THEN v - WordMod ELSE v
MaxAcc     == AccMod \div 2 - 1
MinAcc     == AccMod \div 2

\* Wrapped sum or difference, saturated under OVM; ov: it overflowed.
AddSub(a, b, sub, ovm) ==
  LET wrapped  == (IF sub THEN a - b ELSE a + b) % AccMod
      overflow == /\ (NegAcc(a) = NegAcc(b)) # sub
                  /\ NegAcc(a) # NegAcc(wrapped)
  IN  [v  |-> IF ovm /\ overflow
                THEN IF NegAcc(a) THEN MinAcc ELSE MaxAcc
                ELSE wrapped,
       ov |-> overflow]

\* ADDS and SUBS take an unsigned word: only one direction overflows.
AddUnsigned(a, d, ovm) ==
  LET wrapped == (a + d) % AccMod
      overflow == ~NegAcc(a) /\ NegAcc(wrapped)
  IN  [v |-> IF ovm /\ overflow THEN MaxAcc ELSE wrapped, ov |-> overflow]

SubUnsigned(a, d, ovm) ==
  LET wrapped == (a - d) % AccMod
      overflow == NegAcc(a) /\ ~NegAcc(wrapped)
  IN  [v |-> IF ovm /\ overflow THEN MinAcc ELSE wrapped, ov |-> overflow]

\* One step of a restoring division: ACC minus the word shifted left by 15.
SubConditional(a, d) ==
  LET operand == d * (WordMod \div 2)
      trial   == (a - operand) % AccMod
  IN  [v  |-> IF NegAcc(trial) THEN (2 * a) % AccMod
                               ELSE (2 * trial + 1) % AccMod,
       ov |-> NegAcc(a) # NegAcc(operand) /\ NegAcc(a) # NegAcc(trial)]

AbsAcc(a, ovm) ==
  IF ~NegAcc(a) THEN a
  ELSE IF ovm /\ a = MinAcc THEN MaxAcc ELSE (AccMod - a) % AccMod

\* The most negative word squared is the documented exception of the chip.
Product(x, y) ==
  IF x = WordMod \div 2 /\ y = WordMod \div 2
    THEN (3 * (AccMod \div 4)) % AccMod
    ELSE (Signed(x) * Signed(y)) % AccMod

ShiftIn(d, sh)  == (Signed(d) * sh) % AccMod
ShiftOut(a, sh) == High((a * sh) % AccMod)

\* The counter field wraps on its own; the bits above it never change.
Counter(v, inc, dec) ==
  LET field == v % CtrMod
  IN  IF inc /\ ~dec THEN v - field + ((field + 1) % CtrMod)
      ELSE IF dec /\ ~inc THEN v - field + ((field - 1) % CtrMod)
      ELSE v

StatusWord(r, intm) ==
  LET weight(flag, bit) == IF flag THEN bit ELSE 0
  IN  weight(r.ov, StatusBit.ov) + weight(r.ovm, StatusBit.ovm)
        + weight(intm, StatusBit.intm) + weight(r.arp = 1, StatusBit.arp)
        + weight(r.dp = 1, 1) + StatusBit.ones

BitSet(d, bit) == (d \div bit) % 2 = 1

-----------------------------------------------------------------------------
\* The stack: level 0 is the top.

Push(s, a) == [i \in Levels |-> IF i = 0 THEN a ELSE s[i - 1]]
Pop(s)     == [i \in Levels |-> IF i = 3 THEN s[3] ELSE s[i + 1]]
TablePass(s) == [s EXCEPT ![3] = s[2]]

-----------------------------------------------------------------------------
\* The programmer-visible registers as one record.

Registers == [acc : AccVal, t : Value, p : AccVal, ar : [Bit -> Value],
              arp : Bit, dp : Bit, ov : BOOLEAN, ovm : BOOLEAN]

ZeroRegisters == [acc |-> 0, t |-> 0, p |-> 0, ar |-> [i \in Bit |-> 0],
                  arp |-> 0, dp |-> 0, ov |-> FALSE, ovm |-> FALSE]

EffectiveAddress(w, r) ==
  IF w.ind THEN r.ar[r.arp] % DaMod
  ELSE IF w.op = "SST" THEN PageWords + (w.dma % SstWords)
  ELSE r.dp * PageWords + w.dma

\* The selected register after the indirect post-modification.
Stepped(w, r) == Counter(r.ar[r.arp], w.inc, w.dec)

\* The word a store writes; d is the word at the effective address.
StoreValue(w, r, intm, d) ==
  CASE w.op \in DmovOps -> d
    [] w.op = "SAR"  -> IF w.ind /\ w.ar = r.arp THEN Stepped(w, r)
                                                 ELSE r.ar[w.ar]
    [] w.op = "SST"  -> StatusWord(r, intm)
    [] w.op = "SACH" -> ShiftOut(r.acc, w.sh)
    [] OTHER         -> Low(r.acc)

\* What the accumulator unit computes for a word: the new ACC, and overflow.
AluResult(w, r, d) ==
  LET keepOv(v) == [v |-> v, ov |-> FALSE]
  IN  CASE w.op = "ADD" -> AddSub(r.acc, ShiftIn(d, w.sh), FALSE, r.ovm)
        [] w.op = "SUB" -> AddSub(r.acc, ShiftIn(d, w.sh), TRUE, r.ovm)
        [] w.op = "SUBH" -> AddSub(r.acc, Join(d, 0), TRUE, r.ovm)
        [] w.op \in {"APAC", "LTA", "LTD"} -> AddSub(r.acc, r.p, FALSE, r.ovm)
        [] w.op = "SPAC" -> AddSub(r.acc, r.p, TRUE, r.ovm)
        [] w.op = "ADDS" -> AddUnsigned(r.acc, d, r.ovm)
        [] w.op = "SUBS" -> SubUnsigned(r.acc, d, r.ovm)
        [] w.op = "SUBC" -> SubConditional(r.acc, d)
        [] w.op = "ADDH" -> keepOv(Join((High(r.acc) + d) % WordMod, Low(r.acc)))
        [] w.op = "AND"  -> keepOv(BitAnd(Low(r.acc), d))
        [] w.op = "OR"   -> keepOv(Join(High(r.acc), BitOr(Low(r.acc), d)))
        [] w.op = "XOR"  -> keepOv(Join(High(r.acc), BitXor(Low(r.acc), d)))
        [] w.op = "LAC"  -> keepOv(ShiftIn(d, w.sh))
        [] w.op = "ZALH" -> keepOv(Join(d, 0))
        [] w.op = "ZALS" -> keepOv(d)
        [] w.op = "LACK" -> keepOv(w.k)
        [] w.op = "ABS"  -> keepOv(AbsAcc(r.acc, r.ovm))
        [] w.op = "PAC"  -> keepOv(r.p)
        [] w.op = "ZAC"  -> keepOv(0)
        [] OTHER         -> keepOv(r.acc)

\* Indirect post-modification; LAR of the selected register keeps the load.
SteppedRegisters(w, r) ==
  IF w.ind /\ (w.inc \/ w.dec) /\ ~(w.op = "LAR" /\ w.ar = r.arp)
    THEN [r.ar EXCEPT ![r.arp] = Stepped(w, r)]
    ELSE r.ar

ArNext(w, r, d) ==
  CASE w.op = "LAR"  -> [SteppedRegisters(w, r) EXCEPT ![w.ar] = d]
    [] w.op = "LARK" -> [r.ar EXCEPT ![w.ar] = w.k]
    [] w.op \in (MemoryOps \cup {"MAR"}) \ {"LAR"} -> SteppedRegisters(w, r)
    [] OTHER         -> r.ar

\* LST loads ARP from the word and ignores the next-ARP field.
ArpNext(w, r, d) ==
  CASE w.op = "LST"  -> IF BitSet(d, StatusBit.arp) THEN 1 ELSE 0
    [] w.op = "LARP" -> w.k % 2
    [] w.op \in (MemoryOps \cup {"MAR"}) \ {"LST"} ->
         IF w.ind /\ ~w.keep THEN w.narp ELSE r.arp
    [] OTHER         -> r.arp

\* The registers after a one-cycle instruction; others leave them alone.
ExecReg(w, r, d) ==
  [acc |-> AluResult(w, r, d).v,
   t   |-> IF w.op \in {"LT", "LTA", "LTD"} THEN d ELSE r.t,
   p   |-> CASE w.op = "MPY"  -> Product(r.t, d)
             [] w.op = "MPYK" -> Product(r.t, w.k)
             [] OTHER         -> r.p,
   ar  |-> ArNext(w, r, d),
   arp |-> ArpNext(w, r, d),
   dp  |-> CASE w.op \in {"LDP", "LST"} -> d % 2
             [] w.op = "LDPK" -> w.k % 2
             [] OTHER         -> r.dp,
   ov  |-> IF w.op = "LST" THEN BitSet(d, StatusBit.ov)
                           ELSE r.ov \/ AluResult(w, r, d).ov,
   ovm |-> CASE w.op = "LST"  -> BitSet(d, StatusBit.ovm)
             [] w.op = "SOVM" -> TRUE
             [] w.op = "ROVM" -> FALSE
             [] OTHER         -> r.ovm]

IntmNext(op, intm) ==
  CASE op = "DINT" -> TRUE
    [] op = "EINT" -> FALSE
    [] OTHER       -> intm

-----------------------------------------------------------------------------
\* Two-word control flow.

AccumulatorTaken(op, a) ==
  \/ op = "BGEZ" /\ ~NegAcc(a)
  \/ op = "BGZ"  /\ ~NegAcc(a) /\ a # 0
  \/ op = "BLEZ" /\ (NegAcc(a) \/ a = 0)
  \/ op = "BLZ"  /\ NegAcc(a)
  \/ op = "BNZ"  /\ a # 0
  \/ op = "BZ"   /\ a = 0

BranchTaken(op, r, bio) ==
  \/ op \in {"B", "CALL"}
  \/ op = "BANZ" /\ r.ar[r.arp] % CtrMod # 0
  \/ op = "BV"   /\ r.ov
  \/ op = "BIOZ" /\ ~bio
  \/ AccumulatorTaken(op, r.acc)

\* BANZ decrements whether or not it branches; BV consumes OV.
BranchReg(op, r) ==
  CASE op = "BANZ" -> [r EXCEPT !.ar[r.arp] = Counter(@, FALSE, TRUE)]
    [] op = "BV"   -> [r EXCEPT !.ov = FALSE]
    [] OTHER       -> r
=============================================================================
