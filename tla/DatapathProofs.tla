--------------------------- MODULE DatapathProofs ---------------------------
(***************************************************************************)
(* What the operators of Datapath return, for every width: results stay    *)
(* inside the registers they are written to, and are the numbers that the  *)
(* instructions promise.                                                   *)
(***************************************************************************)
EXTENDS Datapath, TLAPS

\* A remainder is below its divisor.
LEMMA ModRange ==
  ASSUME NEW x \in Int, NEW m \in Nat \ {0}
  PROVE  x % m \in 0 .. m - 1
  OBVIOUS

\* The accumulator's width is a positive even number.
LEMMA Widths ==
  /\ WordMod \in Nat \ {0} /\ AccMod \in Nat \ {0}
  /\ WordMod \div 2 \in Value
  /\ AccMod \div 2 \in AccVal /\ AccMod \div 2 >= 1
  /\ PcMod \in Nat \ {0} /\ RamWords \in Nat \ {0}
  /\ Vector \in Addr /\ 0 \in Addr /\ 0 \in Value /\ 0 \in AccVal
<1>1. WordMod \in Nat \ {0} /\ WordMod >= 2 /\ WordMod \div 2 \in Value
  BY WidthAssumption DEF Value
<1>2. AccMod \in Nat /\ AccMod >= 4
  <2>1. \A n \in Nat : n >= 2 => n * n >= 4
    OBVIOUS
  <2>2. \A n \in Nat : n * n \in Nat
    OBVIOUS
  <2> QED BY <1>1, <2>1, <2>2 DEF AccMod
<1>3. AccMod \div 2 \in AccVal /\ AccMod \div 2 >= 1
  BY <1>2 DEF AccVal
<1> QED BY <1>1, <1>2, <1>3, WidthAssumption DEF RamWords, Vector, Addr, Value, AccVal

\* Two words make an accumulator value, and an accumulator value two words.
LEMMA JoinType ==
  ASSUME NEW h \in Value, NEW l \in Value
  PROVE  Join(h, l) \in AccVal
<1>1. h * WordMod <= (WordMod - 1) * WordMod /\ h * WordMod \in Nat
  <2>1. \A a, b, c \in Nat : a <= b => a * c <= b * c /\ a * c \in Nat
    OBVIOUS
  <2> QED BY <2>1, Widths DEF Value
<1>2. (WordMod - 1) * WordMod = AccMod - WordMod
  BY Widths DEF AccMod
<1> QED BY <1>1, <1>2, Widths DEF Join, Value, AccVal

LEMMA SplitType ==
  ASSUME NEW a \in AccVal
  PROVE  High(a) \in Value /\ Low(a) \in Value
<1>1. Low(a) \in Value
  BY ModRange, Widths DEF Low, AccVal, Value
<1>2. a \div WordMod \in Nat /\ a = (WordMod * (a \div WordMod)) + (a % WordMod)
  BY Widths DEF AccVal
<1>3. WordMod * (a \div WordMod) < WordMod * WordMod
  BY <1>1, <1>2, Widths DEF AccVal, AccMod, Low, Value
<1>4. a \div WordMod < WordMod
  <2>1. \A m, n, q \in Nat : m * q < m * n => q < n
    OBVIOUS
  <2> QED BY <2>1, <1>2, <1>3, Widths
<1> QED BY <1>1, <1>2, <1>4, Widths DEF High, Value

-----------------------------------------------------------------------------
\* The accumulator unit.

LEMMA AccArithmetic ==
  ASSUME NEW a \in AccVal, NEW b \in AccVal, NEW sub \in BOOLEAN, NEW ovm \in BOOLEAN
  PROVE  AddSub(a, b, sub, ovm) \in [v : AccVal, ov : BOOLEAN]
<1>1. (a + b) % AccMod \in AccVal /\ (a - b) % AccMod \in AccVal
  BY ModRange, Widths DEF AccVal
<1>2. MinAcc \in AccVal /\ MaxAcc \in AccVal
  BY Widths DEF MinAcc, MaxAcc, AccVal
<1> DEFINE wrapped  == (IF sub THEN a - b ELSE a + b) % AccMod
           overflow == /\ (NegAcc(a) = NegAcc(b)) # sub
                       /\ NegAcc(a) # NegAcc(wrapped)
<1>3. wrapped \in AccVal
  BY <1>1
<1>4. (IF ovm /\ overflow THEN IF NegAcc(a) THEN MinAcc ELSE MaxAcc
                          ELSE wrapped) \in AccVal
  <2> HIDE DEF wrapped, overflow
  <2> QED BY <1>2, <1>3
<1>5. overflow \in BOOLEAN
  OBVIOUS
<1> HIDE DEF wrapped, overflow
<1>6. [v  |-> IF ovm /\ overflow THEN IF NegAcc(a) THEN MinAcc ELSE MaxAcc
                                 ELSE wrapped,
       ov |-> overflow] \in [v : AccVal, ov : BOOLEAN]
  BY <1>4, <1>5
<1> QED BY <1>6 DEF AddSub, wrapped, overflow

LEMMA UnsignedArithmetic ==
  ASSUME NEW a \in AccVal, NEW d \in Value, NEW ovm \in BOOLEAN
  PROVE  /\ AddUnsigned(a, d, ovm) \in [v : AccVal, ov : BOOLEAN]
         /\ SubUnsigned(a, d, ovm) \in [v : AccVal, ov : BOOLEAN]
<1>1. (a + d) % AccMod \in AccVal /\ (a - d) % AccMod \in AccVal
  BY ModRange, Widths DEF AccVal, Value
<1>2. MinAcc \in AccVal /\ MaxAcc \in AccVal
  BY Widths DEF MinAcc, MaxAcc, AccVal
<1>3. \A x \in AccVal : NegAcc(x) \in BOOLEAN
  BY DEF NegAcc
<1> QED BY <1>1, <1>2, <1>3 DEF AddUnsigned, SubUnsigned

\* A word in the upper half, or shifted by an input shifter, fits.
LEMMA Operands ==
  ASSUME NEW d \in Value, NEW sh \in Nat
  PROVE  Join(d, 0) \in AccVal /\ ShiftIn(d, sh) \in AccVal /\ d \in AccVal
<1>1. Join(d, 0) \in AccVal
  BY JoinType, Widths
<1>2. Signed(d) \in Int
  BY Widths DEF Signed, Value
<1>3. Signed(d) * sh \in Int
  <2>1. \A x, y \in Int : x * y \in Int
    OBVIOUS
  <2> QED BY <1>2, <2>1
<1>4. ShiftIn(d, sh) \in AccVal
  BY <1>3, ModRange, Widths DEF ShiftIn, AccVal
<1>5. WordMod <= AccMod
  <2>1. \A n \in Nat : n >= 1 => n <= n * n
    OBVIOUS
  <2> QED BY <2>1, Widths DEF AccMod
<1> QED BY <1>1, <1>4, <1>5, Widths DEF Value, AccVal

LEMMA ConditionalSubtract ==
  ASSUME NEW a \in AccVal, NEW d \in Value
  PROVE  SubConditional(a, d) \in [v : AccVal, ov : BOOLEAN]
<1> DEFINE half    == WordMod \div 2
           operand == d * half
           trial   == (a - operand) % AccMod
<1>1. operand \in Int
  <2>1. \A x, y \in Int : x * y \in Int
    OBVIOUS
  <2>2. d \in Int /\ half \in Int
    BY Widths DEF Value
  <2> HIDE DEF half
  <2> QED BY <2>1, <2>2
<1> HIDE DEF operand
<1>2. trial \in AccVal
  BY <1>1, ModRange, Widths DEF AccVal
<1> HIDE DEF trial
<1>3. (2 * a) % AccMod \in AccVal /\ (2 * trial + 1) % AccMod \in AccVal
  BY <1>2, ModRange, Widths DEF AccVal
<1>4. [v  |-> IF NegAcc(trial) THEN (2 * a) % AccMod
                               ELSE (2 * trial + 1) % AccMod,
       ov |-> NegAcc(a) # NegAcc(operand) /\ NegAcc(a) # NegAcc(trial)]
         \in [v : AccVal, ov : BOOLEAN]
  BY <1>3
<1> QED BY <1>4 DEF SubConditional, operand, trial, half

LEMMA AbsType ==
  ASSUME NEW a \in AccVal, NEW ovm \in BOOLEAN
  PROVE  AbsAcc(a, ovm) \in AccVal
<1>1. (AccMod - a) % AccMod \in AccVal
  BY ModRange, Widths DEF AccVal
<1> QED BY <1>1, Widths DEF AbsAcc, MinAcc, MaxAcc, AccVal

LEMMA ProductType ==
  ASSUME NEW x \in Value, NEW y \in Value
  PROVE  Product(x, y) \in AccVal
<1>1. Signed(x) \in Int /\ Signed(y) \in Int
  BY Widths DEF Signed, Value
<1>2. Signed(x) * Signed(y) \in Int /\ 3 * (AccMod \div 4) \in Int
  <2>1. \A m, n \in Int : m * n \in Int
    OBVIOUS
  <2> QED BY <1>1, <2>1, Widths
<1>3. (Signed(x) * Signed(y)) % AccMod \in AccVal
  BY <1>2, ModRange, Widths DEF AccVal
<1>4. (3 * (AccMod \div 4)) % AccMod \in AccVal
  BY <1>2, ModRange, Widths DEF AccVal
<1> QED BY <1>3, <1>4 DEF Product

LEMMA ShiftOutType ==
  ASSUME NEW a \in AccVal, NEW sh \in Nat
  PROVE  ShiftOut(a, sh) \in Value
<1>1. a * sh \in Int
  <2>1. \A m, n \in Int : m * n \in Int
    OBVIOUS
  <2> QED BY <2>1 DEF AccVal
<1>2. (a * sh) % AccMod \in AccVal
  BY <1>1, ModRange, Widths DEF AccVal
<1> QED BY <1>2, SplitType DEF ShiftOut

-----------------------------------------------------------------------------
\* Auxiliary registers, status and stack.

\* The counter field wraps inside the word because its size divides the word's.
LEMMA CounterType ==
  ASSUME NEW v \in Value, NEW inc, NEW dec
  PROVE  Counter(v, inc, dec) \in Value
<1> DEFINE field == v % CtrMod
           q     == v \div CtrMod
           n     == WordMod \div CtrMod
<1>1. CtrMod \in Nat \ {0} /\ WordMod \in Nat \ {0} /\ v \in Nat /\ v < WordMod
  BY WidthAssumption DEF Value
<1>2. field \in 0 .. CtrMod - 1 /\ q \in Nat /\ v = (CtrMod * q) + field
  <2>1. field \in 0 .. CtrMod - 1
    BY <1>1, ModRange
  <2>2. q \in Nat /\ v = (CtrMod * q) + field
    BY <1>1
  <2> QED BY <2>1, <2>2
<1>3. n \in Nat /\ WordMod = CtrMod * n
  BY <1>1, WidthAssumption
<1>4. \A x \in Int : x % CtrMod \in 0 .. CtrMod - 1
  BY <1>1, ModRange
<1> HIDE DEF field, q, n
<1>5. (CtrMod * q) + CtrMod <= WordMod
  <2>1. CtrMod * q < CtrMod * n
    BY <1>1, <1>2, <1>3
  <2>2. \A c, x, y \in Nat : c * x < c * y => (c * x) + c <= c * y
    <3>1. SUFFICES ASSUME NEW c \in Nat, NEW x \in Nat, NEW y \in Nat, c * x < c * y
                   PROVE  (c * x) + c <= c * y
      OBVIOUS
    <3>2. x + 1 <= y
      BY <3>1
    <3>3. c * (x + 1) <= c * y /\ c * (x + 1) = (c * x) + c
      BY <3>2
    <3> QED BY <3>3
  <2>3. CtrMod \in Nat /\ q \in Nat /\ n \in Nat
    BY <1>1, <1>2, <1>3
  <2>4. (CtrMod * q) + CtrMod <= CtrMod * n
    BY ZenonT(20), <2>1, <2>2, <2>3
  <2> QED BY <1>3, <2>4
<1>6. v - field \in Nat /\ v - field <= WordMod - CtrMod
  <2>1. \A c, x \in Nat : c * x \in Nat
    OBVIOUS
  <2>2. CtrMod * q \in Nat
    BY <1>1, <1>2, <2>1
  <2> QED BY <1>1, <1>2, <1>5, <2>2
<1>7. \A x \in 0 .. CtrMod - 1 : v - field + x \in Value
  BY <1>1, <1>2, <1>6 DEF Value
<1>8. /\ v - field + ((field + 1) % CtrMod) \in Value
      /\ v - field + ((field - 1) % CtrMod) \in Value
  BY <1>2, <1>4, <1>7
<1> QED BY <1>8 DEF Counter, field

LEMMA StatusWordType ==
  ASSUME NEW r \in Registers, NEW mask \in BOOLEAN
  PROVE  StatusWord(r, mask) \in Value
<1> DEFINE w(flag, bit) == IF flag THEN bit ELSE 0
<1>1. \A flag \in BOOLEAN, bit \in Nat : w(flag, bit) \in 0 .. bit
  OBVIOUS
<1>2. /\ w(r.ov, StatusBit.ov) \in 0 .. StatusBit.ov
      /\ w(r.ovm, StatusBit.ovm) \in 0 .. StatusBit.ovm
      /\ w(mask, StatusBit.intm) \in 0 .. StatusBit.intm
      /\ w(r.arp = 1, StatusBit.arp) \in 0 .. StatusBit.arp
      /\ w(r.dp = 1, 1) \in 0 .. 1
  BY StatusAssumption DEF Registers
<1>3. /\ StatusBit.ov \in Nat /\ StatusBit.ovm \in Nat /\ StatusBit.intm \in Nat
      /\ StatusBit.arp \in Nat /\ StatusBit.ones \in Nat
  BY StatusAssumption
<1> HIDE DEF w
<1>4. w(r.ov, StatusBit.ov) + w(r.ovm, StatusBit.ovm) + w(mask, StatusBit.intm)
        + w(r.arp = 1, StatusBit.arp) + w(r.dp = 1, 1) + StatusBit.ones \in Value
  BY <1>2, <1>3, StatusAssumption, Widths DEF Value
<1> QED BY <1>4 DEF StatusWord, w

LEMMA StackType ==
  ASSUME NEW s \in [Levels -> Addr], NEW a \in Addr
  PROVE  /\ Push(s, a) \in [Levels -> Addr]
         /\ Pop(s) \in [Levels -> Addr]
         /\ TablePass(s) \in [Levels -> Addr]
         /\ s[0] \in Addr
<1>1. \A i \in Levels : i # 0 => i - 1 \in Levels
  BY DEF Levels
<1>2. \A i \in Levels : i # 3 => i + 1 \in Levels
  BY DEF Levels
<1>3. 0 \in Levels /\ 2 \in Levels /\ 3 \in Levels
  BY DEF Levels
<1> QED BY <1>1, <1>2, <1>3 DEF Push, Pop, TablePass

-----------------------------------------------------------------------------
\* A whole instruction.

LEMMA RegisterTypes ==
  ASSUME NEW r \in Registers
  PROVE  /\ r.acc \in AccVal /\ r.t \in Value /\ r.p \in AccVal
         /\ r.ar \in [Bit -> Value] /\ r.arp \in Bit /\ r.dp \in Bit
         /\ r.ov \in BOOLEAN /\ r.ovm \in BOOLEAN
         /\ r.ar[r.arp] \in Value
BY DEF Registers

LEMMA WordTypes ==
  ASSUME NEW w \in WordType
  PROVE  /\ w.k \in Value /\ w.sh \in Nat /\ w.ar \in Bit /\ w.narp \in Bit
         /\ w.dma \in 0 .. PageWords - 1 /\ w.addr \in Addr /\ w.port \in Nat
         /\ w.ind \in BOOLEAN /\ w.inc \in BOOLEAN /\ w.dec \in BOOLEAN
         /\ w.keep \in BOOLEAN /\ w.canon \in BOOLEAN /\ w.data \in Value
         /\ w.op \in Ops \cup StackOps \cup {"ILLEGAL"}
BY DEF WordType

LEMMA LogicType ==
  ASSUME NEW a \in AccVal, NEW d \in Value
  PROVE  /\ BitAnd(Low(a), d) \in AccVal
         /\ Join(High(a), BitOr(Low(a), d)) \in AccVal
         /\ Join(High(a), BitXor(Low(a), d)) \in AccVal
         /\ Join((High(a) + d) % WordMod, Low(a)) \in AccVal
<1>1. High(a) \in Value /\ Low(a) \in Value
  BY SplitType
<1>2. BitAnd(Low(a), d) \in Value /\ BitOr(Low(a), d) \in Value
        /\ BitXor(Low(a), d) \in Value
  BY <1>1, BitAssumption
<1>3. \A x \in Value : x \in AccVal
  BY Operands
<1>4. (High(a) + d) % WordMod \in Value
  <2>1. High(a) + d \in Int
    BY <1>1 DEF Value
  <2> QED BY <2>1, ModRange, Widths DEF Value
<1>5. \A h, l \in Value : Join(h, l) \in AccVal
  BY JoinType
<1> QED BY <1>1, <1>2, <1>3, <1>4, <1>5

\* The accumulator and the overflow flag of every instruction.
LEMMA AluType ==
  ASSUME NEW w \in WordType, NEW r \in Registers, NEW d \in Value
  PROVE  AluResult(w, r, d) \in [v : AccVal, ov : BOOLEAN]
<1> DEFINE R == [v : AccVal, ov : BOOLEAN]
<1>1. r.acc \in AccVal /\ r.p \in AccVal /\ r.ovm \in BOOLEAN /\ w.k \in Value
        /\ w.sh \in Nat
  BY RegisterTypes, WordTypes
<1>2. ShiftIn(d, w.sh) \in AccVal /\ Join(d, 0) \in AccVal /\ d \in AccVal
        /\ w.k \in AccVal /\ 0 \in AccVal
  BY <1>1, Operands, Widths
<1>3. /\ AddSub(r.acc, ShiftIn(d, w.sh), FALSE, r.ovm) \in R
      /\ AddSub(r.acc, ShiftIn(d, w.sh), TRUE, r.ovm) \in R
      /\ AddSub(r.acc, Join(d, 0), TRUE, r.ovm) \in R
      /\ AddSub(r.acc, r.p, FALSE, r.ovm) \in R
      /\ AddSub(r.acc, r.p, TRUE, r.ovm) \in R
  BY <1>1, <1>2, AccArithmetic
<1>4. /\ AddUnsigned(r.acc, d, r.ovm) \in R
      /\ SubUnsigned(r.acc, d, r.ovm) \in R
      /\ SubConditional(r.acc, d) \in R
  BY <1>1, UnsignedArithmetic, ConditionalSubtract
<1>5. /\ BitAnd(Low(r.acc), d) \in AccVal
      /\ Join(High(r.acc), BitOr(Low(r.acc), d)) \in AccVal
      /\ Join(High(r.acc), BitXor(Low(r.acc), d)) \in AccVal
      /\ Join((High(r.acc) + d) % WordMod, Low(r.acc)) \in AccVal
      /\ AbsAcc(r.acc, r.ovm) \in AccVal
  BY <1>1, LogicType, AbsType
<1>6. \A v \in AccVal : [v |-> v, ov |-> FALSE] \in R
  OBVIOUS
<1> HIDE DEF R
<1>7. AluResult(w, r, d) \in R
  BY <1>1, <1>2, <1>3, <1>4, <1>5, <1>6 DEF AluResult
<1> QED BY <1>7 DEF R

LEMMA SteppedType ==
  ASSUME NEW w \in WordType, NEW r \in Registers
  PROVE  /\ Stepped(w, r) \in Value
         /\ SteppedRegisters(w, r) \in [Bit -> Value]
<1>1. Stepped(w, r) \in Value
  BY CounterType, RegisterTypes DEF Stepped
<1> QED BY <1>1, RegisterTypes DEF SteppedRegisters

LEMMA ExecRegType ==
  ASSUME NEW w \in WordType, NEW r \in Registers, NEW d \in Value
  PROVE  ExecReg(w, r, d) \in Registers
<1>1. AluResult(w, r, d).v \in AccVal /\ AluResult(w, r, d).ov \in BOOLEAN
  BY AluType
<1>2. Product(r.t, d) \in AccVal /\ Product(r.t, w.k) \in AccVal
  BY ProductType, RegisterTypes, WordTypes
<1>3. ArNext(w, r, d) \in [Bit -> Value]
  BY SteppedType, RegisterTypes, WordTypes DEF ArNext
<1>4. d % 2 \in Bit /\ w.k % 2 \in Bit
  BY WordTypes DEF Bit, Value
<1>5. ArpNext(w, r, d) \in Bit
  <2>1. 0 \in Bit /\ 1 \in Bit
    BY DEF Bit
  <2> QED BY <1>4, <2>1, RegisterTypes, WordTypes DEF ArpNext
<1>6. BitSet(d, StatusBit.ov) \in BOOLEAN /\ BitSet(d, StatusBit.ovm) \in BOOLEAN
  BY DEF BitSet
<1> DEFINE P  == CASE w.op = "MPY"  -> Product(r.t, d)
                   [] w.op = "MPYK" -> Product(r.t, w.k)
                   [] OTHER         -> r.p
           Dp == CASE w.op \in {"LDP", "LST"} -> d % 2
                   [] w.op = "LDPK" -> w.k % 2
                   [] OTHER         -> r.dp
           Ovm == CASE w.op = "LST"  -> BitSet(d, StatusBit.ovm)
                    [] w.op = "SOVM" -> TRUE
                    [] w.op = "ROVM" -> FALSE
                    [] OTHER         -> r.ovm
           Ov == IF w.op = "LST" THEN BitSet(d, StatusBit.ov)
                                 ELSE r.ov \/ AluResult(w, r, d).ov
           T  == IF w.op \in {"LT", "LTA", "LTD"} THEN d ELSE r.t
<1>7. P \in AccVal /\ T \in Value
  BY <1>2, RegisterTypes
<1>8. Dp \in Bit
  BY <1>4, RegisterTypes
<1>9. Ov \in BOOLEAN /\ Ovm \in BOOLEAN
  BY <1>1, <1>6, RegisterTypes
<1> HIDE DEF P, Dp, Ovm, Ov, T
<1>10. [acc |-> AluResult(w, r, d).v, t |-> T, p |-> P, ar |-> ArNext(w, r, d),
        arp |-> ArpNext(w, r, d), dp |-> Dp, ov |-> Ov, ovm |-> Ovm] \in Registers
  BY <1>1, <1>3, <1>5, <1>7, <1>8, <1>9 DEF Registers
<1> QED BY <1>10, Zenon DEF ExecReg, P, Dp, Ovm, Ov, T

LEMMA BranchRegType ==
  ASSUME NEW op, NEW r \in Registers
  PROVE  BranchReg(op, r) \in Registers
<1>1. Counter(r.ar[r.arp], FALSE, TRUE) \in Value
  BY CounterType, RegisterTypes
<1> QED BY <1>1, RegisterTypes DEF BranchReg, Registers

LEMMA StoreType ==
  ASSUME NEW w \in WordType, NEW r \in Registers, NEW mask \in BOOLEAN, NEW d \in Value
  PROVE  StoreValue(w, r, mask, d) \in Value
<1>1. ShiftOut(r.acc, w.sh) \in Value /\ Low(r.acc) \in Value
  BY ShiftOutType, SplitType, RegisterTypes, WordTypes
<1>2. r.ar[w.ar] \in Value
  BY RegisterTypes, WordTypes
<1> QED BY <1>1, <1>2, SteppedType, StatusWordType DEF StoreValue

LEMMA AddressType ==
  ASSUME NEW w \in WordType, NEW r \in Registers
  PROVE  EffectiveAddress(w, r) \in Nat
<1>1. r.ar[r.arp] % DaMod \in Nat
  <2>1. r.ar[r.arp] \in Nat
    BY RegisterTypes DEF Value
  <2>2. DaMod \in Nat \ {0}
    BY WidthAssumption
  <2> QED BY <2>1, <2>2, ModRange
<1>2. w.dma % SstWords \in Nat /\ PageWords + (w.dma % SstWords) \in Nat
  <2>1. w.dma \in Nat /\ PageWords \in Nat
    BY WordTypes, WidthAssumption
  <2>2. w.dma % SstWords \in Nat
    BY <2>1, ModRange, WidthAssumption
  <2> QED BY <2>1, <2>2
<1>3. r.dp * PageWords + w.dma \in Nat
  <2>1. r.dp = 0 \/ r.dp = 1
    BY RegisterTypes DEF Bit
  <2> QED BY <2>1, WordTypes, WidthAssumption
<1> QED BY <1>1, <1>2, <1>3 DEF EffectiveAddress

-----------------------------------------------------------------------------
(* What the arithmetic computes, as numbers.                               *)

\* A number one turn outside the range comes back by that turn.
LEMMA OneTurn ==
  ASSUME NEW x \in Int, NEW m \in Nat \ {0}
  PROVE  /\ 0 <= x /\ x < m => x % m = x
         /\ -m <= x /\ x < 0 => x % m = x + m
         /\ m <= x /\ x < 2 * m => x % m = x - m
<1>1. 0 <= x /\ x < m => x % m = x
  OBVIOUS
<1>2. -m <= x /\ x < 0 => x % m = x + m
  OBVIOUS
<1>3. m <= x /\ x < 2 * m => x % m = x - m
  OBVIOUS
<1> QED BY <1>1, <1>2, <1>3

\* Whole turns do not matter.
LEMMA WholeTurn ==
  ASSUME NEW x \in Int, NEW m \in Nat \ {0}
  PROVE  (x + m) % m = x % m /\ (x - m) % m = x % m
<1>1. ASSUME NEW y \in Int
      PROVE  (y + m) % m = y % m
  <2> DEFINE q == y \div m
             r == y % m
             q2 == (y + m) \div m
             r2 == (y + m) % m
             k == q + 1 - q2
  <2>1. q \in Int /\ y = (m * q) + r /\ r \in 0 .. m - 1
    BY <1>1
  <2>2. q2 \in Int /\ y + m = (m * q2) + r2 /\ r2 \in 0 .. m - 1
    BY <1>1
  <2> HIDE DEF q, r, q2, r2
  <2>3. m * k = (m * q) + m - (m * q2) /\ k \in Int
    BY <2>1, <2>2
  <2>4. m * k = r2 - r
    BY <2>1, <2>2, <2>3
  <2>5. k >= 1 => m * k >= m
    BY <2>3
  <2>6. k <= -1 => m * k <= -m
    BY <2>3
  <2>7. k = 0 => m * k = 0
    OBVIOUS
  <2> DEFINE t == m * k
  <2>8. t = r2 - r
    BY <2>4
  <2> HIDE DEF t, k
  <2>9. k = 0
    BY <2>1, <2>2, <2>3, <2>5, <2>6, <2>8 DEF t
  <2>10. r2 = r
    BY <2>1, <2>2, <2>7, <2>8, <2>9 DEF t
  <2> QED BY <2>10 DEF r, r2
<1>2. (x - m) + m = x /\ x - m \in Int
  OBVIOUS
<1> QED BY <1>1, <1>2

\* The accumulator has an even number of values.
LEMMA EvenWidths ==
  /\ WordMod = 2 * (WordMod \div 2) /\ WordMod \div 2 \in Nat \ {0}
  /\ AccMod = 2 * (AccMod \div 2) /\ AccMod \div 2 \in Nat \ {0}
  /\ AccMod \div 2 = WordMod * (WordMod \div 2)
<1> DEFINE h == WordMod \div 2
<1>1. WordMod = 2 * h /\ h \in Nat \ {0}
  BY WidthAssumption
<1> HIDE DEF h
<1>2. AccMod = 2 * (WordMod * h) /\ WordMod * h \in Nat \ {0}
  <2>1. \A m, n \in Nat \ {0} : m * n \in Nat \ {0} /\ m * (2 * n) = 2 * (m * n)
    OBVIOUS
  <2>2. WordMod \in Nat \ {0}
    BY <1>1
  <2> QED BY <1>1, <2>1, <2>2 DEF AccMod
<1>3. \A n \in Nat : (2 * n) \div 2 = n
  OBVIOUS
<1>4. AccMod \div 2 = WordMod * h
  BY <1>2, <1>3
<1> QED BY <1>1, <1>2, <1>4 DEF h

\* The number a pattern stands for, the numbers there are, and the number
\* nearest to x among them.
Number(a) == IF NegAcc(a) THEN a - AccMod ELSE a
Numbers == -(AccMod \div 2) .. AccMod \div 2 - 1
Nearest(x) == IF x \in Numbers THEN x
              ELSE IF x < 0 THEN -(AccMod \div 2) ELSE AccMod \div 2 - 1

LEMMA NumberRange ==
  ASSUME NEW a \in AccVal
  PROVE  /\ Number(a) \in Numbers /\ NegAcc(a) \in BOOLEAN
         /\ (NegAcc(a) <=> Number(a) < 0)
         /\ a = IF Number(a) < 0 THEN Number(a) + AccMod ELSE Number(a)
         /\ Number(MinAcc) = -(AccMod \div 2) /\ Number(MaxAcc) = AccMod \div 2 - 1
<1> DEFINE M == AccMod \div 2
<1>1. AccMod = 2 * M /\ M \in Nat \ {0}
  BY EvenWidths
<1>2. MinAcc = M /\ MaxAcc = M - 1 /\ Numbers = -M .. M - 1
  BY DEF MinAcc, MaxAcc, Numbers
<1> HIDE DEF M
<1>3. \A x : NegAcc(x) <=> x >= M
  BY DEF M, NegAcc
<1>4. \A x : Number(x) = IF x >= M THEN x - AccMod ELSE x
  BY <1>3 DEF Number
<1>5. a \in 0 .. 2 * M - 1
  BY <1>1 DEF AccVal
<1>6. NegAcc(a) \in BOOLEAN
  BY DEF NegAcc
<1>7. /\ Number(a) \in -M .. M - 1 /\ (NegAcc(a) <=> Number(a) < 0)
      /\ a = IF Number(a) < 0 THEN Number(a) + AccMod ELSE Number(a)
  BY <1>1, <1>3, <1>4, <1>5
<1>8. Number(MinAcc) = -M /\ Number(MaxAcc) = M - 1
  BY <1>1, <1>2, <1>4
<1> QED BY <1>2, <1>6, <1>7, <1>8 DEF M

\* The pattern of a number that is at most one turn out of range.
LEMMA NumberOfMod ==
  ASSUME NEW x \in Int, -AccMod <= x, x < AccMod
  PROVE  /\ x % AccMod \in AccVal
         /\ Number(x % AccMod) = IF x \in Numbers THEN x
                                 ELSE IF x < 0 THEN x + AccMod ELSE x - AccMod
<1> DEFINE M == AccMod \div 2
<1>1. AccMod = 2 * M /\ M \in Nat \ {0} /\ AccMod \in Nat \ {0}
  BY EvenWidths, Widths
<1>2. Numbers = -M .. M - 1
  BY DEF Numbers
<1> HIDE DEF M
<1>3. \A y : Number(y) = IF y >= M THEN y - AccMod ELSE y
  BY DEF M, NegAcc, Number
<1>4. x % AccMod = IF x < 0 THEN x + AccMod ELSE x
  <2>1. AccMod \in Nat \ {0}
    BY Widths
  <2>2. CASE x < 0
    BY <2>1, <2>2, OneTurn
  <2>3. CASE ~(x < 0)
    BY <2>1, <2>3, OneTurn
  <2> QED BY <2>2, <2>3
<1>5. x % AccMod \in AccVal
  BY <1>1, ModRange DEF AccVal
<1> QED BY <1>1, <1>2, <1>3, <1>4, <1>5

(* ADD, SUB, SUBH, APAC, SPAC, LTA and LTD: OV reports exactly the sums that   *)
(* the accumulator cannot hold; without OVM the result is the sum modulo the   *)
(* accumulator, under OVM it is the nearest number there is                    *)
(* (tms32010_accumulator.sv).                                                  *)
THEOREM AddSubExact ==
  ASSUME NEW a \in AccVal, NEW b \in AccVal, NEW sub \in BOOLEAN, NEW ovm \in BOOLEAN
  PROVE  LET exact == IF sub THEN Number(a) - Number(b) ELSE Number(a) + Number(b)
             result == AddSub(a, b, sub, ovm)
         IN /\ result.ov <=> exact \notin Numbers
            /\ ~ovm => result.v = exact % AccMod
            /\ ovm => Number(result.v) = Nearest(exact)
            /\ ~result.ov => Number(result.v) = exact
<1> DEFINE M == AccMod \div 2
           x == Number(a)
           y == Number(b)
           exact == IF sub THEN x - y ELSE x + y
           pattern == IF sub THEN a - b ELSE a + b
           w == pattern % AccMod
<1>1. AccMod = 2 * M /\ M \in Nat \ {0} /\ AccMod \in Nat \ {0}
  BY EvenWidths, Widths
<1>2. /\ x \in Numbers /\ NegAcc(a) \in BOOLEAN /\ (NegAcc(a) <=> x < 0)
      /\ a = IF x < 0 THEN x + AccMod ELSE x
      /\ y \in Numbers /\ NegAcc(b) \in BOOLEAN /\ (NegAcc(b) <=> y < 0)
      /\ b = IF y < 0 THEN y + AccMod ELSE y
      /\ Number(MinAcc) = -M /\ Number(MaxAcc) = M - 1
  BY NumberRange
<1>3. Numbers = -M .. M - 1
  BY DEF Numbers
<1> HIDE DEF M, x, y
<1>4. x \in Int /\ y \in Int /\ exact \in Int /\ -AccMod <= exact /\ exact < AccMod
  BY <1>1, <1>2, <1>3
<1>5. pattern \in {exact - AccMod, exact, exact + AccMod, exact + 2 * AccMod}
  BY <1>1, <1>2, <1>4
<1>6. w = exact % AccMod
  <2>1. AccMod \in Nat \ {0} /\ AccMod \in Int
    BY Widths
  <2>2. (exact - AccMod) % AccMod = exact % AccMod
        /\ (exact + AccMod) % AccMod = exact % AccMod
    BY <1>4, <2>1, WholeTurn
  <2>3. (exact + AccMod) + AccMod = exact + 2 * AccMod /\ exact + AccMod \in Int
    BY <1>4, <2>1
  <2>4. (exact + 2 * AccMod) % AccMod = exact % AccMod
    <3>1. ((exact + AccMod) + AccMod) % AccMod = (exact + AccMod) % AccMod
      BY <2>1, <2>3, WholeTurn
    <3> QED BY <2>2, <2>3, <3>1
  <2> HIDE DEF exact, pattern
  <2> QED BY <1>5, <2>2, <2>4
<1>7. w \in AccVal /\ Number(w) = IF exact \in Numbers THEN exact
                                  ELSE IF exact < 0 THEN exact + AccMod ELSE exact - AccMod
  BY <1>4, <1>6, NumberOfMod
<1>8. NegAcc(w) \in BOOLEAN /\ (NegAcc(w) <=> Number(w) < 0)
  BY <1>7, NumberRange
<1> DEFINE ov == (NegAcc(a) = NegAcc(b)) # sub /\ NegAcc(a) # NegAcc(w)
           v == IF ovm /\ ov THEN IF NegAcc(a) THEN MinAcc ELSE MaxAcc ELSE w
<1>9. AddSub(a, b, sub, ovm) = [v |-> v, ov |-> ov]
  BY DEF AddSub
<1> HIDE DEF w
<1>10. ov <=> exact \notin Numbers
  <2>1. exact \in Numbers <=> -M <= exact /\ exact <= M - 1
    BY <1>3, <1>4
  <2>2. ~(-M <= exact) => Number(w) >= 0 /\ x < 0 /\ (sub => y >= 0) /\ (~sub => y < 0)
    BY <1>1, <1>2, <1>3, <1>4, <1>7, <2>1
  <2>3. ~(exact <= M - 1) => Number(w) < 0 /\ x >= 0 /\ (sub => y < 0) /\ (~sub => y >= 0)
    BY <1>1, <1>2, <1>3, <1>4, <1>7, <2>1
  <2>4. exact \in Numbers => Number(w) = exact
    BY <1>7
  <2>5. ((x < 0) = (y < 0)) # sub /\ (x < 0) # (exact < 0) => exact \notin Numbers
    BY <1>1, <1>2, <1>3, <1>4, <2>1
  <2>6. ov <=> /\ sub => ~(x < 0 <=> y < 0)
               /\ ~sub => (x < 0 <=> y < 0)
               /\ ~(x < 0 <=> Number(w) < 0)
    <3> DEFINE p == x < 0 q == y < 0 n == Number(w) < 0
    <3>1. NegAcc(a) = p /\ NegAcc(b) = q /\ NegAcc(w) = n
      BY <1>2, <1>8
    <3> HIDE DEF p, q, n
    <3>2. ov <=> (p = q) # sub /\ p # n
      BY <3>1
    <3>3. p \in BOOLEAN /\ q \in BOOLEAN /\ n \in BOOLEAN
      BY <1>2, <1>8, <3>1
    <3>4. ov <=> /\ sub => ~(p <=> q)
                 /\ ~sub => (p <=> q)
                 /\ ~(p <=> n)
      BY <3>2, <3>3
    <3> QED BY <3>4 DEF p, q, n
  <2> HIDE DEF ov
  <2>7. CASE exact \in Numbers
    BY <2>4, <2>5, <2>6, <2>7
  <2> DEFINE n == Number(w)
  <2>11. n \in Int
    BY <1>1, <1>4, <1>7
  <2> HIDE DEF n, exact
  <2>8. CASE ~(-M <= exact)
    <3>1. x < 0 /\ ~(n < 0) /\ (sub => ~(y < 0)) /\ (~sub => y < 0)
      BY <1>4, <2>2, <2>8, <2>11 DEF n
    <3> QED BY <2>1, <2>6, <2>8, <3>1 DEF n
  <2>9. CASE ~(exact <= M - 1)
    <3>1. ~(x < 0) /\ n < 0 /\ (sub => y < 0) /\ (~sub => ~(y < 0))
      BY <1>4, <2>3, <2>9, <2>11 DEF n
    <3> QED BY <2>1, <2>6, <2>9, <3>1 DEF n
  <2>10. exact \in Numbers \/ ~(-M <= exact) \/ ~(exact <= M - 1)
    BY <2>1
  <2> QED BY <2>7, <2>8, <2>9, <2>10
<1>11. ~ovm => v = exact % AccMod
  BY <1>6 DEF w
<1>12. ~ov => Number(v) = exact
  BY <1>7, <1>10
<1>13. ovm => Number(v) = Nearest(exact)
  BY <1>2, <1>3, <1>4, <1>7, <1>10 DEF Nearest, M
<1> HIDE DEF v, ov
<1> QED BY <1>9, <1>10, <1>11, <1>12, <1>13 DEF x, y

\* A word is not negative as an accumulator value.
LEMMA WordPositive ==
  ASSUME NEW d \in Value
  PROVE  NegAcc(d) = FALSE
<1>1. WordMod \in Nat /\ WordMod >= 2
  BY WidthAssumption
<1>2. \A n \in Nat : n >= 2 => 2 * n <= n * n
  OBVIOUS
<1>3. \A n \in Nat : n * n \in Nat
  OBVIOUS
<1>4. WordMod <= AccMod \div 2
  BY <1>1, <1>2, <1>3 DEF AccMod
<1>5. AccMod \div 2 \in Int
  BY Widths DEF AccVal
<1> QED BY <1>1, <1>4, <1>5 DEF NegAcc, Value

\* The unsigned arithmetic of ADDS and SUBS is the signed one of a word.
LEMMA UnsignedSame ==
  ASSUME NEW a \in AccVal, NEW d \in Value, NEW ovm \in BOOLEAN
  PROVE  /\ AddUnsigned(a, d, ovm) = AddSub(a, d, FALSE, ovm)
         /\ SubUnsigned(a, d, ovm) = AddSub(a, d, TRUE, ovm)
<1>1. NegAcc(d) = FALSE
  BY WordPositive
<1>2. \A x : NegAcc(x) \in BOOLEAN
  BY DEF NegAcc
<1>3. AddUnsigned(a, d, ovm) = AddSub(a, d, FALSE, ovm)
  BY <1>1, <1>2 DEF AddUnsigned, AddSub
<1>4. SubUnsigned(a, d, ovm) = AddSub(a, d, TRUE, ovm)
  BY <1>1, <1>2 DEF SubUnsigned, AddSub
<1> QED BY <1>3, <1>4

(* ADDS and SUBS add and subtract the word as it is, without a sign; their     *)
(* overflow and saturation are those of the accumulator unit.                  *)
THEOREM UnsignedExact ==
  ASSUME NEW a \in AccVal, NEW d \in Value, NEW ovm \in BOOLEAN
  PROVE  LET sum == AddUnsigned(a, d, ovm)
             difference == SubUnsigned(a, d, ovm)
         IN /\ sum.ov <=> Number(a) + d \notin Numbers
            /\ difference.ov <=> Number(a) - d \notin Numbers
            /\ ovm => /\ Number(sum.v) = Nearest(Number(a) + d)
                      /\ Number(difference.v) = Nearest(Number(a) - d)
            /\ ~ovm => /\ sum.v = (Number(a) + d) % AccMod
                       /\ difference.v = (Number(a) - d) % AccMod
<1>1. d \in AccVal
  BY Operands, WidthAssumption
<1>2. Number(d) = d
  BY WordPositive DEF Number
<1> DEFINE sum == AddSub(a, d, FALSE, ovm)
           difference == AddSub(a, d, TRUE, ovm)
<1>3. /\ sum.ov <=> Number(a) + Number(d) \notin Numbers
      /\ ~ovm => sum.v = (Number(a) + Number(d)) % AccMod
      /\ ovm => Number(sum.v) = Nearest(Number(a) + Number(d))
  BY <1>1, AddSubExact
<1>4. /\ difference.ov <=> Number(a) - Number(d) \notin Numbers
      /\ ~ovm => difference.v = (Number(a) - Number(d)) % AccMod
      /\ ovm => Number(difference.v) = Nearest(Number(a) - Number(d))
  BY <1>1, AddSubExact
<1> HIDE DEF sum, difference
<1> QED BY <1>2, <1>3, <1>4, UnsignedSame DEF sum, difference

\* Quotient and remainder are unique.
LEMMA Quotient ==
  ASSUME NEW m \in Nat \ {0}, NEW q \in Int, NEW r \in 0 .. m - 1
  PROVE  (m * q + r) % m = r /\ (m * q + r) \div m = q
<1> DEFINE x == m * q + r
           s == x % m
           p == x \div m
           k == p - q
<1>1. x \in Int /\ x - r = m * q
  <2>1. m * q \in Int
    OBVIOUS
  <2> QED BY <2>1
<1>2. p \in Int /\ s \in 0 .. m - 1 /\ x - s = m * p
  <2> HIDE DEF x
  <2>1. p \in Int /\ s \in 0 .. m - 1 /\ x = (m * p) + s
    BY <1>1
  <2>2. m * p \in Int
    BY <2>1
  <2> HIDE DEF p, s
  <2> QED BY <1>1, <2>1, <2>2
<1> HIDE DEF x, s, p
<1>3. m * k = r - s /\ k \in Int
  BY <1>1, <1>2
<1>4. (k >= 1 => m * k >= m) /\ (k <= -1 => m * k <= -m) /\ (k = 0 => m * k = 0)
  BY <1>3
<1> DEFINE t == m * k
<1>5. t = r - s
  BY <1>3
<1> HIDE DEF t, k
<1>6. k = 0 /\ t = 0
  BY <1>2, <1>3, <1>4, <1>5 DEF t
<1>7. p = q /\ s = r
  BY <1>2, <1>5, <1>6 DEF k
<1> QED BY <1>7 DEF x, s, p

\* A product of a factor and a bounded one is bounded.
LEMMA Monotone ==
  ASSUME NEW a \in Int, NEW b \in Int, a <= b, NEW c \in Nat
  PROVE  a * c <= b * c /\ a * c \in Int /\ b * c \in Int
<1>1. (b - a) * c >= 0 /\ b - a \in Nat
  OBVIOUS
<1>2. (b - a) * c = b * c - a * c /\ a * c \in Int /\ b * c \in Int
  OBVIOUS
<1> QED BY <1>1, <1>2

(* The dividing loop of SUBC: a is what ACC holds after m has been doubled once *)
(* for each step, q the quotient bits so far.                                  *)
Dividing(n, d, m, q, a) ==
  /\ a \in 0 .. d * WordMod - 1
  /\ m \in Nat \ {0} /\ q \in 0 .. m - 1
  /\ m * n = a + q * (d * WordMod - 1)

LEMMA SubcStep ==
  ASSUME NEW d \in Value \ {0}, NEW a \in 0 .. d * WordMod - 1
  PROVE  LET result == SubConditional(a, d).v
         IN /\ result \in 0 .. d * WordMod - 1
            /\ \E bit \in 0 .. 1 : result = 2 * a - bit * (d * WordMod - 1)
<1> DEFINE h == WordMod \div 2
           D == d * h
           M == AccMod \div 2
           trial == (a - D) % AccMod
           result == SubConditional(a, d).v
<1>1. /\ WordMod = 2 * h /\ h \in Nat \ {0} /\ AccMod = 2 * M /\ M \in Nat \ {0}
      /\ M = WordMod * h /\ AccMod \in Nat \ {0} /\ d \in Nat \ {0} /\ d < WordMod
  BY EvenWidths, Widths DEF Value
<1> HIDE DEF h, M
<1>2. D \in Nat \ {0} /\ d * WordMod = 2 * D
  BY <1>1
<1>3. D < M
  <2>1. D <= (WordMod - 1) * h /\ (WordMod - 1) * h = WordMod * h - h
    BY <1>1, Monotone
  <2> QED BY <1>1, <1>2, <2>1
<1>4. result = IF NegAcc(trial) THEN (2 * a) % AccMod ELSE (2 * trial + 1) % AccMod
  BY DEF SubConditional, h
<1> HIDE DEF D, trial, result
<1>5. a \in 0 .. 2 * D - 1
  BY <1>2
<1>6. \A x : NegAcc(x) <=> x >= M
  BY DEF NegAcc, M
<1>9. AccMod \in Nat \ {0}
  BY <1>1
<1>7. CASE a < D
  <2>1. trial = a - D + AccMod
    <3>1. a - D \in Int /\ -AccMod <= a - D /\ a - D < 0
      BY <1>1, <1>2, <1>3, <1>5, <1>7
    <3> QED BY <1>9, <3>1, OneTurn DEF trial
  <2>2. NegAcc(trial)
    BY <1>1, <1>2, <1>3, <1>5, <1>6, <2>1
  <2>3. (2 * a) % AccMod = 2 * a
    <3>1. 2 * a \in Int /\ 0 <= 2 * a /\ 2 * a < AccMod
      BY <1>1, <1>2, <1>3, <1>5, <1>7
    <3> QED BY <1>9, <3>1, OneTurn
  <2>4. result = 2 * a - 0 * (d * WordMod - 1) /\ result \in 0 .. d * WordMod - 1
    BY <1>2, <1>4, <1>5, <1>7, <2>2, <2>3
  <2> QED BY <2>4 DEF result
<1>8. CASE ~(a < D)
  <2>1. trial = a - D
    <3>1. a - D \in Int /\ 0 <= a - D /\ a - D < AccMod
      BY <1>1, <1>2, <1>3, <1>5, <1>8
    <3> QED BY <1>9, <3>1, OneTurn DEF trial
  <2>2. ~NegAcc(trial)
    BY <1>1, <1>2, <1>3, <1>5, <1>6, <1>8, <2>1
  <2>3. (2 * trial + 1) % AccMod = 2 * trial + 1
    <3>1. 2 * trial + 1 \in Int /\ 0 <= 2 * trial + 1 /\ 2 * trial + 1 < AccMod
      BY <1>1, <1>2, <1>3, <1>5, <1>8, <2>1
    <3> QED BY <1>9, <3>1, OneTurn
  <2>4. result = 2 * a - 1 * (d * WordMod - 1) /\ result \in 0 .. d * WordMod - 1
    BY <1>2, <1>4, <1>5, <1>8, <2>1, <2>2, <2>3
  <2> QED BY <2>4 DEF result
<1> QED BY <1>7, <1>8

(* A SUBC for each bit of a word divides: from a dividend in ACC and a divisor *)
(* in memory the loop ends with the remainder in the upper half of ACC and the *)
(* quotient in the lower (test_sixteen_legally_spaced_steps_match_ti_divide_   *)
(* example has 65 / 7; docs/architecture/instruction_set.md:176).              *)
THEOREM SubcDivides ==
  ASSUME NEW d \in Value \ {0}, NEW n \in Nat
  PROVE  /\ n < d * WordMod => Dividing(n, d, 1, 0, n)
         /\ \A m, q, a : Dividing(n, d, m, q, a) =>
              \E bit \in 0 .. 1 :
                Dividing(n, d, 2 * m, 2 * q + bit, SubConditional(a, d).v)
         /\ \A q, a : Dividing(n, d, WordMod, q, a) =>
              High(a) = n % d /\ Low(a) = n \div d
<1> DEFINE W == d * WordMod
<1>1. W \in Nat \ {0} /\ WordMod \in Nat \ {0} /\ d \in Nat \ {0}
  BY Widths DEF Value
<1>2. n < W => Dividing(n, d, 1, 0, n)
  BY <1>1 DEF Dividing
<1>3. ASSUME NEW m, NEW q, NEW a, Dividing(n, d, m, q, a)
      PROVE  \E bit \in 0 .. 1 :
               Dividing(n, d, 2 * m, 2 * q + bit, SubConditional(a, d).v)
  <2> DEFINE result == SubConditional(a, d).v
  <2>1. /\ a \in 0 .. W - 1 /\ m \in Nat \ {0} /\ q \in 0 .. m - 1
        /\ m * n = a + q * (W - 1)
    BY <1>3 DEF Dividing
  <2>2. PICK bit \in 0 .. 1 : result = 2 * a - bit * (W - 1) /\ result \in 0 .. W - 1
    BY <2>1, SubcStep
  <2> HIDE DEF W, result
  <2>3. (2 * q + bit) * (W - 1) = 2 * (q * (W - 1)) + bit * (W - 1)
    BY <1>1, <2>1
  <2>4. (2 * m) * n = 2 * (m * n) /\ m * n \in Int /\ q * (W - 1) \in Int
        /\ bit * (W - 1) \in Int
    BY <1>1, <2>1
  <2>5. (2 * m) * n = result + (2 * q + bit) * (W - 1)
    BY <1>1, <2>1, <2>2, <2>3, <2>4
  <2>6. 2 * m \in Nat \ {0} /\ 2 * q + bit \in 0 .. 2 * m - 1
    BY <2>1
  <2> QED BY <2>2, <2>5, <2>6 DEF Dividing, W, result
<1>4. ASSUME NEW q, NEW a, Dividing(n, d, WordMod, q, a)
      PROVE  High(a) = n % d /\ Low(a) = n \div d
  <2> DEFINE r == n - d * q
  <2>1. /\ a \in 0 .. W - 1 /\ q \in 0 .. WordMod - 1
        /\ WordMod * n = a + q * (W - 1)
    BY <1>4 DEF Dividing
  <2>2. d * q \in Int /\ r \in Int
    BY <1>1, <2>1
  <2>3. a = WordMod * r + q
    <3>1. q * (W - 1) = WordMod * (d * q) - q
      BY <1>1, <2>1
    <3>2. WordMod * (n - d * q) = WordMod * n - WordMod * (d * q)
          /\ WordMod * n \in Int /\ WordMod * (d * q) \in Int
      BY <1>1, <2>1, <2>2
    <3> QED BY <2>1, <3>1, <3>2
  <2>4. a % WordMod = q /\ a \div WordMod = r
    BY <1>1, <2>1, <2>2, <2>3, Quotient
  <2>5. r \in 0 .. d - 1
    <3>1. WordMod * r < WordMod * d /\ -WordMod < WordMod * r
      BY <1>1, <2>1, <2>2, <2>3
    <3>2. r < d /\ r > -1
      <4>1. r >= d => WordMod * r >= WordMod * d
        BY <1>1, <2>2, Monotone
      <4>2. r <= -1 => WordMod * r <= -WordMod
        BY <1>1, <2>2
      <4> QED BY <1>1, <2>2, <3>1, <4>1, <4>2
    <3> QED BY <1>1, <2>2, <3>2
  <2>6. n = d * q + r
    BY <1>1, <2>2
  <2>7. n % d = r /\ n \div d = q
    BY <1>1, <2>1, <2>2, <2>5, <2>6, Quotient
  <2> QED BY <2>4, <2>7 DEF High, Low
<1> HIDE DEF W
<1> QED BY <1>2, <1>3, <1>4 DEF W

\* The number a word stands for.
LEMMA SignedRange ==
  ASSUME NEW x \in Value
  PROVE  /\ Signed(x) \in -(WordMod \div 2) .. WordMod \div 2 - 1
         /\ (Signed(x) = -(WordMod \div 2) <=> x = WordMod \div 2)
<1> DEFINE h == WordMod \div 2
<1>1. WordMod = 2 * h /\ h \in Nat \ {0}
  BY EvenWidths
<1> HIDE DEF h
<1>2. Signed(x) = IF x >= h THEN x - WordMod ELSE x
  BY DEF Signed, h
<1>3. /\ Signed(x) \in -h .. h - 1
      /\ (Signed(x) = -h <=> x = h)
  BY <1>1, <1>2 DEF Value
<1> QED BY <1>3 DEF h

(* MPY and MPYK multiply exactly, but for the most negative word by itself,    *)
(* where the chip has C0000000, the negated product (tms32010_multiplier.sv,   *)
(* SPRU001B p. 3-43).                                                          *)
THEOREM ProductExact ==
  ASSUME NEW x \in Value, NEW y \in Value
  PROVE  LET exact == Signed(x) * Signed(y)
             least == WordMod \div 2
         IN Number(Product(x, y)) = IF x = least /\ y = least THEN -exact ELSE exact
<1> DEFINE h == WordMod \div 2
           M == AccMod \div 2
           hh == h * h
           u == Signed(x)
           v == Signed(y)
           exact == u * v
<1>1. /\ WordMod = 2 * h /\ h \in Nat \ {0} /\ AccMod = 2 * M /\ M \in Nat \ {0}
      /\ M = WordMod * h /\ AccMod \in Nat \ {0}
  BY EvenWidths, Widths
<1>2. /\ u \in -h .. h - 1 /\ (u = -h <=> x = h)
      /\ v \in -h .. h - 1 /\ (v = -h <=> y = h)
  BY SignedRange
<1> HIDE DEF h, M, u, v
<1>3. M = 2 * hh /\ hh \in Nat \ {0}
  <2>1. (2 * h) * h = 2 * (h * h) /\ h * h \in Nat \ {0}
    BY <1>1
  <2> QED BY <1>1, <2>1
<1>4. exact \in Int /\ -hh <= exact /\ exact <= hh
  <2>1. \A m, n \in Int : m * n \in Int /\ m * n = n * m /\ m * (-n) = -(m * n)
                          /\ (-m) * n = -(m * n) /\ (-m) * (-n) = m * n
    OBVIOUS
  <2>2. \A m, n \in 0 .. h : m * n \in Int /\ 0 <= m * n /\ m * n <= h * h
    <3> SUFFICES ASSUME NEW m \in 0 .. h, NEW n \in 0 .. h
                 PROVE  m * n \in Int /\ 0 <= m * n /\ m * n <= h * h
      OBVIOUS
    <3>1. m * n <= h * n /\ 0 * n <= m * n
      BY <1>1, Monotone
    <3>2. n * h <= h * h
      BY <1>1, Monotone
    <3>3. h * n = n * h /\ 0 * n = 0 /\ m * n \in Int /\ n * h \in Int /\ h * h \in Int
      BY <1>1
    <3> QED BY <3>1, <3>2, <3>3
  <2>3. CASE u >= 0 /\ v >= 0
    BY <1>1, <1>2, <1>3, <2>2, <2>3
  <2>4. CASE u >= 0 /\ v < 0
    <3>1. u \in 0 .. h /\ -v \in 0 .. h
      BY <1>1, <1>2, <2>4
    <3>2. u * (-v) = -(u * v) /\ u * v \in Int
      BY <1>2, <2>1
    <3>3. 0 <= u * (-v) /\ u * (-v) <= h * h
      BY <2>2, <3>1
    <3> QED BY <1>3, <3>2, <3>3
  <2>5. CASE u < 0 /\ v >= 0
    <3>1. -u \in 0 .. h /\ v \in 0 .. h
      BY <1>1, <1>2, <2>5
    <3>2. (-u) * v = -(u * v) /\ u * v \in Int
      BY <1>2, <2>1
    <3>3. 0 <= (-u) * v /\ (-u) * v <= h * h
      BY <2>2, <3>1
    <3> QED BY <1>3, <3>2, <3>3
  <2>6. CASE u < 0 /\ v < 0
    <3>1. -u \in 0 .. h /\ -v \in 0 .. h
      BY <1>1, <1>2, <2>6
    <3>2. (-u) * (-v) = u * v /\ u * v \in Int
      BY <1>2, <2>1
    <3>3. 0 <= (-u) * (-v) /\ (-u) * (-v) <= h * h
      BY <2>2, <3>1
    <3> QED BY <1>3, <3>2, <3>3
  <2> QED BY <1>1, <1>2, <2>3, <2>4, <2>5, <2>6
<1>5. Numbers = -M .. M - 1
  BY DEF Numbers, M
<1>6. CASE x = h /\ y = h
  <2>1. Product(x, y) = (3 * (AccMod \div 4)) % AccMod
    BY <1>6 DEF Product, h
  <2>2. AccMod = 4 * hh
    BY <1>1, <1>3
  <2> HIDE DEF hh, exact
  <2>3. AccMod \div 4 = hh
    BY <1>3, <2>2
  <2>4. (3 * hh) % AccMod = 3 * hh
    <3>1. 3 * hh \in Int /\ 0 <= 3 * hh /\ 3 * hh < AccMod /\ AccMod \in Nat \ {0}
      BY <1>1, <1>3, <2>2
    <3> QED BY <3>1, OneTurn
  <2>5. Number(3 * hh) = -hh
    <3>1. 3 * hh >= M
      BY <1>3
    <3> QED BY <1>3, <2>2, <3>1 DEF Number, NegAcc, M
  <2>6. exact = hh
    <3>1. u = -h /\ v = -h
      BY <1>2, <1>6
    <3>2. (-h) * (-h) = h * h
      BY <1>1
    <3> QED BY <3>1, <3>2 DEF exact, hh
  <2> QED BY <1>6, <2>1, <2>3, <2>4, <2>5, <2>6 DEF exact, u, v, h
<1>7. CASE ~(x = h /\ y = h)
  <2>1. Product(x, y) = exact % AccMod
    BY <1>7 DEF Product, h, u, v
  <2> HIDE DEF hh, exact
  <2>2. exact \in Numbers /\ -AccMod <= exact /\ exact < AccMod
    BY <1>1, <1>3, <1>4, <1>5
  <2>3. Number(exact % AccMod) = exact
    BY <1>4, <2>2, NumberOfMod
  <2> QED BY <1>7, <2>1, <2>3 DEF exact, u, v, h
<1> QED BY <1>6, <1>7

(* The input shifter sign-extends: the number it delivers is the word times the *)
(* power of two, for every shift the instructions have                         *)
(* (tms32010_input_shifter.sv).                                                *)
THEOREM ShiftInExact ==
  ASSUME NEW d \in Value, NEW sh \in Nat \ {0}, sh <= WordMod
  PROVE  Number(ShiftIn(d, sh)) = Signed(d) * sh
<1> DEFINE h == WordMod \div 2
           M == AccMod \div 2
           u == Signed(d)
           exact == u * sh
<1>1. /\ WordMod = 2 * h /\ h \in Nat \ {0} /\ AccMod = 2 * M /\ M \in Nat \ {0}
      /\ M = WordMod * h /\ AccMod \in Nat \ {0}
  BY EvenWidths, Widths
<1>2. u \in -h .. h - 1
  BY SignedRange
<1>3. Numbers = -M .. M - 1
  BY DEF Numbers
<1> HIDE DEF h, M, u
<1>4. -M <= exact /\ exact <= M - 1 /\ exact \in Int
  <2>1. (-h) * sh <= u * sh /\ u * sh <= (h - 1) * sh /\ u * sh \in Int
    BY <1>1, <1>2, Monotone
  <2>2. sh * h <= WordMod * h
    BY <1>1, Monotone
  <2>3. (-h) * sh = -(sh * h) /\ (h - 1) * sh = sh * h - sh /\ sh * h \in Int
    BY <1>1
  <2> QED BY <1>1, <2>1, <2>2, <2>3
<1> HIDE DEF exact
<1>5. exact \in Numbers /\ -AccMod <= exact /\ exact < AccMod
  BY <1>1, <1>3, <1>4
<1>6. Number(exact % AccMod) = exact
  BY <1>4, <1>5, NumberOfMod
<1> QED BY <1>6 DEF ShiftIn, exact, u

(* ABS: under OVM the nearest number to the magnitude; without it the most     *)
(* negative number keeps its pattern (docs/architecture/instruction_set.md:690).*)
THEOREM AbsExact ==
  ASSUME NEW a \in AccVal, NEW ovm \in BOOLEAN
  PROVE  LET magnitude == IF Number(a) < 0 THEN -Number(a) ELSE Number(a)
         IN Number(AbsAcc(a, ovm)) = IF ovm \/ a # MinAcc THEN Nearest(magnitude)
                                     ELSE Number(MinAcc)
<1> DEFINE M == AccMod \div 2
           x == Number(a)
<1>1. AccMod = 2 * M /\ M \in Nat \ {0} /\ AccMod \in Nat \ {0}
  BY EvenWidths, Widths
<1>2. /\ x \in Numbers /\ NegAcc(a) \in BOOLEAN /\ (NegAcc(a) <=> x < 0)
      /\ a = IF x < 0 THEN x + AccMod ELSE x
      /\ Number(MinAcc) = -M /\ Number(MaxAcc) = M - 1 /\ MinAcc = M
  BY NumberRange DEF MinAcc
<1>3. Numbers = -M .. M - 1
  BY DEF Numbers
<1>4. \A y : Nearest(y) = IF y \in Numbers THEN y
                          ELSE IF y < 0 THEN -M ELSE M - 1
  BY DEF Nearest
<1>7. \A y : Number(y) = IF y >= M THEN y - AccMod ELSE y
  BY DEF Number, NegAcc
<1> HIDE DEF M, x
<1>5. CASE ~(x < 0)
  BY <1>2, <1>3, <1>4, <1>5 DEF AbsAcc, x
<1>6. CASE x < 0
  <2>1. AccMod - a = -x /\ -x \in Int /\ 0 <= -x /\ -x < AccMod
    BY <1>1, <1>2, <1>3, <1>6
  <2>2. (AccMod - a) % AccMod = -x
    BY <1>1, <2>1, OneTurn
  <2>3. AbsAcc(a, ovm) = IF ovm /\ a = MinAcc THEN MaxAcc ELSE -x
    BY <1>2, <1>6, <2>2 DEF AbsAcc
  <2>4. a = MinAcc <=> x = -M
    BY <1>1, <1>2, <1>3, <1>6
  <2>5. CASE x = -M
    <3>1. ~(-x \in Numbers) /\ -x = MinAcc /\ ~(-x < 0)
      BY <1>1, <1>2, <1>3, <2>5
    <3>2. Nearest(-x) = M - 1
      BY <1>4, <3>1
    <3> QED BY <1>2, <1>6, <2>3, <2>4, <2>5, <3>1, <3>2 DEF x
  <2>6. CASE x # -M
    <3>1. -x \in Numbers /\ -x >= 0 /\ -x < M
      BY <1>1, <1>2, <1>3, <1>6, <2>6
    <3>2. Number(-x) = -x
      BY <1>1, <1>7, <2>1, <3>1
    <3>3. Nearest(-x) = -x
      BY <1>4, <3>1
    <3> QED BY <1>6, <2>3, <2>4, <2>6, <3>2, <3>3 DEF x
  <2> QED BY <2>5, <2>6
<1> QED BY <1>5, <1>6

(* The selected counter is AR[8:0]: it wraps on its own and the bits above it   *)
(* keep their value (tms32010_auxiliary_counter.sv).                           *)
THEOREM CounterExact ==
  ASSUME NEW v \in Value, NEW inc \in BOOLEAN, NEW dec \in BOOLEAN
  PROVE  LET result == Counter(v, inc, dec)
             step == IF inc /\ ~dec THEN 1 ELSE IF dec /\ ~inc THEN -1 ELSE 0
         IN /\ result \div CtrMod = v \div CtrMod
            /\ result % CtrMod = ((v % CtrMod) + step) % CtrMod
<1> DEFINE field == v % CtrMod
           upper == v \div CtrMod
           step == IF inc /\ ~dec THEN 1 ELSE IF dec /\ ~inc THEN -1 ELSE 0
           next == (field + step) % CtrMod
<1>1. CtrMod \in Nat \ {0} /\ v \in Nat
  BY WidthAssumption DEF Value
<1>2. upper \in Int /\ field \in 0 .. CtrMod - 1 /\ v = (CtrMod * upper) + field
  BY <1>1
<1>3. CtrMod * upper \in Int
  BY <1>1, <1>2
<1>4. next \in 0 .. CtrMod - 1
  BY <1>1, <1>2, ModRange
<1>5. step = 0 => next = field
  <2> HIDE DEF field
  <2>1. field \in Int /\ 0 <= field /\ field < CtrMod
    BY <1>1, <1>2
  <2>2. field % CtrMod = field /\ field + 0 = field
    BY <1>1, <2>1, OneTurn
  <2> HIDE DEF step
  <2> QED BY <2>2
<1>6. Counter(v, inc, dec) = v - field + next
  <2>1. CASE inc /\ ~dec
    BY <2>1 DEF Counter
  <2>2. CASE dec /\ ~inc
    <3>1. field + step = field - 1
      BY <1>2, <2>2
    <3> QED BY <2>2, <3>1 DEF Counter
  <2>3. CASE ~(inc /\ ~dec) /\ ~(dec /\ ~inc)
    <3>1. Counter(v, inc, dec) = v
      BY <2>3 DEF Counter
    <3>2. next = field
      BY <1>5, <2>3
    <3> HIDE DEF field, next
    <3> QED BY <1>1, <1>2, <3>1, <3>2
  <2> QED BY <2>1, <2>2, <2>3
<1> HIDE DEF field, upper, next, step
<1>7. Counter(v, inc, dec) = CtrMod * upper + next
  BY <1>1, <1>2, <1>3, <1>4, <1>6
<1>8. (CtrMod * upper + next) % CtrMod = next /\ (CtrMod * upper + next) \div CtrMod = upper
  BY <1>1, <1>2, <1>4, Quotient
<1>9. Counter(v, inc, dec) \div CtrMod = upper /\ Counter(v, inc, dec) % CtrMod = next
  BY <1>7, <1>8
<1> QED BY <1>9 DEF field, upper, next, step
=============================================================================
