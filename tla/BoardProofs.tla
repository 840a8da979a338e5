---------------------------- MODULE BoardProofs -----------------------------
(***************************************************************************)
(* The two masters of the program RAM, for a RAM of any size, any cycles   *)
(* of the 68000 and the processor and any length of the reset.             *)
(***************************************************************************)
EXTENDS SoundBoard, TLAPS

-----------------------------------------------------------------------------
\* The inductive invariant.

\* The synchronizer is quiet between cycles and after an answer, and a cycle
\* that is answered by /VPA never sees an acknowledge.
SyncQuiet ==
  /\ ~cycleActive => ~asSeen /\ ~rva /\ dtackSeen
  /\ normalSeen   => ~asSeen /\ ~rva /\ dtackSeen
  /\ asSeen       => ~rva /\ dtackSeen
  /\ cycleActive /\ cycle.vpa => dtackSeen

\* A response to a master that still asks for it is the word it asks for.
ResponseTrue ==
  /\ respValid /\ ~respHost /\ Strobe("read") => respData = ram[req.addr]
  /\ respValid /\ respHost /\ HostReads => respData = ram[cycle.addr]

\* In a cycle of the 68000 alone no response of the processor is left over
\* once the strobe is out, and the answer is there when RVA ends.
HostAlone ==
  /\ exclusive => ~dspResetN
  /\ exclusive /\ cycleActive /\ (rva \/ ~dtackSeen) => ~(respValid /\ ~respHost)
  /\ exclusive /\ cycleActive /\ ~rva /\ ~dtackSeen
        /\ cycle.target = "program" /\ cycle.read => respValid /\ respHost

BoardInv ==
  /\ BoardTypeOK
  /\ SyncQuiet /\ ResponseTrue /\ HostAlone
  /\ FreshRead /\ ResetReaches

\* A step with its inputs and what the environment promises of them.
EdgeWith(ev, deassert, c, ce, ioReady, boardReset) ==
  /\ ev \in {"none", "rise", "fall", "assert"}
  /\ ev = "assert" => ~cycleActive /\ c \in HostCycles
  /\ deassert => ev # "assert" /\ MayDeassert(ev)
  /\ HostStep(ev, deassert, c)
  /\ LatchStep(ev, boardReset)
  /\ Respond
  /\ Commit(ev, PhaseAdvance(ce))
  /\ Stretch(ce) /\ Hold(ioReady) /\ Phases(ce)
  /\ resetOwed' = (~dspResetN' \/ (resetOwed /\ ~(PhaseAdvance(ce) /\ phase = 3)))
  /\ exclusive' = (~dspResetN' /\ (ev = "assert" \/ exclusive))

LEMMA EveryStep ==
  ASSUME Next
  PROVE  \E ev, c, deassert, ce, ioReady, boardReset :
            /\ deassert \in BOOLEAN /\ ce \in BOOLEAN /\ boardReset \in BOOLEAN
            /\ EdgeWith(ev, deassert, c, ce, ioReady, boardReset)
<1>1. CASE Quiet
  BY <1>1 DEF Quiet, Edge, EdgeWith
<1>2. CASE Rise
  BY <1>2 DEF Rise, Edge, EdgeWith
<1>3. CASE Fall
  BY <1>3 DEF Fall, Edge, EdgeWith
<1>4. CASE Assert
  BY <1>4 DEF Assert, Edge, EdgeWith
<1>5. CASE Deassert
  BY <1>5 DEF Deassert, Edge, EdgeWith
<1> QED BY <1>1, <1>2, <1>3, <1>4, <1>5 DEF Next

-----------------------------------------------------------------------------
\* What a step leaves alone.

LEMMA CycleKept ==
  ASSUME NEW ev, NEW deassert, NEW c, NEW ce, NEW ioReady, NEW boardReset,
         EdgeWith(ev, deassert, c, ce, ioReady, boardReset), cycleActive
  PROVE  cycle' = cycle
BY DEF EdgeWith, HostStep

LEMMA BusKept ==
  ASSUME NEW ce, BoardTypeOK, Phases(ce), phase' # 0
  PROVE  /\ active' = active /\ req' = req
         /\ phase' = phase \/ (PhaseAdvance(ce) /\ phase' = phase + 1)
<1>1. phase \in 0 .. 3
  BY DEF BoardTypeOK
<1>2. CASE PhaseAdvance(ce) /\ phase = 3
  BY <1>2 DEF Phases
<1>3. CASE PhaseAdvance(ce) /\ phase # 3
  BY <1>1, <1>3 DEF Phases
<1>4. CASE ~PhaseAdvance(ce)
  BY <1>4 DEF Phases
<1> QED BY <1>2, <1>3, <1>4

\* While a master reads, the other one may not write.
LEMMA RamKept ==
  ASSUME NEW ev, NEW advance, Commit(ev, advance),
         HostReads \/ (dspResetN /\ Strobe("read"))
  PROVE  ram' = ram
BY DEF Commit, HostReads, HostPermitted, TmsPermitted, Strobe

LEMMA RespondCases ==
  ASSUME Respond, respValid'
  PROVE  /\ respHost' => /\ HostReads
                         /\ respValid => respHost /\ respData' = respData
                         /\ ~respValid => respData' = ram[cycle.addr]
         /\ ~respHost' => /\ TmsReads
                          /\ respValid => ~respHost /\ respData' = respData
                          /\ ~respValid => ~HostReads /\ respData' = ram[req.addr]
<1>1. CASE respValid
  <2>1. respHost' = respHost /\ respData' = respData /\ ResponseLives
    BY <1>1 DEF Respond
  <2> QED BY <1>1, <2>1 DEF ResponseLives
<1>2. CASE ~respValid
  <2>1. HostReads \/ TmsReads
    BY <1>2 DEF Respond
  <2>2. HostReads => respHost' /\ respData' = ram[cycle.addr]
    BY <1>2, <2>1 DEF Respond
  <2>3. ~HostReads => ~respHost' /\ respData' = ram[req.addr]
    BY <1>2, <2>1 DEF Respond
  <2> QED BY <1>2, <2>1, <2>2, <2>3
<1> QED BY <1>1, <1>2

-----------------------------------------------------------------------------
\* The conjuncts, one by one.

LEMMA SyncStep ==
  ASSUME BoardInv, NEW ev, NEW deassert \in BOOLEAN, NEW c, NEW ce, NEW ioReady, NEW boardReset,
         EdgeWith(ev, deassert, c, ce, ioReady, boardReset)
  PROVE  SyncQuiet'
<1> USE DEF BoardInv, SyncQuiet, EdgeWith, HostStep, SyncStages, DtackN
<1>1. CASE ev = "assert"
  BY <1>1
<1>2. CASE ev # "assert" /\ ~cycleActive
  BY <1>2 DEF MayDeassert, Completes, NormalCompletion
<1>3. CASE ev # "assert" /\ cycleActive /\ deassert
  BY <1>3 DEF MayDeassert, Completes, NormalCompletion
<1>4. CASE ev # "assert" /\ cycleActive /\ ~deassert
  BY <1>4 DEF Completes, NormalCompletion
<1> QED BY <1>1, <1>2, <1>3, <1>4

LEMMA ResponseStep ==
  ASSUME BoardInv, NEW ev, NEW deassert, NEW c, NEW ce, NEW ioReady, NEW boardReset,
         EdgeWith(ev, deassert, c, ce, ioReady, boardReset)
  PROVE  ResponseTrue'
<1> USE DEF BoardInv
<1>1. ASSUME respValid', ~respHost', Strobe("read")' PROVE respData' = ram'[req'.addr]
  <2>1. req' = req
    BY <1>1, BusKept DEF EdgeWith, Strobe
  <2>2. TmsReads /\ (respValid => ~respHost /\ respData' = respData)
                 /\ (~respValid => ~HostReads /\ respData' = ram[req.addr])
    BY <1>1, RespondCases DEF EdgeWith
  <2>3. ram' = ram
    BY <2>2, RamKept DEF EdgeWith, TmsReads, TmsPermitted
  <2> QED BY <2>1, <2>2, <2>3 DEF ResponseTrue, TmsReads
<1>2. ASSUME respValid', respHost', HostReads' PROVE respData' = ram'[cycle'.addr]
  <2>1. HostReads /\ (respValid => respHost /\ respData' = respData)
                  /\ (~respValid => respData' = ram[cycle.addr])
    BY <1>2, RespondCases DEF EdgeWith
  <2>2. cycle' = cycle
    BY <2>1, CycleKept DEF HostReads, HostPermitted, HostSelect
  <2>3. ram' = ram
    BY <2>1, RamKept DEF EdgeWith
  <2> QED BY <2>1, <2>2, <2>3 DEF ResponseTrue
<1> QED BY <1>1, <1>2 DEF ResponseTrue

LEMMA HostAloneStep ==
  ASSUME BoardInv, NEW ev, NEW deassert \in BOOLEAN, NEW c, NEW ce, NEW ioReady, NEW boardReset,
         EdgeWith(ev, deassert, c, ce, ioReady, boardReset)
  PROVE  HostAlone'
<1> USE DEF BoardInv
<1>1. exclusive' => ~dspResetN'
  BY DEF EdgeWith
<1>2. ASSUME exclusive', cycleActive', rva' \/ ~dtackSeen'
      PROVE  exclusive /\ ~dspResetN /\ cycleActive /\ ev # "assert" /\ cycle' = cycle
  <2>1. ev # "assert"
    BY <1>2 DEF EdgeWith, HostStep, SyncStages, SyncQuiet
  <2> QED BY <1>2, <2>1, CycleKept DEF EdgeWith, HostStep, HostAlone
<1>3. ASSUME exclusive', cycleActive', rva' \/ ~dtackSeen' PROVE ~(respValid' /\ ~respHost')
  <2>1. ~TmsReads
    BY <1>2, <1>3 DEF TmsReads, TmsPermitted
  <2> QED BY <2>1, RespondCases DEF EdgeWith
<1>4. ASSUME exclusive', cycleActive', ~rva', ~dtackSeen', cycle'.target = "program", cycle'.read
      PROVE  respValid' /\ respHost'
  <2>1. exclusive /\ ~dspResetN /\ cycleActive /\ ev # "assert" /\ cycle' = cycle
    BY <1>2, <1>4
  <2>2. ~dtackSeen
    BY <1>4, <2>1 DEF EdgeWith, HostStep, SyncStages, DtackN
  <2>3. HostReads
    BY <1>4, <2>1, <2>2 DEF HostReads, HostPermitted, HostSelect, RvasN
  <2>4. ~(respValid /\ ~respHost)
    BY <2>1, <2>2 DEF HostAlone
  <2> QED BY <2>3, <2>4 DEF EdgeWith, Respond, ResponseLives
<1> QED BY <1>1, <1>3, <1>4 DEF HostAlone

LEMMA FreshStep ==
  ASSUME BoardInv, NEW ev, NEW deassert, NEW c, NEW ce, NEW ioReady, NEW boardReset,
         EdgeWith(ev, deassert, c, ce, ioReady, boardReset)
  PROVE  FreshRead'
<1> USE DEF BoardInv
<1> SUFFICES ASSUME Strobe("read")', phase' = 3, ~wait', ~ResetActive'
             PROVE  respData' = ram'[req'.addr]
  BY DEF FreshRead
<1>1. /\ active' = active /\ req' = req
      /\ phase = 3 \/ (PhaseAdvance(ce) /\ phase = 2)
  <2>1. phase \in 0 .. 3
    BY DEF BoardTypeOK
  <2> QED BY <2>1, BusKept DEF EdgeWith
<1>2. Strobe("read")
  BY <1>1 DEF Strobe
<1>3. ~ResetActive
  <2> SUFFICES ASSUME ResetActive PROVE FALSE
    OBVIOUS
  <2>1. dspResetN /\ resetLeft # 0 /\ resetLeft' = 0
    BY BoardAssumption DEF ResetActive, EdgeWith, Stretch
  <2>2. ce /\ ~wait /\ phase = 3
    BY <2>1 DEF EdgeWith, Stretch
  <2>3. PhaseAdvance(ce)
    BY <2>2 DEF PhaseAdvance
  <2> QED BY <2>2, <2>3 DEF EdgeWith, Phases
<1>4. ram' = ram
  BY <1>2, <1>3, RamKept DEF EdgeWith, ResetActive
<1>5. CASE phase = 2 \/ wait
  <2>1. Ready(ioReady)
    BY <1>2, <1>3, <1>5 DEF EdgeWith, Hold, Strobe
  <2>2. respValid /\ ~respHost
    BY <1>2, <2>1 DEF Ready, TmsReady, Strobe
  <2> QED BY <1>1, <1>2, <1>4, <2>2 DEF EdgeWith, Respond, ResponseTrue
<1>6. CASE phase = 3 /\ ~wait
  <2>1. respData = ram[req.addr]
    BY <1>2, <1>3, <1>6 DEF FreshRead
  <2>2. ~HostReads
    BY <1>3 DEF HostReads, HostPermitted, ResetActive
  <2> QED BY <1>1, <1>4, <2>1, <2>2 DEF EdgeWith, Respond
<1> QED BY <1>1, <1>5, <1>6

LEMMA ResetStep ==
  ASSUME BoardInv, NEW ev, NEW deassert, NEW c, NEW ce, NEW ioReady, NEW boardReset,
         EdgeWith(ev, deassert, c, ce, ioReady, boardReset)
  PROVE  ResetReaches'
<1> USE DEF BoardInv
<1> SUFFICES ASSUME resetOwed' PROVE ResetActive'
  BY DEF ResetReaches
<1>1. CASE ~dspResetN'
  BY <1>1 DEF ResetActive
<1>2. CASE dspResetN'
  <2>1. ResetActive /\ ~(PhaseAdvance(ce) /\ phase = 3)
    BY <1>2 DEF EdgeWith, ResetReaches
  <2>2. resetLeft' # 0
    BY <2>1, BoardAssumption DEF EdgeWith, ResetActive, PhaseAdvance, Stretch
  <2> QED BY <2>2 DEF ResetActive
<1> QED BY <1>1, <1>2

LEMMA CycleTypes ==
  ASSUME BoardTypeOK
  PROVE  /\ cycle.addr \in RamAddrs /\ cycle.word \in Words
         /\ req.addr \in RamAddrs /\ req.word \in Words
BY DEF BoardTypeOK, HostCycle, Request

LEMMA FlagTypesStep ==
  ASSUME BoardTypeOK, NEW ev, NEW deassert \in BOOLEAN, NEW c, NEW ce, NEW ioReady,
         NEW boardReset, EdgeWith(ev, deassert, c, ce, ioReady, boardReset)
  PROVE  /\ clk8' \in BOOLEAN /\ cycleActive' \in BOOLEAN /\ asSeen' \in BOOLEAN
         /\ rva' \in BOOLEAN /\ dtackSeen' \in BOOLEAN /\ normalSeen' \in BOOLEAN
         /\ dspResetN' \in BOOLEAN /\ respValid' \in BOOLEAN /\ respHost' \in BOOLEAN
         /\ wait' \in BOOLEAN /\ active' \in BOOLEAN /\ relSeen' \in BOOLEAN
         /\ stuck' \in BOOLEAN /\ resetOwed' \in BOOLEAN /\ exclusive' \in BOOLEAN
<1> USE DEF BoardTypeOK, EdgeWith
<1>1. clk8' \in BOOLEAN /\ cycleActive' \in BOOLEAN /\ normalSeen' \in BOOLEAN
  BY DEF HostStep
<1>2. asSeen' \in BOOLEAN /\ rva' \in BOOLEAN
  BY DEF HostStep, SyncStages
<1>3. dtackSeen' \in BOOLEAN
  BY DEF HostStep, DtackN
<1>4. dspResetN' \in BOOLEAN
  BY DEF LatchStep
<1>5. respValid' \in BOOLEAN
  BY DEF Respond, ResponseLives, HostReads, HostPermitted, TmsReads, TmsPermitted
<1>6. respHost' \in BOOLEAN
  BY DEF Respond, HostReads, HostPermitted
<1>7. wait' \in BOOLEAN
  BY DEF Hold
<1>8. active' \in BOOLEAN /\ relSeen' \in BOOLEAN /\ stuck' \in BOOLEAN
  <2>1. CASE PhaseAdvance(ce) /\ phase = 3
    BY <2>1 DEF Phases, NextCycle
  <2>2. CASE ~(PhaseAdvance(ce) /\ phase = 3)
    BY <2>2 DEF Phases
  <2> QED BY <2>1, <2>2
<1>9. resetOwed' \in BOOLEAN /\ exclusive' \in BOOLEAN
  OBVIOUS
<1> QED BY <1>1, <1>2, <1>3, <1>4, <1>5, <1>6, <1>7, <1>8, <1>9

LEMMA TypeStep ==
  ASSUME BoardTypeOK, NEW ev, NEW deassert \in BOOLEAN, NEW c, NEW ce, NEW ioReady,
         NEW boardReset, EdgeWith(ev, deassert, c, ce, ioReady, boardReset)
  PROVE  BoardTypeOK'
<1>1. cycle' \in HostCycle
  BY BoardAssumption DEF BoardTypeOK, EdgeWith, HostStep
<1>2. ResetFetch \in Request
  BY BoardAssumption DEF ResetFetch, Request
<1>3. phase' \in 0 .. 3 /\ req' \in Request
  <2>1. req' \in Request
    BY <1>2, BoardAssumption DEF BoardTypeOK, EdgeWith, Phases, NextCycle
  <2>2. phase' = phase \/ phase' = (phase + 1) % 4
    BY DEF EdgeWith, Phases
  <2> QED BY <2>1, <2>2 DEF BoardTypeOK
<1>4. ram' \in [RamAddrs -> Words]
  BY CycleTypes DEF BoardTypeOK, EdgeWith, Commit
<1>5. respData' \in Words
  BY CycleTypes DEF BoardTypeOK, EdgeWith, Respond
<1>6. resetLeft' \in 0 .. ResetMachineCycles
  BY BoardAssumption DEF BoardTypeOK, EdgeWith, Stretch
<1> QED BY <1>1, <1>3, <1>4, <1>5, <1>6, FlagTypesStep DEF BoardTypeOK

-----------------------------------------------------------------------------
LEMMA BoardInvInit == Init => BoardInv
<1> SUFFICES ASSUME Init PROVE BoardInv
  OBVIOUS
<1>1. ResetFetch \in Request
  BY BoardAssumption DEF ResetFetch, Request
<1>2. resetLeft \in 0 .. ResetMachineCycles /\ phase \in 0 .. 3
  BY BoardAssumption DEF Init
<1>3. cycle \in HostCycle /\ req \in Request /\ ram \in [RamAddrs -> Words] /\ respData \in Words
  BY <1>1, BoardAssumption DEF Init
<1>4. BoardTypeOK
  BY <1>2, <1>3 DEF Init, BoardTypeOK
<1>5. SyncQuiet
  BY DEF Init, SyncQuiet
<1>6. ResponseTrue /\ FreshRead
  BY DEF Init, ResponseTrue, FreshRead, Strobe
<1>7. HostAlone
  BY DEF Init, HostAlone
<1>8. ResetReaches
  BY DEF Init, ResetReaches, ResetActive
<1> QED BY <1>4, <1>5, <1>6, <1>7, <1>8 DEF BoardInv

LEMMA BoardInvStep == BoardInv /\ [Next]_vars => BoardInv'
<1> SUFFICES ASSUME BoardInv, [Next]_vars PROVE BoardInv'
  OBVIOUS
<1>1. CASE UNCHANGED vars
  <2>1. BoardTypeOK'
    BY <1>1 DEF BoardInv, BoardTypeOK, vars, hostVars, ramVars, dspVars
  <2>2. SyncQuiet' /\ HostAlone'
    BY <1>1 DEF BoardInv, SyncQuiet, HostAlone, vars, hostVars, ramVars, dspVars
  <2>3. ResponseTrue'
    BY <1>1
    DEF BoardInv, ResponseTrue, Strobe, HostReads, HostPermitted, HostSelect, RvasN,
        vars, hostVars, ramVars, dspVars
  <2>4. FreshRead' /\ ResetReaches'
    BY <1>1
    DEF BoardInv, FreshRead, ResetReaches, Strobe, ResetActive, vars, hostVars, ramVars, dspVars
  <2> QED BY <2>1, <2>2, <2>3, <2>4 DEF BoardInv
<1>2. CASE Next
  <2>1. PICK ev, c, deassert, ce, ioReady, boardReset :
            /\ deassert \in BOOLEAN /\ ce \in BOOLEAN /\ boardReset \in BOOLEAN
            /\ EdgeWith(ev, deassert, c, ce, ioReady, boardReset)
    BY <1>2, EveryStep
  <2>2. BoardTypeOK'
    BY <2>1, TypeStep DEF BoardInv
  <2>3. SyncQuiet'
    BY <2>1, SyncStep
  <2>4. ResponseTrue'
    BY <2>1, ResponseStep
  <2>5. HostAlone'
    BY <2>1, HostAloneStep
  <2>6. FreshRead'
    BY <2>1, FreshStep
  <2>7. ResetReaches'
    BY <2>1, ResetStep
  <2> QED BY <2>2, <2>3, <2>4, <2>5, <2>6, <2>7 DEF BoardInv
<1> QED BY <1>1, <1>2

(* The inductive invariant of the two masters: the synchronizer, the       *)
(* response register and the cycle of the 68000 fit together.              *)
THEOREM BoardInvariant == Spec => []BoardInv
BY BoardInvInit, BoardInvStep, PTL DEF Spec

(* Types of the board.                                                     *)
THEOREM BoardTypeCorrect == Spec => []BoardTypeOK
<1>1. BoardInv => BoardTypeOK
  BY DEF BoardInv
<1> QED BY <1>1, BoardInvariant, PTL

(* The processor never samples a stale word, for any length of the hold    *)
(* and any schedule of the clock enable.                                   *)
THEOREM FreshReadCorrect == Spec => []FreshRead
<1>1. BoardInv => FreshRead
  BY DEF BoardInv
<1> QED BY <1>1, BoardInvariant, PTL

(* The 68000's fixed acknowledge never comes before its word.              *)
THEOREM HostReadCorrect == Spec => []HostReadFresh
<1>1. BoardInv => HostReadFresh
  <2> SUFFICES ASSUME BoardInv, NormalCompletion, HostReads, exclusive
               PROVE  HostReady /\ respData = ram[cycle.addr]
    BY DEF HostReadFresh
  <2>1. cycle.target = "program" /\ cycle.read /\ HostPermitted
    BY DEF HostReads, HostPermitted, HostSelect
  <2>2. respValid /\ respHost
    BY <2>1 DEF BoardInv, HostAlone, NormalCompletion
  <2> QED BY <2>1, <2>2 DEF BoardInv, ResponseTrue, HostReady
<1> QED BY <1>1, BoardInvariant, PTL

(* No cycle of the 68000 is answered twice.                                *)
THEOREM AnsweredCorrect == Spec => []AnsweredOnce
<1>1. BoardInv => AnsweredOnce
  BY DEF BoardInv, SyncQuiet, AnsweredOnce, NormalCompletion
<1> QED BY <1>1, BoardInvariant, PTL

(* A reset of the processor is never lost, for any length of the stretch.  *)
THEOREM ResetCorrect == Spec => []ResetReaches
<1>1. BoardInv => ResetReaches
  BY DEF BoardInv
<1> QED BY <1>1, BoardInvariant, PTL

-----------------------------------------------------------------------------
\* Progress.  A cycle of the 68000 passes through the stages of the
\* synchronizer; between two cycles the processor's held transfer gets its
\* response and sees it.

AtAssert == cycleActive /\ asSeen
AtRva    == cycleActive /\ ~asSeen /\ rva /\ (clk8 \/ cycle.vpa \/ ~dtackSeen)
AtSample == cycleActive /\ ~asSeen /\ ~rva /\ ~cycle.vpa /\ clk8 /\ ~dtackSeen /\ ~normalSeen
MayEnd   == cycleActive /\ IF cycle.vpa THEN ~asSeen /\ ~rva ELSE normalSeen

Staged == cycleActive => AtAssert \/ AtRva \/ AtSample \/ MayEnd

LEMMA StageSteps ==
  ASSUME BoardInv, [Next]_vars
  PROVE  /\ ~cycleActive => ~cycleActive' \/ AtAssert'
         /\ AtAssert => AtAssert' \/ AtRva'
         /\ AtAssert /\ Rise => AtRva'
         /\ AtRva => AtRva' \/ AtSample' \/ MayEnd' \/ ~cycleActive'
         /\ AtRva /\ Rise => AtSample' \/ MayEnd'
         /\ AtSample => AtSample' \/ MayEnd' \/ ~cycleActive'
         /\ AtSample /\ Fall => MayEnd'
         /\ MayEnd => MayEnd' \/ ~cycleActive'
         /\ MayEnd /\ Deassert => ~cycleActive'
         /\ cycleActive /\ clk8 => clk8' \/ Fall \/ ~cycleActive'
         /\ cycleActive /\ ~clk8 => ~clk8' \/ Rise \/ ~cycleActive'
<1>1. /\ clk8 \in BOOLEAN /\ cycleActive \in BOOLEAN /\ asSeen \in BOOLEAN /\ rva \in BOOLEAN
      /\ dtackSeen \in BOOLEAN /\ normalSeen \in BOOLEAN /\ cycle.vpa \in BOOLEAN
      /\ SyncQuiet
  BY DEF BoardInv, BoardTypeOK, HostCycle
<1> USE <1>1 DEF SyncQuiet, AtAssert, AtRva, AtSample, MayEnd, HostStep, SyncStages, DtackN,
                 Completes, NormalCompletion, MayDeassert
<1>2. CASE UNCHANGED vars
  BY <1>2 DEF vars, hostVars, Rise, Fall, Deassert, Edge
<1>3. CASE Quiet
  BY <1>3 DEF Quiet, Rise, Fall, Deassert, Edge
<1>4. CASE Rise
  BY <1>4 DEF Rise, Fall, Deassert, Edge
<1>5. CASE Fall
  BY <1>5 DEF Rise, Fall, Deassert, Edge
<1>6. CASE Assert
  BY <1>6 DEF Assert, Rise, Fall, Deassert, Edge
<1>7. CASE Deassert
  BY <1>7 DEF Rise, Fall, Deassert, Edge
<1> QED BY <1>2, <1>3, <1>4, <1>5, <1>6, <1>7 DEF Next

\* A transfer is held with its strobe out, and out of reset no response of the
\* 68000 is in its way.
HeldStrobe ==
  /\ wait => active /\ phase \in {2, 3}
  /\ dspResetN => ~(respValid /\ respHost)

LEMMA HeldStrobeStep ==
  ASSUME BoardInv, HeldStrobe, [Next]_vars
  PROVE  HeldStrobe'
<1>1. CASE UNCHANGED vars
  BY <1>1 DEF HeldStrobe, vars, ramVars, dspVars
<1>2. CASE Next
  <2>1. PICK ev, c, deassert, ce, ioReady, boardReset :
            /\ deassert \in BOOLEAN /\ ce \in BOOLEAN /\ boardReset \in BOOLEAN
            /\ EdgeWith(ev, deassert, c, ce, ioReady, boardReset)
    BY <1>2, EveryStep
  <2>2. wait' => active' /\ phase' \in {2, 3}
    <3>1. CASE wait
      BY <2>1, <3>1 DEF EdgeWith, HeldStrobe, Phases, PhaseAdvance
    <3>2. CASE ~wait /\ wait'
      <4>1. active /\ phase = 2
        BY <2>1, <3>2 DEF EdgeWith, Hold
      <4>2. Phases(ce) /\ (2 + 1) % 4 = 3
        BY <2>1 DEF EdgeWith
      <4>3. CASE PhaseAdvance(ce)
        <5>1. phase' = (2 + 1) % 4 /\ active' = active
          BY <4>1, <4>2, <4>3 DEF Phases
        <5> QED BY <4>1, <4>2, <5>1
      <4>4. CASE ~PhaseAdvance(ce)
        BY <4>1, <4>2, <4>4 DEF Phases
      <4> QED BY <4>3, <4>4
    <3> QED BY <3>1, <3>2 DEF BoardInv, BoardTypeOK
  <2>3. ASSUME dspResetN', respValid', respHost'
        PROVE  FALSE
    <3>1. HostReads
      BY <2>1, <2>3, RespondCases DEF EdgeWith
    <3>2. ~dspResetN /\ cycle.target = "program"
      BY <3>1 DEF HostReads, HostPermitted, HostSelect
    <3>3. ~dspResetN'
      BY <2>1, <3>2 DEF EdgeWith, LatchStep
    <3> QED BY <2>3, <3>3
  <2> QED BY <2>2, <2>3 DEF HeldStrobe
<1> QED BY <1>1, <1>2

\* A held program transfer, between two cycles of the 68000, and with the ready
\* or the reset that ends the hold.
Held    == wait /\ req.kind # "io"
Alone   == Held /\ ~cycleActive
Leaving == Held /\ (ResetActive \/ TmsReady)

LEMMA HeldSteps ==
  ASSUME BoardInv, HeldStrobe, [Next]_vars
  PROVE  /\ Held => Held' \/ ~wait'
         /\ Alone => Alone' \/ Leaving' \/ ~wait'
         /\ Alone /\ Next => Leaving' \/ ~wait'
         /\ Leaving => Leaving' \/ ~wait'
         /\ Leaving /\ Next => ~wait'
<1>1. CASE UNCHANGED vars /\ ~Next
  BY <1>1
  DEF Held, Alone, Leaving, ResetActive, TmsReady, TmsPermitted, TmsReads, HostSelect, RvasN,
      Strobe, vars, hostVars, ramVars, dspVars
<1>2. CASE Next /\ Held
  <2>1. PICK ev, c, deassert, ce, ioReady, boardReset :
            /\ deassert \in BOOLEAN /\ ce \in BOOLEAN /\ boardReset \in BOOLEAN
            /\ EdgeWith(ev, deassert, c, ce, ioReady, boardReset)
    BY <1>2, EveryStep
  <2>2. wait /\ req.kind \in {"read", "write"} /\ active /\ phase \in {2, 3}
    BY <1>2 DEF Held, HeldStrobe, BoardInv, BoardTypeOK, Request
  <2>3. req' = req /\ active' = active /\ phase' = phase
    BY <2>1, <2>2 DEF EdgeWith, Phases, PhaseAdvance
  <2>4. Held' \/ ~wait'
    BY <2>1, <2>2, <2>3 DEF Held, EdgeWith, Hold, BoardInv, BoardTypeOK
  <2>5. Leaving => ~wait'
    BY <2>1 DEF Leaving, EdgeWith, Hold, Ready
  <2>6. Alone => Leaving' \/ ~wait'
    <3>1. SUFFICES ASSUME Alone, wait', ~Leaving
                   PROVE  Leaving'
      BY <2>5
    <3>2. ~ResetActive /\ ~TmsReady /\ ~HostSelect /\ TmsPermitted
      BY <1>2, <3>1 DEF Leaving, Alone, HostSelect, ResetActive, TmsPermitted
    <3>3. req.kind = "read" /\ ~respValid
      BY <2>2, <3>2 DEF TmsReady, TmsReads, TmsPermitted, Strobe, HeldStrobe
    <3>4. TmsReads /\ ~HostReads
      BY <2>2, <3>2, <3>3 DEF TmsReads, Strobe, HostReads, HostPermitted
    <3>5. respValid' /\ ~respHost'
      BY <2>1, <3>3, <3>4 DEF EdgeWith, Respond
    <3>6. ~HostSelect'
      BY <2>1, <3>1 DEF EdgeWith, HostStep, SyncStages, HostSelect, RvasN, Alone, BoardInv,
                        SyncQuiet, MayDeassert
    <3>7. Held'
      BY <2>4, <3>1
    <3>8. CASE dspResetN'
      <4>1. TmsReady'
        BY <2>2, <2>3, <3>3, <3>5, <3>6, <3>8 DEF TmsReady, TmsReads, TmsPermitted, Strobe
      <4> QED BY <3>7, <4>1 DEF Leaving
    <3>9. CASE ~dspResetN'
      BY <3>7, <3>9 DEF Leaving, ResetActive
    <3> QED BY <3>8, <3>9
  <2> QED BY <2>4, <2>5, <2>6
<1> QED BY <1>1, <1>2 DEF Held, Alone, Leaving

\* The fair actions can be taken where their guards hold.
EdgesPossible ==
  [](/\ ~clk8 => ENABLED <<Rise>>_vars
     /\ clk8 => ENABLED <<Fall>>_vars
     /\ MayEnd => ENABLED <<Deassert>>_vars)

(* A held program transfer goes on and a cycle of the 68000 ends, for any  *)
(* RAM, any cycles and requests and any order of the two masters: the gap  *)
(* between two cycles of the 68000 is long enough for the held response.   *)
THEOREM CyclesFinishCorrect == FairSpec /\ EdgesPossible => CyclesFinish
<1>1. Init => BoardInv /\ HeldStrobe /\ Staged
  BY BoardInvInit DEF Init, HeldStrobe, Staged
<1>2. BoardInv /\ HeldStrobe /\ Staged /\ [Next]_vars => (BoardInv /\ HeldStrobe /\ Staged)'
  BY BoardInvStep, HeldStrobeStep, StageSteps DEF Staged
<1>3. BoardInv /\ [Next]_vars =>
        /\ AtAssert => AtAssert' \/ AtRva'
        /\ AtAssert /\ <<Rise>>_vars => AtRva'
        /\ AtRva => AtRva' \/ AtSample' \/ MayEnd' \/ ~cycleActive'
        /\ AtRva /\ <<Rise>>_vars => AtSample' \/ MayEnd'
        /\ AtSample => AtSample' \/ MayEnd' \/ ~cycleActive'
        /\ AtSample /\ <<Fall>>_vars => MayEnd'
        /\ MayEnd => MayEnd' \/ ~cycleActive'
        /\ MayEnd /\ <<Deassert>>_vars => ~cycleActive'
  BY StageSteps
<1>4. [Next]_vars =>
        /\ <<Rise>>_vars => <<Next>>_vars /\ clk8'
        /\ <<Fall>>_vars => <<Next>>_vars /\ ~clk8'
        /\ clk8 => clk8' \/ <<Next>>_vars
        /\ ~clk8 => ~clk8' \/ <<Next>>_vars
  <2>1. Rise => Next /\ clk8'
    BY DEF Next, Rise, Edge, HostStep
  <2>2. Fall => Next /\ ~clk8'
    BY DEF Next, Fall, Edge, HostStep
  <2>3. UNCHANGED vars => clk8' = clk8
    BY DEF vars, hostVars
  <2> QED BY <2>1, <2>2, <2>3
<1>5. BoardInv /\ [Next]_vars =>
        /\ cycleActive /\ clk8 => clk8' \/ <<Fall>>_vars \/ ~cycleActive'
        /\ cycleActive /\ ~clk8 => ~clk8' \/ <<Rise>>_vars \/ ~cycleActive'
  BY StageSteps DEF vars, hostVars
<1>6. /\ AtSample => clk8
      /\ Staged <=> (cycleActive => AtAssert \/ AtRva \/ AtSample \/ MayEnd)
      /\ AtAssert \/ AtRva \/ AtSample \/ MayEnd => cycleActive
  BY DEF AtAssert, AtRva, AtSample, MayEnd, Staged
<1>7. BoardInv /\ HeldStrobe /\ [Next]_vars =>
        /\ Held => Held' \/ ~wait'
        /\ Alone => Alone' \/ Leaving' \/ ~wait'
        /\ Alone /\ <<Next>>_vars => Leaving' \/ ~wait'
        /\ Leaving => Leaving' \/ ~wait'
        /\ Leaving /\ <<Next>>_vars => ~wait'
  BY HeldSteps
<1>8. /\ Held <=> wait /\ req.kind # "io"
      /\ Alone <=> Held /\ ~cycleActive
  BY DEF Held, Alone
<1>9. Spec /\ Fairness /\ EdgesPossible => [](cycleActive => <>(~cycleActive))
  BY <1>1, <1>2, <1>3, <1>4, <1>5, <1>6, PTL DEF Spec, Fairness, EdgesPossible
<1>10. Spec /\ Fairness /\ EdgesPossible => []<><<Next>>_vars
  BY <1>4, PTL DEF Spec, Fairness, EdgesPossible
<1> QED BY <1>1, <1>2, <1>7, <1>8, <1>9, <1>10, PTL DEF FairSpec, Spec, CyclesFinish
=============================================================================
