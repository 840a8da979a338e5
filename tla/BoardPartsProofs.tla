-------------------------- MODULE BoardPartsProofs ---------------------------
(***************************************************************************)
(* The smaller parts of the board, for memories of any size, words of any  *)
(* width and any lengths of hold and inhibit.                              *)
(***************************************************************************)
EXTENDS MainBus, BoardLinks, StagedRam, SoundPorts, TLAPS

-----------------------------------------------------------------------------
\* The registered internal RAM.

RamInv == RamTypeOK /\ OperandCurrent

\* A capture makes the registered read the word the memory is about to hold.
LEMMA CaptureCurrent ==
  ASSUME RamTypeOK, NEW w \in Write \cup {NoWrite}, Capture(w), Store(w),
         address' = address
  PROVE  RegisteredRead' = Combinational'
<1>1. CASE address \in Cells
  BY <1>1, RamAssumption
  DEF RamTypeOK, Capture, Store, RegisteredRead, Combinational, Qualified, Write, NoWrite, Cells
<1>2. CASE address \notin Cells
  BY <1>2 DEF Capture, RegisteredRead, Combinational
<1> QED BY <1>1, <1>2

LEMMA WriteType ==
  ASSUME NEW w \in Write \cup {NoWrite}
  PROVE  w.hit \in BOOLEAN /\ w.word \in DataWords /\ (w.hit => w.at \in Cells)
<1>1. CASE w \in Write
  <2>1. w.hit = TRUE /\ w.word \in DataWords /\ w.at \in Cells
    BY <1>1 DEF Write
  <2> QED BY <2>1
<1>2. CASE w = NoWrite
  <2>1. w.hit = FALSE /\ w.word = 0
    BY <1>2 DEF NoWrite
  <2> QED BY <2>1, RamAssumption
<1> QED BY <1>1, <1>2

LEMMA CaptureType ==
  ASSUME RamTypeOK, NEW w \in Write \cup {NoWrite}
  PROVE  /\ Store(w) => cells' \in [Cells -> DataWords]
         /\ Capture(w) => /\ readValid' \in BOOLEAN /\ forward' \in BOOLEAN
                          /\ readData' \in DataWords /\ forwardData' \in DataWords
<1>1. Qualified \in Cells
  BY RamAssumption DEF Qualified, Cells
<1>2. w.word \in DataWords /\ (w.hit => w.at \in Cells)
  BY WriteType
<1>3. Store(w) => cells' \in [Cells -> DataWords]
  BY <1>2 DEF Store, RamTypeOK
<1>4. Capture(w) => readData' \in DataWords /\ forwardData' \in DataWords
  BY <1>1, <1>2 DEF Capture, RamTypeOK
<1>5. Capture(w) => readValid' \in BOOLEAN /\ forward' \in BOOLEAN
  BY WriteType DEF Capture
<1> QED BY <1>3, <1>4, <1>5

LEMMA RamTypeStep == RamTypeOK /\ [RamStep]_dataVars => RamTypeOK'
<1> SUFFICES ASSUME RamTypeOK, [RamStep]_dataVars PROVE RamTypeOK'
  OBVIOUS
<1>1. CASE UNCHANGED dataVars
  BY <1>1 DEF RamTypeOK, dataVars
<1>2. CASE RamStep
  <2>1. PICK w \in Write \cup {NoWrite}, a \in Addresses :
            \/ SubphaseStep(w) \/ ParkedStep(w)
            \/ OwnerChange(w, a)
            \/ Pause(w)
            \/ \E ce \in BOOLEAN : SliceReset(w, a, ce)
    BY <1>2 DEF RamStep
  <2>2. Store(w)
    BY <2>1 DEF SubphaseStep, ParkedStep, OwnerChange, Pause, SliceReset
  <2>3. \/ Capture(w)
        \/ UNCHANGED <<readValid, readData, forward, forwardData>>
    BY <2>1 DEF SubphaseStep, ParkedStep, OwnerChange, Pause, SliceReset
  <2>4. /\ cells' \in [Cells -> DataWords]
        /\ readValid' \in BOOLEAN /\ forward' \in BOOLEAN
        /\ readData' \in DataWords /\ forwardData' \in DataWords
    BY <2>2, <2>3, CaptureType DEF RamTypeOK
  <2>5. address' \in Addresses
    BY <2>1 DEF SubphaseStep, ParkedStep, OwnerChange, Pause, SliceReset, RamTypeOK
  <2>6. subphase' \in 0 .. 3
    <3>1. subphase' = 0 \/ subphase' = subphase \/ (subphase # 3 /\ subphase' = subphase + 1)
      BY <2>1 DEF SubphaseStep, ParkedStep, OwnerChange, Pause, SliceReset
    <3> QED BY <3>1 DEF RamTypeOK
  <2>7. settled' \in BOOLEAN
    BY <2>1 DEF SubphaseStep, ParkedStep, OwnerChange, Pause, SliceReset, RamTypeOK
  <2>8. overwritten' \in BOOLEAN
    BY <2>1, WriteType DEF SubphaseStep, ParkedStep, OwnerChange, Pause, SliceReset, RamTypeOK
  <2> QED BY <2>4, <2>5, <2>6, <2>7, <2>8 DEF RamTypeOK
<1> QED BY <1>1, <1>2

LEMMA RamInvStep == RamInv /\ [RamStep]_dataVars => RamInv'
<1> SUFFICES ASSUME RamInv, [RamStep]_dataVars PROVE OperandCurrent'
  BY RamTypeStep DEF RamInv
<1> USE DEF RamInv
<1>1. CASE UNCHANGED dataVars
  BY <1>1 DEF OperandCurrent, RegisteredRead, Combinational, dataVars
<1>2. CASE RamStep
  <2>1. PICK w \in Write \cup {NoWrite}, a \in Addresses :
            \/ SubphaseStep(w) \/ ParkedStep(w)
            \/ OwnerChange(w, a)
            \/ Pause(w)
            \/ \E ce \in BOOLEAN : SliceReset(w, a, ce)
    BY <1>2 DEF RamStep
  <2>2. CASE SubphaseStep(w)
    BY <2>2, CaptureCurrent DEF SubphaseStep, OperandCurrent
  <2>3. CASE ParkedStep(w)
    BY <2>3, CaptureCurrent DEF ParkedStep, OperandCurrent
  <2>4. CASE OwnerChange(w, a)
    BY <2>4, CaptureCurrent DEF OwnerChange, OperandCurrent
  <2>5. CASE Pause(w)
    <3>1. ~overwritten' => Combinational' = Combinational
      BY <2>5, RamAssumption DEF Pause, Store, Combinational, Qualified, RamTypeOK, Write, NoWrite
    <3>2. RegisteredRead' = RegisteredRead
      BY <2>5 DEF Pause, RegisteredRead
    <3> QED BY <2>5, <3>1, <3>2 DEF Pause, OperandCurrent
  <2>6. ASSUME NEW ce \in BOOLEAN, SliceReset(w, a, ce) PROVE OperandCurrent'
    BY <2>6, CaptureCurrent DEF SliceReset, OperandCurrent
  <2> QED BY <2>1, <2>2, <2>3, <2>4, <2>5, <2>6
<1> QED BY <1>1, <1>2

(* The registered RAM serves the slice the word a combinational one would. *)
THEOREM OperandCorrect == RamSpec => []OperandCurrent
<1>1. ASSUME RamInit PROVE RamTypeOK
  <2>1. /\ cells \in [Cells -> DataWords] /\ address \in Addresses
        /\ readData \in DataWords /\ forwardData \in DataWords
    BY <1>1 DEF RamInit
  <2>2. subphase \in 0 .. 3
    BY <1>1 DEF RamInit
  <2>3. readValid \in BOOLEAN /\ forward \in BOOLEAN /\ settled \in BOOLEAN /\ overwritten \in BOOLEAN
    BY <1>1 DEF RamInit
  <2> QED BY <2>1, <2>2, <2>3 DEF RamTypeOK
<1>2. RamInit => OperandCurrent
  BY DEF RamInit, OperandCurrent
<1> QED BY <1>1, <1>2, RamInvStep, PTL DEF RamSpec, RamInv

-----------------------------------------------------------------------------
\* The bus of the main board.

\* An acknowledge sampled before this cycle's own is the one of the cycle
\* before, whose end the next falling edge sees while the new strobe is set;
\* in the low phase the preset holds /RVAS0.
MainInv ==
  /\ asLow /\ ~acked /\ sampledLow => high /\ mainSeen
  /\ mainSeen /\ ~high => rvas0

LEMMA MainInvStep == MainInv /\ [MainNext]_mainVars => MainInv'
<1> SUFFICES ASSUME MainInv, [MainNext]_mainVars PROVE MainInv'
  OBVIOUS
<1> USE DEF MainInv, MainEdge, HoldRvas0, SampledRelease
<1>1. CASE UNCHANGED mainVars
  BY <1>1 DEF mainVars
<1>2. CASE MainRise
  BY <1>2 DEF MainRise
<1>3. CASE MainFall
  BY <1>3 DEF MainFall
<1>4. CASE EndCycle
  BY <1>4 DEF EndCycle
<1>5. CASE DeviceReady
  BY <1>5 DEF DeviceReady
<1>6. ASSUME NEW t \in Targets, StartCycle(t) PROVE MainInv'
  BY <1>6 DEF StartCycle
<1> QED BY <1>1, <1>2, <1>3, <1>4, <1>5, <1>6 DEF MainNext

LEMMA StrobesKept ==
  ASSUME MainInv, MainNext, asLow, asLow', ~acked'
  PROVE  /\ (rvas0 \/ mainSeen) => (rvas0' \/ mainSeen')
         /\ (rvas \/ mainSeen) => (rvas' \/ mainSeen')
<1> USE DEF MainInv, MainEdge, HoldRvas0, HoldRvas, SampledRelease
<1>1. CASE MainRise
  BY <1>1 DEF MainRise
<1>2. CASE MainFall
  BY <1>2 DEF MainFall
<1>3. CASE DeviceReady
  BY <1>3 DEF DeviceReady
<1> QED BY <1>1, <1>2, <1>3 DEF MainNext, EndCycle, StartCycle

(* /RVAS and /RVAS0 stay asserted until the cycle's own acknowledge: the   *)
(* preset and the clocks of the three flip-flops never release them early. *)
THEOREM StrobesHeldCorrect == MainSpec => StrobesHeld
<1>1. MainInit => MainInv
  BY DEF MainInit, MainInv
<1>2. MainInv /\ [MainNext]_mainVars =>
        [asLow /\ asLow' /\ ~acked' =>
           /\ (rvas0 \/ mainSeen) => (rvas0' \/ mainSeen')
           /\ (rvas \/ mainSeen) => (rvas' \/ mainSeen')]_mainVars
  BY StrobesKept
<1> QED BY <1>1, <1>2, MainInvStep, PTL DEF MainSpec, StrobesHeld

\* Progress of a cycle.  Once RVA has taken over from /AS, each target has what
\* its acknowledge needs: RVA until the clock next falls, or its held strobe.
MainTypes ==
  /\ high \in BOOLEAN /\ asLow \in BOOLEAN /\ mainSeen \in BOOLEAN /\ mainRva \in BOOLEAN
  /\ acked \in BOOLEAN /\ ready \in BOOLEAN /\ target \in Targets

AnswerDue ==
  asLow /\ ~mainSeen /\ ~acked =>
    /\ target = "default" => high /\ mainRva
    /\ target = "highSpeed" => rvas0
    /\ target = "duart" => rvas

MainLiveInv == MainInv /\ MainTypes /\ AnswerDue

LEMMA MainLiveStep == MainLiveInv /\ [MainNext]_mainVars => MainLiveInv'
<1> SUFFICES ASSUME MainLiveInv, [MainNext]_mainVars PROVE MainLiveInv'
  OBVIOUS
<1>1. MainInv'
  BY MainInvStep DEF MainLiveInv
<1>2. MainTypes'
  BY DEF MainLiveInv, MainTypes, MainNext, MainRise, MainFall, EndCycle, DeviceReady,
         StartCycle, MainEdge, DtackLow, Selected, mainVars
<1>3. AnswerDue'
  <2> USE DEF MainLiveInv, MainInv, MainTypes, AnswerDue, MainEdge
  <2>1. CASE UNCHANGED mainVars
    BY <2>1 DEF mainVars
  <2>2. CASE MainRise
    BY <2>2 DEF MainRise, HoldRvas0, HoldRvas, SampledRelease
  <2>3. CASE MainFall
    BY <2>3 DEF MainFall, HoldRvas0, HoldRvas, SampledRelease, DtackLow, Selected
  <2>4. CASE EndCycle
    BY <2>4 DEF EndCycle
  <2>5. CASE DeviceReady
    BY <2>5 DEF DeviceReady, HoldRvas0, HoldRvas, SampledRelease
  <2>6. ASSUME NEW t \in Targets, StartCycle(t) PROVE AnswerDue'
    BY <2>6 DEF StartCycle
  <2> QED BY <2>1, <2>2, <2>3, <2>4, <2>5, <2>6 DEF MainNext
<1> QED BY <1>1, <1>2, <1>3 DEF MainLiveInv

\* The stages of a cycle: /AS waits in the first stage of the synchronizer;
\* RVA of an interrupt acknowledge; the device; the sampling edge; the end.
Taken      == asLow /\ ~mainSeen
Asking     == asLow /\ mainSeen
VpaPending == Taken /\ target = "cpu" /\ mainRva
DeviceDue  == Taken /\ target \in {"highSpeed", "duart"} /\ ~acked /\ ~ready
SampleDue  == Taken /\ ~acked /\ (target = "default" \/ (target # "cpu" /\ ready))
MayEnd     == Taken /\ IF target = "cpu" THEN ~mainRva ELSE acked

LEMMA MainStages ==
  ASSUME MainLiveInv
  PROVE  /\ asLow => Asking \/ Taken
         /\ Taken => VpaPending \/ DeviceDue \/ SampleDue \/ MayEnd
BY DEF MainLiveInv, MainTypes, Targets, Taken, Asking, VpaPending, DeviceDue, SampleDue, MayEnd

\* Each stage lasts until the action that ends it.
LEMMA StageSteps ==
  ASSUME MainLiveInv, [MainNext]_mainVars
  PROVE  /\ Asking => Asking' \/ Taken' \/ ~asLow'
         /\ Asking /\ MainRise => Taken'
         /\ VpaPending => VpaPending' \/ MayEnd' \/ ~asLow'
         /\ VpaPending /\ MainRise => MayEnd'
         /\ DeviceDue => DeviceDue' \/ SampleDue' \/ MayEnd' \/ ~asLow'
         /\ DeviceDue /\ DeviceReady => SampleDue'
         /\ SampleDue => SampleDue' \/ MayEnd' \/ ~asLow'
         /\ SampleDue /\ MainFall => MayEnd'
         /\ MayEnd => MayEnd' \/ ~asLow'
         /\ MayEnd /\ EndCycle => ~asLow'
<1> USE DEF MainLiveInv, MainInv, MainTypes, AnswerDue, MainEdge, Taken, Asking, VpaPending,
            DeviceDue, SampleDue, MayEnd, Targets
<1>1. CASE UNCHANGED mainVars
  BY <1>1 DEF mainVars, MainRise, MainFall, DeviceReady, EndCycle
<1>2. CASE MainRise
  BY <1>2 DEF MainRise, MainFall, DeviceReady, EndCycle
<1>3. CASE MainFall
  BY <1>3 DEF MainRise, MainFall, DeviceReady, EndCycle, DtackLow, Selected
<1>4. CASE EndCycle
  BY <1>4 DEF MainRise, MainFall, DeviceReady, EndCycle
<1>5. CASE DeviceReady
  BY <1>5 DEF MainRise, MainFall, DeviceReady, EndCycle, Selected
<1>6. ASSUME NEW t \in Targets, StartCycle(t) PROVE ~asLow
  BY <1>6 DEF StartCycle
<1> QED BY <1>1, <1>2, <1>3, <1>4, <1>5, <1>6 DEF MainNext

\* The fair actions can be taken where their guards hold.
MainPossible ==
  [](/\ ~high => ENABLED <<MainRise>>_mainVars
     /\ high => ENABLED <<MainFall>>_mainVars
     /\ DeviceDue => ENABLED <<DeviceReady>>_mainVars
     /\ MayEnd => ENABLED <<EndCycle>>_mainVars)

(* Every cycle of the main processor is answered and ends, whatever it     *)
(* selects: the strobes its acknowledge needs are held until it is sampled.*)
THEOREM MainCyclesCorrect ==
  MainSpec /\ MainFairness /\ MainPossible => MainCyclesEnd
<1>1. MainInit => MainLiveInv
  BY DEF MainInit, MainLiveInv, MainInv, MainTypes, AnswerDue
<1>2. MainLiveInv /\ [MainNext]_mainVars => MainLiveInv'
  BY MainLiveStep
<1>3. /\ high /\ [MainNext]_mainVars => high' \/ <<MainFall>>_mainVars
      /\ ~high /\ [MainNext]_mainVars => ~high' \/ <<MainRise>>_mainVars
      /\ <<MainRise>>_mainVars => high'
      /\ <<MainFall>>_mainVars => ~high'
  BY DEF MainNext, MainRise, MainFall, EndCycle, DeviceReady, StartCycle, MainEdge, mainVars
<1>4. MainLiveInv =>
        /\ asLow => Asking \/ Taken
        /\ Taken => VpaPending \/ DeviceDue \/ SampleDue \/ MayEnd
  BY MainStages
<1>5. MainLiveInv /\ [MainNext]_mainVars =>
        /\ Asking => Asking' \/ Taken' \/ ~asLow'
        /\ Asking /\ <<MainRise>>_mainVars => Taken'
        /\ VpaPending => VpaPending' \/ MayEnd' \/ ~asLow'
        /\ VpaPending /\ <<MainRise>>_mainVars => MayEnd'
        /\ DeviceDue => DeviceDue' \/ SampleDue' \/ MayEnd' \/ ~asLow'
        /\ DeviceDue /\ <<DeviceReady>>_mainVars => SampleDue'
        /\ SampleDue => SampleDue' \/ MayEnd' \/ ~asLow'
        /\ SampleDue /\ <<MainFall>>_mainVars => MayEnd'
        /\ MayEnd => MayEnd' \/ ~asLow'
        /\ MayEnd /\ <<EndCycle>>_mainVars => ~asLow'
  BY StageSteps
<1> QED BY <1>1, <1>2, <1>3, <1>4, <1>5, PTL
        DEF MainSpec, MainFairness, MainPossible, MainCyclesEnd

-----------------------------------------------------------------------------
\* Mailboxes and the reset of the 68000.

BoxTypes ==
  /\ boxData \in [Boxes -> Messages] /\ boxDataValid \in [Boxes -> BOOLEAN]
  /\ flag \in [Boxes -> BOOLEAN] /\ flagValid \in [Boxes -> BOOLEAN]
  /\ lastWord \in [Boxes -> Messages \cup {"nothing", "unknown"}]

\* The inhibit never outruns the hold.
HoldOutlasts ==
  hold \in 0 .. HoldTicks /\ inhibit \in 0 .. InhibitTicks /\ inhibit <= hold

\* Below the scrub address no lane is valid, and nothing is written yet.
ScrubbedBelow ==
  /\ scrubAddr \in Lanes /\ lanes \subseteq Lanes
  /\ scrubActive => written = {} /\ \A a \in lanes : a >= scrubAddr

LinksInv ==
  BoxTypes /\ MailTruthful /\ HoldOutlasts /\ ScrubbedBelow /\ LanesTrue

LEMMA MailKeeps ==
  ASSUME BoxTypes, MailTruthful, NEW box \in Boxes, NEW resetN \in BOOLEAN,
         NEW set \in BOOLEAN, NEW clear \in BOOLEAN, NEW m \in Messages,
         MailStep(box, resetN, set, clear, m)
  PROVE  BoxTypes' /\ MailTruthful'
<1>1. /\ boxData' = IF set THEN [boxData EXCEPT ![box] = m] ELSE boxData
      /\ boxDataValid' = IF set THEN [boxDataValid EXCEPT ![box] = TRUE] ELSE boxDataValid
      /\ flag' = [flag EXCEPT ![box] = NextFlag(flag[box], resetN, set, clear)]
      /\ flagValid' = [flagValid EXCEPT ![box] =
                          NextFlagValid(flagValid[box], resetN, set, clear)]
      /\ lastWord' = [lastWord EXCEPT ![box] = NextOwed(lastWord[box], resetN, set, clear, m)]
  BY DEF MailStep
<1>2. /\ NextFlag(flag[box], resetN, set, clear) \in BOOLEAN
      /\ NextFlagValid(flagValid[box], resetN, set, clear) \in BOOLEAN
  BY DEF NextFlag, NextFlagValid, BoxTypes
<1>3. NextOwed(lastWord[box], resetN, set, clear, m) \in Messages \cup {"nothing", "unknown"}
  BY DEF NextOwed, BoxTypes
<1>4. BoxTypes'
  BY <1>1, <1>2, <1>3 DEF BoxTypes
<1>5. \A b \in Boxes \ {box} :
        /\ boxData'[b] = boxData[b] /\ boxDataValid'[b] = boxDataValid[b]
        /\ flag'[b] = flag[b] /\ flagValid'[b] = flagValid[b] /\ lastWord'[b] = lastWord[b]
  BY <1>1 DEF BoxTypes
<1>6. /\ flag'[box] = NextFlag(flag[box], resetN, set, clear)
      /\ flagValid'[box] = NextFlagValid(flagValid[box], resetN, set, clear)
      /\ lastWord'[box] = NextOwed(lastWord[box], resetN, set, clear, m)
      /\ set => boxDataValid'[box] = TRUE /\ boxData'[box] = m
      /\ ~set => boxDataValid'[box] = boxDataValid[box] /\ boxData'[box] = boxData[box]
  BY <1>1 DEF BoxTypes
<1>7. m # "unknown" /\ m # "nothing"
  BY LinksAssumption
<1>8. /\ flagValid'[box] = (lastWord'[box] # "unknown")
      /\ flag'[box] => flagValid'[box]
      /\ flagValid'[box] => (flag'[box] <=> lastWord'[box] # "nothing")
      /\ flag'[box] => boxDataValid'[box] /\ boxData'[box] = lastWord'[box]
  <2>1. CASE set /\ (clear \/ ~resetN)
    BY <1>6, <2>1 DEF NextFlag, NextFlagValid, NextOwed
  <2>2. CASE ~set /\ (clear \/ ~resetN)
    BY <1>6, <2>2 DEF NextFlag, NextFlagValid, NextOwed
  <2>3. CASE set /\ ~clear /\ resetN
    BY <1>6, <1>7, <2>3 DEF NextFlag, NextFlagValid, NextOwed
  <2>4. CASE ~set /\ ~clear /\ resetN
    BY <1>6, <2>4 DEF NextFlag, NextFlagValid, NextOwed, MailTruthful, BoxTypes
  <2> QED BY <2>1, <2>2, <2>3, <2>4
<1> QED BY <1>4, <1>5, <1>8 DEF MailTruthful

LEMMA ResetKeeps ==
  ASSUME HoldOutlasts, ScrubbedBelow, LanesTrue, ResetEdge
  PROVE  HoldOutlasts' /\ ScrubbedBelow' /\ LanesTrue'
<1>1. PICK tick \in BOOLEAN, low \in BOOLEAN, w \in SUBSET Lanes :
        /\ Monostable(tick, low)
        /\ IF scrubActive THEN Scrub /\ UNCHANGED written
           ELSE /\ lanes' = lanes \cup w /\ written' = written \cup w
                /\ UNCHANGED <<scrubActive, scrubAddr>>
  BY DEF ResetEdge
<1>2. HoldOutlasts'
  BY <1>1, LinksAssumption DEF Monostable, HoldOutlasts
<1>3. CASE scrubActive /\ scrubAddr # LastLane
  <2>1. /\ lanes' = lanes \ {scrubAddr} /\ scrubAddr' = scrubAddr + 1
        /\ scrubActive' = TRUE /\ written' = {}
    BY <1>1, <1>3 DEF Scrub, ScrubbedBelow
  <2>2. scrubAddr' \in Lanes /\ lanes' \subseteq Lanes
    BY <2>1, <1>3, LinksAssumption DEF ScrubbedBelow, Lanes
  <2>3. \A a \in lanes' : a >= scrubAddr'
    BY <2>1, <1>3, LinksAssumption DEF ScrubbedBelow, Lanes
  <2> QED BY <1>2, <2>1, <2>2, <2>3 DEF ScrubbedBelow, LanesTrue, StorageReady
<1>4. CASE scrubActive /\ scrubAddr = LastLane
  <2>1. lanes' = lanes \ {LastLane} /\ scrubActive' = FALSE /\ scrubAddr' = scrubAddr /\ written' = {}
    BY <1>1, <1>4 DEF Scrub, ScrubbedBelow
  <2>2. lanes' = {}
    BY <2>1, <1>4, LinksAssumption DEF ScrubbedBelow, Lanes
  <2>3. ScrubbedBelow'
    BY <2>1, <2>2 DEF ScrubbedBelow
  <2>4. LanesTrue'
    BY <2>1, <2>2 DEF LanesTrue
  <2> QED BY <1>2, <2>3, <2>4
<1>5. CASE ~scrubActive
  <2>1. /\ lanes' = lanes \cup w /\ written' = written \cup w
        /\ UNCHANGED <<scrubActive, scrubAddr>>
    BY <1>1, <1>5
  <2>2. ScrubbedBelow'
    BY <2>1, <1>5 DEF ScrubbedBelow
  <2>3. LanesTrue'
    BY <2>1, <1>5 DEF LanesTrue, StorageReady
  <2> QED BY <1>2, <2>2, <2>3
<1> QED BY <1>2, <1>3, <1>4, <1>5

LEMMA LinksInvStep == LinksInv /\ [LinksNext]_linkVars => LinksInv'
<1> SUFFICES ASSUME LinksInv, [LinksNext]_linkVars PROVE LinksInv'
  OBVIOUS
<1> USE DEF LinksInv
<1>1. CASE UNCHANGED linkVars
  BY <1>1
  DEF linkVars, boxVars, resetVars, BoxTypes, MailTruthful, HoldOutlasts, ScrubbedBelow,
      LanesTrue, StorageReady
<1>2. CASE MailEdge
  <2>1. BoxTypes' /\ MailTruthful'
    BY <1>2, MailKeeps DEF MailEdge
  <2>2. UNCHANGED resetVars
    BY <1>2 DEF MailEdge, MailStep
  <2> QED BY <2>1, <2>2 DEF resetVars, HoldOutlasts, ScrubbedBelow, LanesTrue, StorageReady
<1>3. CASE ResetEdge
  <2>1. UNCHANGED boxVars
    BY <1>3 DEF ResetEdge
  <2> QED BY <1>3, <2>1, ResetKeeps DEF boxVars, BoxTypes, MailTruthful
<1>4. CASE Initialize
  <2>1. BoxTypes' /\ MailTruthful'
    BY <1>4, LinksAssumption DEF Initialize, BoxTypes, MailTruthful
  <2>2. HoldOutlasts'
    BY <1>4, LinksAssumption DEF Initialize, HoldOutlasts
  <2>3. ScrubbedBelow' /\ LanesTrue'
    BY <1>4, LinksAssumption DEF Initialize, ScrubbedBelow, LanesTrue, StorageReady, Lanes
  <2> QED BY <2>1, <2>2, <2>3
<1> QED BY <1>1, <1>2, <1>3, <1>4 DEF LinksNext

LEMMA LinksInvInit == LinksInit => LinksInv
<1> SUFFICES ASSUME LinksInit PROVE LinksInv
  OBVIOUS
<1>1. BoxTypes
  BY LinksAssumption DEF LinksInit, BoxTypes
<1>2. MailTruthful
  BY DEF LinksInit, MailTruthful
<1>3. HoldOutlasts
  BY LinksAssumption DEF LinksInit, HoldOutlasts
<1>4. ScrubbedBelow /\ LanesTrue
  BY LinksAssumption DEF LinksInit, ScrubbedBelow, LanesTrue, StorageReady, Lanes
<1> QED BY <1>1, <1>2, <1>3, <1>4 DEF LinksInv

(* The flags and validities of both mailboxes, under any schedule of       *)
(* writes, reads and resets, also coincident ones.                         *)
THEOREM MailCorrect == LinksSpec => []MailTruthful
<1>1. LinksInv => MailTruthful
  BY DEF LinksInv
<1> QED BY <1>1, LinksInvInit, LinksInvStep, PTL DEF LinksSpec

(* The validity scrub of the local RAM, of any size, restarted at any time.*)
THEOREM LanesCorrect == LinksSpec => []LanesTrue
<1>1. LinksInv => LanesTrue
  BY DEF LinksInv
<1> QED BY <1>1, LinksInvInit, LinksInvStep, PTL DEF LinksSpec

(* The monostable, for any hold that lasts at least as long as its inhibit.*)
THEOREM IgnoredCorrect == LinksSpec => []IgnoredOnlyWhileHeld
<1>1. LinksInv => IgnoredOnlyWhileHeld
  BY LinksAssumption DEF LinksInv, HoldOutlasts, IgnoredOnlyWhileHeld
<1> QED BY <1>1, LinksInvInit, LinksInvStep, PTL DEF LinksSpec

-----------------------------------------------------------------------------
\* The ports of the processor.

\* A response for the processor is the word at the address of the counter.
ResponseCurrent ==
  comValid /\ ~comHost /\ DspReads => comData = comRam[soundAddress % ComSize]

\* A phase 3 that is not held is one whose port has answered.
SampleReady ==
  /\ step = 3 /\ ~held /\ ~stretched /\ access.op \in {"in2", "out7"} => extReady
  /\ step = 3 /\ ~held /\ access.op = "in1" /\ counted # Unknown =>
       comValid /\ ~comHost /\ comData = comRam[soundAddress % ComSize]

CountFollows ==
  /\ counted # Unknown => soundValid /\ soundAddress = counted
  /\ stretched => counted = Unknown

PortsInv ==
  /\ step \in 0 .. 3 /\ soundValid \in BOOLEAN
  /\ ResponseCurrent /\ SampleReady /\ CountFollows /\ RequestSurvives

LEMMA PortsInvEdge ==
  ASSUME PortsInv, NEW ce \in BOOLEAN, NEW resetLatch \in BOOLEAN,
         NEW clear \in BOOLEAN, NEW commit \in BOOLEAN,
         Count(ce), ComRespond, Request5(resetLatch, clear),
         StretchReset(ce, resetLatch), HoldPort(resetLatch), Cycle(ce, resetLatch),
         HostCom(commit), Account(ce, resetLatch, clear)
  PROVE  PortsInv'
<1> USE DEF PortsInv, CountFollows, InReset
<1>1. step' \in 0 .. 3 /\ soundValid' \in BOOLEAN
  <2>1. step' = 0 \/ step' = step \/ (step # 3 /\ step' = step + 1)
    BY DEF Cycle
  <2> QED BY <2>1 DEF Count
<1>2. /\ ~(Advances(ce) /\ step = 3) => access' = access /\ (extReady => extReady')
      /\ step' = 3 => \/ step = 3 /\ ~Advances(ce)
                      \/ step = 2 /\ Advances(ce)
      /\ Advances(ce) /\ step = 3 => step' = 0
  <2>1. CASE Advances(ce) /\ step = 3
    BY <2>1 DEF Cycle
  <2>2. CASE ~(Advances(ce) /\ step = 3)
    <3>1. access' = access /\ step' = IF Advances(ce) THEN step + 1 ELSE step
      BY <2>2 DEF Cycle
    <3>2. extReady => extReady'
      BY <2>2 DEF Cycle
    <3> QED BY <3>1, <3>2, <2>2
  <2> QED BY <2>1, <2>2
<1>3. InReset(resetLatch) => counted' = Unknown
  BY DEF Account
<1>4. /\ InReset(resetLatch) /\ ~(Advances(ce) /\ step = 3) => stretched'
      /\ stretched' => InReset(resetLatch)
  BY DEF StretchReset
<1>5. ~comEnable => comRam' = comRam
  BY DEF HostCom
<1>6. ~(Advances(ce) /\ step = 3) => soundAddress' = soundAddress /\ soundValid' = soundValid
  BY DEF Count, Commits
<1>7. ResponseCurrent'
  <2> SUFFICES ASSUME comValid', ~comHost', DspReads'
               PROVE  comData' = comRam'[soundAddress' % ComSize]
    BY DEF ResponseCurrent
  <2>1. step' # 0
    BY DEF DspReads, Strobed
  <2>2. soundAddress' = soundAddress
    BY <2>1, <1>2, <1>6
  <2>3. DspReads
    <3>1. CASE comValid
      <4>1. comHost' = comHost /\ comValid' = IF comHost THEN HostReadsCom ELSE DspReads
        BY <3>1 DEF ComRespond
      <4> QED BY <4>1
    <3>2. CASE ~comValid
      <4>1. comValid' = (HostReadsCom \/ DspReads)
        BY <3>2 DEF ComRespond
      <4>2. HostReadsCom => comHost' = HostReadsCom
        BY <3>2 DEF ComRespond
      <4> QED BY <4>1, <4>2
    <3> QED BY <3>1, <3>2
  <2>4. comRam' = comRam
    BY <2>3, <1>5 DEF DspReads
  <2>5. CASE comValid
    BY <2>2, <2>3, <2>4, <2>5 DEF ComRespond, ResponseCurrent
  <2>6. CASE ~comValid
    BY <2>2, <2>3, <2>4, <2>6 DEF ComRespond
  <2> QED BY <2>5, <2>6
<1>8. SampleReady'
  <2> SUFFICES ASSUME step' = 3, ~held'
               PROVE  /\ ~stretched' /\ access'.op \in {"in2", "out7"} => extReady'
                      /\ access'.op = "in1" /\ counted' # Unknown =>
                           comValid' /\ ~comHost' /\ comData' = comRam'[soundAddress' % ComSize]
    BY DEF SampleReady
  <2>1. /\ access' = access /\ soundAddress' = soundAddress
        /\ extReady => extReady'
    BY <1>2, <1>6
  <2>2. access.op # "idle" => access # NoAccess
    BY DEF NoAccess
  <2>3. ASSUME ~stretched', access'.op \in {"in2", "out7"} PROVE extReady'
    <3>1. ~InReset(resetLatch)
      BY <2>3, <1>2, <1>4
    <3>2. CASE step = 2 \/ held
      <4>1. PortReady
        BY <3>1, <3>2, <2>1, <2>2, <2>3 DEF HoldPort
      <4> QED BY <4>1, <2>1, <2>3 DEF PortReady, DspReads, Strobed
    <3>3. CASE step = 3 /\ ~held
      BY <3>1, <3>3, <2>1, <2>3 DEF SampleReady
    <3> QED BY <3>2, <3>3, <1>2
  <2>4. ASSUME access'.op = "in1", counted' # Unknown
        PROVE  comValid' /\ ~comHost' /\ comData' = comRam'[soundAddress' % ComSize]
    <3>1. ~InReset(resetLatch)
      BY <2>4, <1>3
    <3>2. counted # Unknown
      BY <2>4, <2>1, <1>2 DEF Account
    <3>3. comValid /\ ~comHost /\ DspReads /\ comData = comRam[soundAddress % ComSize]
      <4>1. CASE step = 2 \/ held
        <5>1. PortReady
          BY <3>1, <4>1, <2>1, <2>2, <2>4 DEF HoldPort
        <5> QED BY <5>1, <2>1, <2>4 DEF PortReady, DspReads, Strobed, ResponseCurrent
      <4>2. CASE step = 3 /\ ~held
        <5>1. ~comEnable
          BY <4>2, <2>1, <2>4 DEF Account
        <5> QED BY <5>1, <4>2, <3>2, <2>1, <2>4 DEF SampleReady, DspReads, Strobed
      <4> QED BY <4>1, <4>2, <1>2
    <3>4. comRam' = comRam
      BY <3>3, <1>5 DEF DspReads
    <3> QED BY <3>3, <3>4, <2>1 DEF ComRespond
  <2> QED BY <2>3, <2>4
<1>9. CountFollows'
  <2>1. stretched' => counted' = Unknown
    BY <1>3, <1>4
  <2> SUFFICES ASSUME counted' # Unknown PROVE soundValid' /\ soundAddress' = counted'
    BY <2>1
  <2>2. ~InReset(resetLatch) /\ ~(access.op = "in1" /\ step = 3 /\ ~held /\ comEnable)
    BY DEF Account
  <2>3. CASE ~(Advances(ce) /\ step = 3)
    BY <2>2, <2>3, <1>6 DEF Account
  <2>4. CASE Advances(ce) /\ step = 3 /\ access.op = "out7"
    <3>1. PortReady
      BY <2>2, <2>4 DEF SampleReady, Advances, PortReady, Strobed
    <3>2. Strobed("out7") /\ Commits(ce) /\ ~Reading
      BY <3>1, <2>4 DEF Commits, Reading, Strobed
    <3>4. soundAddress' = access.word
      BY <3>2 DEF Count
    <3>5. soundValid'
      BY <3>2 DEF Count
    <3>3. counted' = access.word
      BY <2>2, <2>4 DEF Account
    <3> QED BY <3>3, <3>4, <3>5
  <2>5. CASE Advances(ce) /\ step = 3 /\ access.op \in {"in1", "in2"}
    <3>1. counted # Unknown /\ counted' = (counted + 1) % CountMod
      BY <2>2, <2>5 DEF Account
    <3>2. PortReady
      BY <3>1, <2>2, <2>5 DEF SampleReady, Advances, PortReady, DspReads, Strobed
    <3>3. Reading /\ Commits(ce)
      BY <3>2, <2>5 DEF Commits, Reading, Strobed
    <3>4. soundAddress' = (soundAddress + 1) % CountMod
      BY <3>3 DEF Count
    <3>5. soundValid'
      BY <3>1 DEF Count
    <3> QED BY <3>1, <3>4, <3>5
  <2>6. CASE Advances(ce) /\ step = 3 /\ access.op \notin {"in1", "in2", "out7"}
    BY <2>2, <2>6 DEF Account, Count, Reading, Strobed
  <2> QED BY <2>3, <2>4, <2>5, <2>6
<1>10. RequestSurvives'
  <2> SUFFICES ASSUME requested' PROVE irq'
    BY DEF RequestSurvives
  <2>1. ~resetLatch /\ ((step = 3 /\ access.op = "out5") \/ (requested /\ ~clear))
    BY DEF Account
  <2>2. Strobed("out5") \/ (irq /\ ~clear)
    BY <2>1 DEF RequestSurvives, Strobed
  <2> QED BY <2>1, <2>2 DEF Request5
<1> QED BY <1>1, <1>7, <1>8, <1>9, <1>10

LEMMA PortsInvariant == PortsSpec => []PortsInv
<1>1. ASSUME PortsInit PROVE PortsInv
  <2>1. step = 0 /\ soundValid = FALSE
    BY <1>1 DEF PortsInit
  <2>2. ResponseCurrent /\ SampleReady
    BY <1>1 DEF PortsInit, ResponseCurrent, SampleReady
  <2>3. CountFollows /\ RequestSurvives
    BY <1>1 DEF PortsInit, CountFollows, RequestSurvives
  <2>4. step \in 0 .. 3
    BY <2>1
  <2>5. soundValid \in BOOLEAN
    BY <2>1
  <2> QED BY <2>2, <2>3, <2>4, <2>5 DEF PortsInv
<1>2. ASSUME PortsInv, [PortsEdge]_portVars PROVE PortsInv'
  <2>1. CASE UNCHANGED portVars
    BY <1>2, <2>1
    DEF portVars, PortsInv, ResponseCurrent, SampleReady, CountFollows, RequestSurvives,
        DspReads, Strobed
  <2>2. CASE PortsEdge
    BY <1>2, <2>2, PortsInvEdge DEF PortsEdge
  <2> QED BY <1>2, <2>1, <2>2
<1> QED BY <1>1, <1>2, PTL DEF PortsSpec

(* The processor reads port 1 at the address its program counts on, for a  *)
(* communication RAM and a counter of any size.                            *)
THEOREM PortReadCorrect == PortsSpec => []PortReadExact
<1>1. PortsInv => PortReadExact
  BY DEF PortsInv, CountFollows, SampleReady, PortReadExact, Strobed
<1> QED BY <1>1, PortsInvariant, PTL

(* No clear that came before a request takes it back.                      *)
THEOREM RequestCorrect == PortsSpec => []RequestSurvives
<1>1. PortsInv => RequestSurvives
  BY DEF PortsInv
<1> QED BY <1>1, PortsInvariant, PTL
=============================================================================
