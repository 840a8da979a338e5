----------------------------- MODULE SoundBoard -----------------------------
(***************************************************************************)
(* The two masters of the board's program RAM and the clocked logic        *)
(* between them, rtl/wrappers:                                             *)
(*   - hard_drivin_sound_host_timing.sv, the local 68000's bus cycle, with *)
(*     the decoding of local_memory_decode.sv and local_memory_bridge.sv;  *)
(*   - bit 4 of hard_drivin_sound_host_control.sv, the reset of the DSP;   *)
(*   - hard_drivin_sound_program_ram.sv with bus_decode.sv;                *)
(*   - tms32010_mister.sv, the wrapper that stretches the reset and holds  *)
(*     phase 3 for a late memory, around the phases of the pipeline slice. *)
(*                                                                         *)
(* A step is one edge of clk_i, with an event of the host's bus (the 8 MHz *)
(* clock rises or falls, /AS is asserted, or none), the negation of /AS,   *)
(* the clock enable, the external I/O ready and the board reset as inputs. *)
(* The processor's cycles are any sequence of Requests and may park at any *)
(* boundary.  An access to one of the ports is "io", with an external      *)
(* ready.  The inputs use_host_control_i and use_host_timing_i are high.   *)
(***************************************************************************)
EXTENDS Integers

CONSTANTS
  RamAddrs, Words,      \* the program RAM
  ResetAddr,            \* where the processor starts
  HostCycles,           \* the cycles the 68000 may start
  Requests,             \* the machine cycles the processor may start
  ResetMachineCycles    \* RESET_MACHINE_CYCLES, 5 in the RTL

HostCycle == [target : {"program", "latch", "other"}, read : BOOLEAN,
              vpa : BOOLEAN, addr : RamAddrs, word : Words]
Request == [kind : {"read", "write", "io"}, addr : RamAddrs, word : Words]
ResetFetch == [kind |-> "read", addr |-> ResetAddr, word |-> 0]

ASSUME BoardAssumption ==
  /\ ResetAddr \in RamAddrs /\ 0 \in Words
  /\ HostCycles \subseteq HostCycle /\ HostCycles # {} /\ Requests \subseteq Request
  /\ ResetMachineCycles \in Nat \ {0}

VARIABLES
  clk8,                              \* the level of the 8 MHz clock
  cycleActive, asSeen, rva, dtackSeen, normalSeen,   \* host_timing
  cycle,                             \* what it latched with /AS
  dspResetN,                         \* latch_q_o[4], /320RES
  ram, respValid, respHost, respData,                \* program_ram
  resetLeft, wait,                   \* reset_cycles_remaining, memory_wait
  phase, active, relSeen, stuck, req,                \* the slice and its bus
  resetOwed,   \* history: a reset was requested and no boundary has seen it
  exclusive    \* history: the DSP has been in reset since /AS

hostVars == <<clk8, cycleActive, asSeen, rva, dtackSeen, normalSeen, cycle>>
ramVars  == <<ram, respValid, respHost, respData>>
dspVars  == <<resetLeft, wait, phase, active, relSeen, stuck, req>>
vars     == <<hostVars, dspResetN, ramVars, dspVars, resetOwed, exclusive>>

-----------------------------------------------------------------------------
\* The host side.

DtackN == ~(rva /\ ~(cycleActive /\ cycle.vpa))
RvasN  == dtackSeen /\ ~rva

\* Mutant: the sampled acknowledge is not looked at.
NormalCompletionUnsampled == cycleActive /\ ~cycle.vpa /\ ~rva /\ ~asSeen

NormalCompletion == cycleActive /\ ~cycle.vpa /\ ~rva /\ ~dtackSeen

Completes(ev) == ev = "fall" /\ NormalCompletion

\* The two F74 40R stages: /AS sets the first, which RVA clears.
SyncStages(ev) ==
  /\ asSeen' = ((ev = "assert") \/ (asSeen /\ ev # "rise"))
  /\ rva' = IF ev = "rise" THEN asSeen ELSE rva

HostStep(ev, deassert, c) ==
  /\ clk8' = IF ev \in {"rise", "fall"} THEN ev = "rise" ELSE clk8
  /\ SyncStages(ev)
  /\ cycle' = IF ev = "assert" THEN c ELSE cycle
  /\ cycleActive' = (~deassert /\ (ev = "assert" \/ cycleActive))
  /\ dtackSeen' = IF ev = "fall" THEN DtackN ELSE dtackSeen
  /\ normalSeen' = (~deassert /\ ev # "assert" /\ (Completes(ev) \/ normalSeen))

\* The 68000: it negates /AS at or after the completion of an ordinary cycle.
\* A VPA cycle lasts until the synchronizer is quiet again (it follows the
\* 800 kHz E clock).
MayDeassert(ev) ==
  /\ cycleActive
  /\ IF cycle.vpa THEN ~asSeen /\ ~rva ELSE Completes(ev) \/ normalSeen

HostSelect == cycleActive /\ cycle.target = "program" /\ ~RvasN

\* The latch: the board reset clears it; a write sets Q4 from the address.
LatchStep(ev, boardReset) ==
  dspResetN' = IF boardReset THEN FALSE
               ELSE IF Completes(ev) /\ cycle.target = "latch" /\ ~cycle.read
                    THEN cycle.word = 1 ELSE dspResetN

-----------------------------------------------------------------------------
\* The program RAM.  While both masters are selected neither is permitted.

TmsPermitted  == dspResetN /\ ~HostSelect
HostPermitted == HostSelect /\ ~dspResetN
Conflict      == HostSelect /\ dspResetN

Strobe(kind) == active /\ phase # 0 /\ req.kind = kind

HostReads == HostPermitted /\ cycle.read
TmsReads  == TmsPermitted /\ Strobe("read")

HostReady == HostPermitted /\ (~cycle.read \/ (respValid /\ respHost))
TmsReady  == \/ TmsPermitted /\ Strobe("write")
             \/ TmsReads /\ respValid /\ ~respHost

\* Mutant: the response is kept until the other master asks.
ResponseKept ==
  \/ respHost /\ ~TmsReads
  \/ ~respHost /\ ~HostReads

\* A response lives while its master keeps asking.
ResponseLives == IF respHost THEN HostReads ELSE TmsReads

\* Mutant: the address of the read is not multiplexed.
RespondTmsAddr ==
  IF respValid
  THEN respValid' = ResponseLives /\ UNCHANGED <<respHost, respData>>
  ELSE /\ respValid' = (HostReads \/ TmsReads)
       /\ respHost' = HostReads
       /\ respData' = ram[req.addr]

Respond ==
  IF respValid
  THEN respValid' = ResponseLives /\ UNCHANGED <<respHost, respData>>
  ELSE /\ respValid' = (HostReads \/ TmsReads)
       /\ IF HostReads \/ TmsReads
          THEN /\ respHost' = HostReads
               /\ respData' = ram[IF HostReads THEN cycle.addr ELSE req.addr]
          ELSE UNCHANGED <<respHost, respData>>

Commit(ev, advance) ==
  ram' = IF HostPermitted /\ ~cycle.read /\ Completes(ev)
         THEN [ram EXCEPT ![cycle.addr] = cycle.word]
         ELSE IF TmsPermitted /\ Strobe("write") /\ advance /\ phase = 3
              THEN [ram EXCEPT ![req.addr] = req.word]
              ELSE ram

-----------------------------------------------------------------------------
\* The processor wrapper and the phases of the slice.

ResetActive == ~dspResetN \/ resetLeft # 0

PhaseAdvance(ce) == ce /\ ~wait /\ (ResetActive \/ ~stuck)

\* Mutant: the stretch is counted in phases of the machine cycle.
StretchPhases(ce) ==
  resetLeft' = IF ~dspResetN THEN ResetMachineCycles
               ELSE IF ce /\ ~wait /\ resetLeft # 0 THEN resetLeft - 1
               ELSE resetLeft

\* Mutant: the counter runs below zero.
StretchUnbounded(ce) ==
  resetLeft' = IF ~dspResetN THEN ResetMachineCycles
               ELSE IF ce /\ ~wait /\ phase = 3 THEN resetLeft - 1
               ELSE resetLeft

Stretch(ce) ==
  resetLeft' = IF ~dspResetN THEN ResetMachineCycles
               ELSE IF ce /\ ~wait /\ phase = 3 /\ resetLeft # 0 THEN resetLeft - 1
               ELSE resetLeft

Ready(ioReady) == TmsReady \/ (Strobe("io") /\ ioReady)

\* Mutant: the hold is not ended by a ready.
HoldForGood(ioReady) ==
  wait' = /\ ~ResetActive
          /\ wait \/ (phase = 2 /\ active /\ ~Ready(ioReady))

\* The hold for a late response: decided in phase 2, and ended by the ready.
Hold(ioReady) ==
  wait' = /\ ~ResetActive
          /\ wait \/ (phase = 2 /\ active)
          /\ ~Ready(ioReady)

\* At the boundary the slice resets, counts the release, or goes on; a word
\* it cannot execute parks it.
NextCycle ==
  IF ResetActive
  THEN active' = FALSE /\ relSeen' = FALSE /\ stuck' = FALSE /\ req' = ResetFetch
  ELSE /\ relSeen' = TRUE /\ active' = relSeen
       /\ IF active THEN req' \in Requests /\ stuck' \in BOOLEAN
                    ELSE UNCHANGED <<req, stuck>>

Phases(ce) ==
  IF PhaseAdvance(ce)
  THEN /\ phase' = (phase + 1) % 4
       /\ IF phase = 3 THEN NextCycle ELSE UNCHANGED <<active, relSeen, stuck, req>>
  ELSE UNCHANGED <<phase, active, relSeen, stuck, req>>

-----------------------------------------------------------------------------
Edge(ev, deassert, c) ==
  \E ce, ioReady, boardReset \in BOOLEAN :
    /\ HostStep(ev, deassert, c)
    /\ LatchStep(ev, boardReset)
    /\ Respond
    /\ Commit(ev, PhaseAdvance(ce))
    /\ Stretch(ce) /\ Hold(ioReady) /\ Phases(ce)
    /\ resetOwed' = (~dspResetN' \/ (resetOwed /\ ~(PhaseAdvance(ce) /\ phase = 3)))
    /\ exclusive' = (~dspResetN' /\ (ev = "assert" \/ exclusive))

Quiet    == Edge("none", FALSE, cycle)
Rise     == ~clk8 /\ Edge("rise", FALSE, cycle)
Fall     == clk8 /\ Edge("fall", FALSE, cycle)
Assert   == ~cycleActive /\ \E c \in HostCycles : Edge("assert", FALSE, c)
Deassert == \E ev \in {"none", "rise", "fall"} :
              /\ ev = "rise" => ~clk8
              /\ ev = "fall" => clk8
              /\ MayDeassert(ev)
              /\ Edge(ev, TRUE, cycle)

Init ==
  /\ clk8 = FALSE /\ cycleActive = FALSE /\ asSeen = FALSE /\ rva = FALSE
  /\ dtackSeen = TRUE /\ normalSeen = FALSE /\ cycle \in HostCycles
  /\ dspResetN = FALSE
  /\ ram \in [RamAddrs -> Words] /\ respValid = FALSE /\ respHost = FALSE /\ respData = 0
  /\ resetLeft = ResetMachineCycles /\ wait = FALSE
  /\ phase = 0 /\ active = FALSE /\ relSeen = FALSE /\ stuck = FALSE /\ req = ResetFetch
  /\ resetOwed = TRUE /\ exclusive = FALSE

Next == Quiet \/ Rise \/ Fall \/ Assert \/ Deassert

\* The clock runs, and the 68000 ends the cycles it may end.
Fairness == WF_vars(Rise) /\ WF_vars(Fall) /\ WF_vars(Deassert)

Spec     == Init /\ [][Next]_vars
FairSpec == Spec /\ Fairness

-----------------------------------------------------------------------------
BoardTypeOK ==
  /\ \A b \in {clk8, cycleActive, asSeen, rva, dtackSeen, normalSeen, dspResetN,
               respValid, respHost, wait, active, relSeen, stuck, resetOwed,
               exclusive} : b \in BOOLEAN
  /\ cycle \in HostCycle /\ req \in Request
  /\ ram \in [RamAddrs -> Words] /\ respData \in Words
  /\ resetLeft \in 0..ResetMachineCycles /\ phase \in 0..3

\* A word the processor samples is the word the RAM holds: the hold, the
\* response register and the handover between the masters never combine to
\* let a stale response through, whatever the clock enable does.
FreshRead ==
  Strobe("read") /\ phase = 3 /\ ~wait /\ ~ResetActive => respData = ram[req.addr]

\* When the fixed acknowledge ends a host read of the RAM, and the DSP was in
\* reset for the whole cycle, the answer is there and it is current: the bus
\* has no way to wait for it.
HostReadFresh ==
  NormalCompletion /\ HostReads /\ exclusive => HostReady /\ respData = ram[cycle.addr]

\* A cycle is answered at most once, however long /AS stays low.
AnsweredOnce == NormalCompletion => ~normalSeen

\* A reset of any length reaches the slice: the stretch outlasts the first
\* boundary after it, even when the slice is parked or its clock is stopped.
ResetReaches == resetOwed => ResetActive

\* A program transfer held for the memory goes on, and a bus cycle of the
\* 68000 ends, whatever the other master does.
CyclesFinish ==
  /\ wait /\ req.kind # "io" ~> ~wait
  /\ cycleActive ~> ~cycleActive
=============================================================================
