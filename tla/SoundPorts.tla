----------------------------- MODULE SoundPorts ------------------------------
(***************************************************************************)
(* The ports of the sound board's processor, rtl/wrappers:                 *)
(*   - hard_drivin_sound_communication_path.sv: the communication RAM and  *)
(*     the counter that addresses it, which port 7 loads and every input   *)
(*     read moves on;                                                      *)
(*   - the interrupt request of hard_drivin_sound_output_control.sv, which *)
(*     port 5 sets and the 68000 clears;                                   *)
(*   - the hold of tms32010_mister.sv for a port that is not ready.        *)
(*                                                                         *)
(* A step is one clock edge.  The 68000 owns the RAM while CRAMEN is set,  *)
(* a bit it writes between its own accesses.  The other ports answer by an *)
(* external ready, which stays until the access ends.  The direct accesses *)
(* of the 68000 to the ports are left out.                                 *)
(***************************************************************************)
EXTENDS Integers

CONSTANTS
  ComSize, ComWords,     \* the communication RAM: 512 words
  CountMod               \* 65536, the addresses of the counter

ASSUME PortsAssumption ==
  /\ ComSize \in Nat \ {0} /\ CountMod \in Nat \ {0} /\ ComSize <= CountMod
  /\ 0 \in ComWords

ComAddrs == 0 .. ComSize - 1
Counts   == 0 .. CountMod - 1

VARIABLES
  stretched, access, step, held, extReady,     \* the machine cycle of the processor
  soundAddress, soundValid,         \* address_control
  comEnable,                        \* latch_q_o[3], CRAMEN
  comRam, comValid, comHost, comData,                \* communication_ram
  hostAccess,                       \* what the 68000 selects of it
  irq,                              \* irq_68000_o
  counted,     \* history: the address that the program counts on, or none
  requested    \* history: a port-5 write that no clear has followed

portVars == <<stretched, access, step, held, extReady, soundAddress, soundValid, comEnable, comRam,
              comValid, comHost, comData, hostAccess, irq, counted, requested>>

Unknown == CountMod       \* of counted

\* in1 reads the communication RAM, in2 another input; out7 loads the counter.
Access == [op : {"idle", "in1", "in2", "out5"}, word : {0}]
            \cup [op : {"out7"}, word : Counts]
NoAccess == [op |-> "idle", word |-> 0]

NoHost == [op |-> "none"]
HostAccess == [op : {"read"}, addr : ComAddrs] \cup [op : {"write"}, addr : ComAddrs, word : ComWords]

-----------------------------------------------------------------------------
Strobed(op) == access.op = op /\ step # 0

Reading == Strobed("in1") \/ Strobed("in2")

DspReads  == Strobed("in1") /\ soundValid /\ ~comEnable
HostReadsCom == hostAccess.op = "read" /\ comEnable

PortReady ==
  \/ DspReads /\ comValid /\ ~comHost
  \/ Strobed("out5")
  \/ (Strobed("in2") \/ Strobed("out7")) /\ extReady

Advances(ce) == ce /\ ~held

\* io_commit_o
Commits(ce) == Advances(ce) /\ step = 3 /\ PortReady

\* Mutant: the counter moves while the strobe is active, not once at its end.
CountEachPhase(ce) ==
  /\ soundAddress' = IF Reading /\ PortReady /\ Advances(ce) THEN (soundAddress + 1) % CountMod
                     ELSE IF Strobed("out7") /\ Commits(ce) THEN access.word
                     ELSE soundAddress
  /\ soundValid' = (soundValid \/ (Strobed("out7") /\ Commits(ce)))

Count(ce) ==
  /\ soundAddress' = IF Reading /\ Commits(ce) THEN (soundAddress + 1) % CountMod
                     ELSE IF Strobed("out7") /\ Commits(ce) THEN access.word
                     ELSE soundAddress
  /\ soundValid' = (soundValid \/ (Strobed("out7") /\ Commits(ce)))

ComRespond ==
  IF comValid
  THEN /\ comValid' = IF comHost THEN HostReadsCom ELSE DspReads
       /\ UNCHANGED <<comHost, comData>>
  ELSE /\ comValid' = (HostReadsCom \/ DspReads)
       /\ IF HostReadsCom \/ DspReads
          THEN /\ comHost' = HostReadsCom
               /\ comData' = comRam[IF HostReadsCom THEN hostAccess.addr
                                    ELSE soundAddress % ComSize]
          ELSE UNCHANGED <<comHost, comData>>

\* Mutant: the clear of the 68000 dominates the strobe of the processor.
RequestCleared(resetLatch, clear) ==
  irq' = (~resetLatch /\ ~clear /\ (Strobed("out5") \/ irq))

\* The strobe of port 5 sets the request, whatever the 68000 clears meanwhile.
Request5(resetLatch, clear) ==
  irq' = (~resetLatch /\ (Strobed("out5") \/ (irq /\ ~clear)))

\* The processor is in reset at least until the boundary (see ResetReaches).
InReset(resetLatch) == resetLatch \/ stretched

StretchReset(ce, resetLatch) ==
  stretched' \in IF resetLatch THEN {TRUE}
                 ELSE IF Advances(ce) /\ step = 3 THEN {FALSE, stretched}
                 ELSE {stretched}

HoldPort(resetLatch) ==
  held' = /\ ~InReset(resetLatch)
          /\ held \/ (step = 2 /\ access # NoAccess)
          /\ ~PortReady

\* The processor goes on to its next machine cycle.
Cycle(ce, resetLatch) ==
  IF Advances(ce) /\ step = 3
  THEN /\ step' = 0 /\ extReady' = FALSE
       /\ access' \in IF InReset(resetLatch) THEN {NoAccess} ELSE Access
  ELSE /\ step' = IF Advances(ce) THEN step + 1 ELSE step
       /\ extReady' \in {extReady, TRUE} /\ UNCHANGED access

\* The 68000: one access at a time, and the latch between them.
HostCom(commit) ==
  /\ hostAccess' \in IF hostAccess = NoHost THEN HostAccess \cup {NoHost}
                     ELSE {hostAccess, NoHost}
  /\ IF hostAccess = NoHost /\ hostAccess' = NoHost THEN comEnable' \in BOOLEAN
     ELSE UNCHANGED comEnable
  /\ comRam' = IF commit /\ hostAccess.op = "write" /\ comEnable
               THEN [comRam EXCEPT ![hostAccess.addr] = hostAccess.word]
               ELSE comRam

\* What the program counts on: a read moves the address on, a load sets it.  A
\* reset, or a 68000 that takes the RAM between the decision to go on and the
\* sample, leaves it unknown.
Account(ce, resetLatch, clear) ==
  /\ counted' =
       IF InReset(resetLatch) \/ (access.op = "in1" /\ step = 3 /\ ~held /\ comEnable)
         THEN Unknown
       ELSE IF Advances(ce) /\ step = 3 /\ access.op = "out7" THEN access.word
       ELSE IF Advances(ce) /\ step = 3 /\ access.op \in {"in1", "in2"} /\ counted # Unknown
         THEN (counted + 1) % CountMod
       ELSE counted
  /\ requested' = (/\ ~InReset(resetLatch)
                   /\ \/ Advances(ce) /\ step = 3 /\ access.op = "out5"
                      \/ requested /\ ~clear)

PortsEdge ==
  \E ce, resetLatch, clear, commit \in BOOLEAN :
    /\ Count(ce) /\ ComRespond /\ Request5(resetLatch, clear)
    /\ StretchReset(ce, resetLatch) /\ HoldPort(resetLatch) /\ Cycle(ce, resetLatch)
    /\ HostCom(commit) /\ Account(ce, resetLatch, clear)

PortsInit ==
  /\ stretched = TRUE /\ access = NoAccess /\ step = 0 /\ held = FALSE /\ extReady = FALSE
  /\ soundAddress = 0 /\ soundValid = FALSE /\ comEnable = FALSE
  /\ comRam \in [ComAddrs -> ComWords] /\ comValid = FALSE /\ comHost = FALSE /\ comData = 0
  /\ hostAccess = NoHost /\ irq = FALSE
  /\ counted = Unknown /\ requested = FALSE

PortsSpec == PortsInit /\ [][PortsEdge]_portVars

-----------------------------------------------------------------------------
(* The reads of the program follow the address it set: each input read      *)
(* moves the counter on exactly once, held or paused as it may be, and what *)
(* the program samples from port 1 is the word stored there.                *)
PortReadExact ==
  counted # Unknown =>
    /\ soundValid /\ soundAddress = counted
    /\ Strobed("in1") /\ step = 3 /\ ~held => comData = comRam[counted % ComSize]

(* A request for the 68000 is pending until a clear that follows it.        *)
RequestSurvives == requested => irq
=============================================================================
