# TMS32010: a verification development of the repository

This directory holds TLA+ models of the TMS32010 core, its fetch/execute
pipeline and the sound board around it as they are written in `rtl/`, and of the
Python tools that judge captures of real devices and release evidence.  TLC
configurations check them on small instances, and TLAPS proves every safety
property of the runs, of the hardware for every width, memory and program, of the
tools for every set of files, sources and gates.  Paths below are relative to the
repository; PROJECT.json maps each definition to the lines it stands for.

## 1. The system

The repository implements the TMS32010 signal processor in SystemVerilog, with
the sound board of an arcade game around it, an instruction-level reference
model in Python, an assembler and a disassembler, and tools that collect and
audit evidence.

| Component | State it keeps | Operations | What makes it correct |
|---|---|---|---|
| Execution core, `rtl/core/tms32010_core.sv` | PC, 4-level stack, ACC, T, P, AR0/1, ARP, DP, OV, OVM, INTM, internal RAM, interrupt pending/delay/entry, one pending transaction (operand, computed, I/O, table) with its captured operands | one enabled clock edge: issue a word, advance the pending transaction, enter the interrupt, refuse; reset; initialize; debug preload | each instruction takes effect once, at one edge, as in the reference model; at most one transaction owns an edge; the interrupt sequence runs only when armed |
| Datapath units, `tms32010_accumulator.sv`, `_multiplier`, `_input_shifter`, `_output_shifter`, `_auxiliary_counter`, `_status_word`, `_stack` | none, but the stack's | pure functions | results keep their width and agree with the reference model |
| Decoder, `tms32010_decode.sv` | none | word to operation and fields | every word has one meaning |
| Internal RAM, `tms32010_internal_ram.sv` | 144 words, a registered read | write, preload, combinational and captured reads | the captured read is never stale when used |
| Program bus, `tms32010_program_bus.sv` | phase, active, release synchroniser, address | four-phase cycle, reset, hold | a fetch at each boundary once active |
| Fetch/execute slot, `tms32010_fetch_execute.sv` | one word with its address | fill, hold, empty | the word executed is the one fetched at its address |
| Sequential pipeline slice, `rtl/wrappers/tms32010_sequential_pipeline_slice.sv` | pipeline state, carrier word, BIOZ decision, I/O sample, interrupt protection | a boundary per pipeline state, parking, reset | the fetch side and the core agree although each decides for itself |
| Phase slice, `tms32010_phase_slice.sv` | phase | one core edge per machine cycle, no overlap | as the core |
| Processor wrapper, `tms32010_mister.sv` | reset stretcher, memory wait | stretch RS, hold phase 3 until the memory is ready | the word sampled is the word addressed; the hold ends; no reset is lost |
| Mailboxes, `hard_drivin_sound_mailboxes.sv` | two word latches, flags, validity of each | post, take, reset, at the same edge too | a valid flag tells the truth |
| Host bus, `hard_drivin_sound_host_timing.sv`, `_host_control` | bus cycle, two-stage synchroniser, control latch | /AS, clock edges, acknowledge | one acknowledge per cycle, and no sooner than the data |
| Main-board bus, `hard_drivin_main_*.sv` | RVAS flip-flops, sampled DTACK | clock edges, /AS | preset dominates; strobes held to the acknowledge |
| Board memories, `hard_drivin_sound_program_ram.sv`, `_communication_ram`, `_communication_path`, `_local_ram`, `_local_memory_bridge`, `_rom_path` | RAM words, a registered response, validity lanes | reads and writes from two owners, scrub | exclusive ownership; a response belongs to its request |
| Board I/O, `hard_drivin_sound_320_port_latch.sv`, `_address_control`, `_bio_generator`, `_dac_latch`, `_direct_io`, `_output_control` | address counter, interrupt request, output latches, BIO divider | port reads and writes | one step of the counter per read; no request lost |
| Local reset, `hard_drivin_sound_local_reset_*.sv` | monostable with hold and inhibit | trigger, tick | a trigger is ignored only while the reset lasts |
| Reference model, `sim/reference_models/tms32010_model.py` | architectural state, program memory | `step` | it is the specification |
| Capture tools, `tools/trace/*_capture.py`, `specimen_evidence.py` | files: recordings, sidecars, reports | read, classify, hash, report | a report that is ready is true of the rows that were parsed |
| Reference cache, `scripts/fetch_references.py`, `verify_reference_hashes.py` | the cached files | fetch, verify | only verified bytes are installed |
| Release scripts, `scripts/audit_release.py`, `check_*.py`, `run_release_checks.py` | logs and a receipt | run the gates, write and verify the receipt | an accepted receipt speaks of this tree |
| Assembler, disassembler, ISA database | none | offline | - |

How they interact.  The board gives the processor wrapper a clock enable and
program words.  The wrapper drives the pipeline slice; the slice drives the
program bus, the slot and the core.  At the last phase of each machine cycle, the
*boundary*, the word on the program bus is fetched and the core is clocked with
a second copy (the carrier) of the word it is to consume.  The slice computes
every fetch address and every interrupt decision from the core's *live*
registers one machine cycle before the core computes them again, from operands
it captured.  Nothing in the RTL makes the two agree by wiring: that they do is
an invariant of the whole.

What is hard.  Instructions take one, two or three machine cycles and may be
overlapped by a request, a reset, a BIO edge or a parked bus at each of them;
an interrupt is deferred by one instruction, which may itself be a branch, a
table transfer or DINT, and further by a multiply; fetched words are
discarded (after CALA, RET, TBLR, TBLW and before the vector) although the
memory did return them; post-modification of ARs happens at different edges
of different instructions.  On the board a paused clock enable, a second master
and a registered response come between an address and its word, and a reset is
latched in one place, stretched in another and seen in a third.  The capture and
release tools open the same file several times while people may replace it.
PROJECT.json lists each hazard at its line.

## 2. The modules

| Module | Models | Remarks |
|---|---|---|
| `Datapath` | the datapath units and the issue-time effect of every one-cycle instruction, `ExecReg`, `StoreValue`, `BranchTaken`, `EffectiveAddress` | pure; the widths are CONSTANTS |
| `Core` | `tms32010_core.sv` and the internal RAM | one action per branch of the clocked process |
| `Isa` | `tms32010_model.py` | the abstract specification: one step is one instruction or one interrupt entry |
| `Pipeline` | the slice, with the program bus and the slot | EXTENDS `Core`; one action per kind of boundary |
| `Stored` | the slice with its program memory | EXTENDS `Pipeline`; TBLW rewrites words that may be fetched already |
| `StagedRam` | the internal RAM with its registered read | relates it to the combinational read of `Core` |
| `SoundBoard` | `tms32010_mister.sv`, `_host_timing`, bit 4 of `_host_control`, `_program_ram` with the decoding between them | two masters of one memory; fairness for liveness |
| `SoundPorts` | `_communication_path`, `_communication_ram`, `_address_control`, the request of `_output_control`, the hold for a port | |
| `MainBus` | `_main_bus_control`, `_rvas_timing`, `_dtack_decode` | |
| `BoardLinks` | `_mailboxes`, `_local_reset_*`, the scrub of `_local_ram` | |
| `References` | the reference cache | several fetchers, kills, a damaged disk |
| `Release` | the release gates and receipts | EXTENDS `References`, whose pins the audit looks for |
| `Captures`, `RamCaptures` | the readers and classifiers of the nine capture tools | pure |
| `Evidence` | the checks of sidecars and artifacts | pure |
| `Bench` | the devices and the recorder the captures come from | environment |
| `Campaign` | one tool after another, file access by file access | EXTENDS `Bench`, `Evidence` |
| `MCWords`, `MCCore`, `MCCoreMenus`, `MCPipeline`, `MCPipelineMenus`, `MCStored`, `MCBoard`, `MCBoardReset`, `MCRelease`, `MCCampaign`, `MCTools` | instances for TLC | |
| `DatapathProofs`, `CoreProofs`, `PipelineProofs`, `IsaProofs`, `PipelineIsaProofs`, `BoardProofs`, `BoardPartsProofs`, `ToolProofs` | lemmas and theorems | EXTEND the modules they are about |

**Words.**  A program word is a record of the decoder's outputs for it, together
with the two other readings the machine has of a word: as the operand of a
two-word instruction (`canon`, `addr`) and as the datum that TBLR moves
(`data`).  In `Pipeline` the program memory returns an *arbitrary* member of `Words` at each
fetch, which covers every program over those words, also one that modifies
itself; what a stored program adds (the same address gives the same word)
is in `Stored`, where TBLW stores a word whose datum is the RAM word it moves.
`canon` implies that the word decodes as ADD or as an undefined addressing form,
as the encodings have it.

**Core.**  The RTL keeps five flags and the captured operands of each pending
transaction.  `ctl`, `cmp`, `io` and `tbl` are `"none"` when the flag is clear,
and `xfer` is `table_transfer_phase`.  `Owner` is the priority order of the
`always_ff` process; the combinational outputs (`DataAddress`, `DataRead`,
`DataWrite`, `InstructionValid`, `ProgramNextAddress`) repeat *their own* order
of tests, which differs from it, as in the RTL.  `CoreStep` is the disjunction
of `InterruptEntry`, `FinishComputed`, `FinishControl`, `StartTableTransfer`,
`FinishTable`, `FinishIo`, `Issue` and `Refuse`; `CoreReset`, `CoreInitialize`
and `DebugWrite` are the other inputs.

**Slice.**  `phase` counts to `LastPhase` (3 in the RTL).  Nothing but the
phase changes inside a machine cycle, so two phases distinguish everything the
safety properties do, and `pipe_live` uses the four of the RTL.  Each
boundary is an action: `Prime`, `FetchVector`, `FetchOperand`, `StartComputed`,
`TransferIo`, `StartTable`, `TransferTable`, `Retire`, `RetireProtected`; each of
them contains the core's own edge (`ClockCore`).  `Stuck` is the condition that
blocks the bus; only `ResetBoundary` and `SliceInitialize` leave it, and under RS
a parked bus still counts its phases to the boundary.  A disabled clock enable is
a stuttering step.

**Isa.**  `Execute` is `step` of the reference model over arbitrary words.  The
model samples INT once per instruction; a pin pulse between two such points is
the separate event `Latch`.  Its ADDS and SUBS are translated from the Python
(`IsaReg`), the other arithmetic of one-cycle instructions shares `ExecReg` with
the core, so what the refinement compares is *when* and *whether* each effect
happens, the stack, PC, transfers and interrupts, and ADDS/SUBS.

**Board.**  A step of `SoundBoard`, `SoundPorts`, `MainBus`, `BoardLinks` and
`StagedRam` is one edge of `clk_i` with the inputs of that edge.  `SoundBoard` has
all clocked processes between the two masters in one conjunction (`Edge`): host
timing, latch, response register, write, stretcher, hold, phases.  The processor
is abstracted to its phases, its bus cycle and parking, which `Pipeline` shows to
be what a slice does; its cycles are any sequence of `Requests`.  Assumed of the
68000, as its bus protocol has it: /AS of an ordinary cycle is negated at or after the falling
clock edge that completes it, a VPA cycle lasts until the synchroniser is quiet
again, and on the main board /AS rises no earlier than at the falling edge
that sampled /DTACK.  `use_host_control_i` and `use_host_timing_i` are high, and
the board's reset acts on the latch alone.  In `StagedRam` the preload port writes only
while the core is not clocked, which the core asserts.  In
`SoundPorts` an external ready stays until its access ends, and a reset lasts to a
boundary, which `ResetReaches` establishes in `SoundBoard`.

**Histories.**  `resetOwed`, `exclusive`, `acked`, `lastWord`, `written`, `settled`,
`overwritten`, `counted`, `requested`, `rotten`, `steady`, `start` and the field `truth` of a
recording are not in the code: no guard reads them (but `acked`, which is what the
main 68000 knows), they only say what a property is about.

**Tools.**  A digest is identified with the bytes it is the digest of, and text,
wording and layout of a report with flags.  `Campaign` takes a tool through its
accesses to each capture file in the order of the source (`Steps`): parse, hash
for the specimen record, hash for the report; `Replace` may come between any two.
A recording is a capture with the measurements made beside it, which are written together;
the interrupt and reset tools open the one after the other, so the rows of one recording
may be parsed with the measurements of another.  The write experiment hashes the
stage-1 report before it reads it, and `RewritePrior` may come between.  Sidecars,
images, artifacts and register observations stay what they are during one invocation,
although the code opens them more than once: a narrowing.
The clocks a report is judged by belong to the measurements, device and hold counts to the rows.
In `Release` a writer runs its gates one by one on the tree of the moment; edits,
commits, checkouts, kills and `clean.py` come between.  The other gates, whose
programs are outside these modules, are a set of gates that a content breaks.

## 3. The runs

`core`, `pipe` and `stored` have `PcMod = 3` (0, 1 and the vector 2, so that wrapping
occurs within every few instructions), five-bit words (overflow, saturation and
the sign are reachable), counters of two bits, four data addresses of which three exist (an
indirect address without a word, a DMOV out of the last word, page 1), and reset,
initialize and both pins free at every step.  In `core` and `pipe` a behaviour draws
its words from one of several *menus*, one for each kind of interaction: a product of
all menus would repeat the same interactions at a multiple of the states.

| Run | Question | Distinct states |
|---|---|---|
| `core` | the standalone core on flow words (CALL, CALA, RET, multiply, EINT, DINT) and transfer words (indirect IN, OUT, TBLR, TBLW, DMOV, LAR): `CoreTypeOK`, `OneOwner`, `InterruptArmed`, `CapturedCurrent`, `StrobesExclusive`, `AcceptedCompletes`; every edge is a step of `Isa` or invisible to it (`ImplementsIsa`), and is the step of the very word it serves (`RetiresAsIsa`) | 9 171 |
| `pipe` | the slice on flow words (calls, returns, BIOZ, reserved operands), interrupts around one-cycle words, calls and multiplies, interrupts around OUT and TBLR, and indirect transfers with BANZ: `TypeOK`, the four agreements, `ParksBeforeEffects`, `DummyFetchResumes`, `SlotExecutes` | 145 452 |
| `pipe_live` | four phases, fair clock enable: `InterruptServed`, `TransactionsFinish` | 69 672 |
| `stored` | a program that TBLW rewrites: `SlotFresh`, `ProgramExecutes` | 139 886 |
| `board` | `SoundBoard`, `MainBus`, `BoardLinks` and `StagedRam`: `FreshRead`, `HostReadFresh`, `AnsweredOnce`, `ResetReaches`, `MailTruthful`, `LanesTrue`, `IgnoredOnlyWhileHeld`, `OperandCurrent`, `StrobesHeld`; liveness `CyclesFinish`, `MainCyclesEnd` | 203 218 |
| `ports` | port reads, a held port, the 68000 at the same RAM and request: `PortReadExact`, `RequestSurvives` | 764 456 |
| `tools` | two fetchers and two writers, kills, damage, edits: `ReleaseTypeOK`, `CacheIntact`, `ReceiptSound`; nine capture tools over lossy recordings, faulty sidecars and files replaced between two accesses: `SoundReport`, `RetentionSound` | 660 874 |
| `core_discard` | violated: finding 1 | - |
| `pipe_completion` | violated: finding 2 | - |
| `receipt` | violated: finding 3 | - |
| `board_reset` | violated: finding 4 | - |
| `captures_bytes` | violated: finding 5 | - |

Why the bounds are enough for what is asked.  No hardware model has a counter
that grows or a bound in a guard: each run is exhaustive for its set of words,
for programs, pins, bus events and clock enables of any length.  What a set of words
leaves out is the other operations, so each set holds at least one member of each class the
properties tell apart, and the proofs below cover all of them at all widths.
The stack keeps its four levels, and the longest interaction (request, protected
three-cycle instruction, dummy fetch, entry, vector fetch) needs seven machine
cycles.

* `stored` has every program of three words from six, both data included, so a TBLW can
  rewrite the word after itself, the word it returns to and itself.
* `board` explores one of its four parts at a time, chosen at the start: they share no state
  (the parts of `BoardLinks` share `initialize_i`, which its action clears together), and
  their product would only interleave them.  A RAM of two words tells a stale
  address from a fresh one; `ResetMachineCycles = 2` is one more than the smallest that can be
  shortened by the first count, and `board_reset` has the five of the RTL; three lanes
  have a first, a last and one between; a hold longer than its inhibit as in the RTL.
* `ports` has a counter twice as long as its RAM, so that both wrap.
* `tools` moves the release tools or the capture tools, chosen at the start as in
  `board`.  There are a good tree, one whose checklist runs ahead of its inventory and one with a
  forbidden copy; two writers overlap in every way two commands allow; cache and receipts
  share no variable and are not multiplied either.
* Its capture tools have one to three runs of each device behaviour (six for the reset experiment:
  three clocks and two hold counts), each row lost in turn, all idle rows lost, and each
  of the recorded faults of a sidecar, those of another device, of the same device with other
  markings and of another recording included.  Recordings without a loss are replaced once
  by each other: when the sidecars describe what is there, or, with one fixture, after
  another recording than the described one was parsed.  A campaign that has its report may
  end (`CampaignOver`), and a tool without one never stops: deadlock is checked.  `captures_bytes`,
  which asks for one violation, leaves that step and the deadlock check out.  The scans
  of 112 and 144 addresses are of `AbsentCount` and `ValidCount` ones.

`ImplementsIsa` lets the abstract machine choose any word that explains an edge;
`RetiresAsIsa` and `SlotExecutes` do not: the edge must be the step of the word that
was issued, respectively of the word in the slot, at the address it was fetched
from.  `ProgramExecutes` asks more still: the operand and the table datum must be
the stored ones.

**Fairness.**  `RunSpec` is the machine with RS released for good, and weak
fairness of the disjunction `Run`: a clock enable that always returns.  The board
derives the enable from a free-running divider, held only by the memory wait.
No fairness is assumed of the choice of word, of the pins
or of a particular action.  `InterruptServed` therefore excuses what the program can
do for ever: keep interrupts disabled, park the bus on an undecoded word or
keep multiplying.  Deadlock is not checked in `pipe_live`, because a
parked bus with RS high stops for good.  On the board the 8 MHz
clock runs (weak fairness of its two edges) and the 68000 ends a cycle it may end;
on the main board a device is ready in the end.  Nothing is assumed of the processor's clock
enable, of resets or of what the other master does.  That a hold ends,
and not that the processor goes on, is what `CyclesFinish` says for that reason; a hold for a port
waits for an external device and is excused.

## 4. Findings

1. `core_discard`, `tms32010_core.sv:1411`.  The core asserts that the word
   it discards while CALA or RET is pending drives no strobe.  `data_write_o`
   (611-639) does not exclude a pending CALA or RET, so a discarded SACL writes
   data address 0 (DMOV and LTD write address 1).  Only the core driven
   straight from program memory is affected: in the slice the core still sees the
   word of the CALA or RET at that edge.  For that reason
   `ImplementsIsa` is checked on the core without a store next to CALA and RET, and
   `RetiresAsIsa` excludes it.  `CoreImplementsIsa` proves that the broken assertion is
   the only obstacle; for the slice both facts are proved without exception.
2. `pipe_completion`, `tms32010_sequential_pipeline_slice.sv:872` (and 900, 935).
   The slice asserts that the boundary that completes a branch, I/O or table
   instruction fetches an instruction into the slot.  It does not when that
   instruction is the protected one: the dummy fetch is dropped, as line 888
   allows for CALA and RET.  The behaviour is right (`DummyFetchResumes`), the
   assertions are too strong.
3. `receipt`, `run_release_checks.py:246`.  A receipt states that its commands
   returned zero on the recorded clean tree; the tree is looked at once, before the
   first command.  An edit that lasts only while a gate runs is not noticed.
   `ReceiptSound` is what remains true: of a run during which the tree was left alone.
4. `board_reset`, `tms32010_mister.sv:106`.  The wrapper's documentation promises
   exactly five enabled machine cycles of reset after the release.  A release of
   /320RES that is seen at phase 3 counts that phase as the first cycle: seventeen phases
   and not twenty.  That the core sees every reset (`ResetReaches`) holds all the same.
5. `captures_bytes`, `push_pop_capture.py:634`.  The documentation of the tools says that a
   report hashes the capture it lists the intervals of.  The capture is decoded at line 595, hashed for
   the specimen record, and opened a third time at line 634 for the printed digest.  A file
   replaced in between gives a ready report with the digest of rows that were never
   decoded; or rows that no sidecar describes are decoded, and the described file is
   there when it is hashed.  The other tools do the same, the interrupt and reset tools also with the
   measurements, and `ram_invalid_write_capture.py:488` hashes the stage-1 report before it
   reads it.  `NamedBytes` is the claim; `SoundReport` and `RetentionSound` are what remains
   true, of the rows and measurements that were parsed.

Behaviours that are modelled and left without a claim because no document of the
repository settles them: the entry edge does not sample INT, so a pulse of that one
boundary is lost, and so is one at the boundary that primes an empty slot; a reset
pulse shorter than a machine cycle can leave a parked bus at a phase other than 0;
the wrapper asserts (`tms32010_mister.sv:204`) that a memory wait is at phase 3, but
with the clock enable off the wait is set while the phase is still 2 (`HeldStrobe` of
`BoardProofs` proves that it is one of the two, and that it ends all the same is
`CyclesFinish`), so that assertion is too strong;
a 68000 that takes the communication RAM between the decision of phase 2 and the
sample of phase 3 changes what the processor reads (`counted` excuses it); a recorder that
loses a row can make one PUSH/POP hypothesis look like another, so `SoundReport`
claims that fixture for whole recordings only; and an interrupt fixture that loses
two of its outputs, one on each side of the DINT, reads as the one in which DINT
cancelled the request, so the recorder there is assumed to lose at most one.

## 5. The proofs

For every value of the constants under the named assumptions:

* `CoreInvariant`: `CoreSpec => []CoreInv`, where
  `CoreInv == CoreTypeOK /\ OneOwner /\ InterruptArmed /\ CapturedCurrent /\ Accepted`.
  Corollaries: `CoreTypeCorrect`, `CoreOneOwner`, `CoreInterruptArmed`,
  `CoreCapturedCurrent`, `CoreAcceptedCompletes`, `CoreStrobesExclusive`.
* `PipeInvariant`: `Spec => []PipeInv`, where `PipeInv` is `TypeOK`, `CoreInv`,
  the four agreements and `IdleAgreement` (an idle bus has an empty slot and a core
  at address 0).  Corollaries: `TypeCorrect`, `SequentialCorrect`, `TargetCorrect`,
  `TransferCorrect`, `InterruptCorrect`, `ParksCorrect`, `DummyFetchCorrect`.
* `CoreRetiresAsIsa`: `CoreSpec => RetiresAsIsa`, and `CoreImplementsIsa`:
  `CoreSpec /\ DiscardedWordKeepsRam => ImplementsIsa`.  The hypothesis is the
  assertion of finding 1: behaviours of the core that keep it are refinements of `Isa`.
* `SlotExecutesCorrect`: `Spec => SlotExecutes`, and `SliceImplementsIsa`:
  `Spec => ImplementsIsa`.
* `StoredInvariant`: `StoredSpec => []StoredInv`, with `SlotFreshCorrect` and
  `ProgramExecutesCorrect`: `StoredSpec => ProgramExecutes`.
* `BoardInvariant`: `Spec => []BoardInv` of `SoundBoard`, with `BoardTypeCorrect`,
  `FreshReadCorrect`, `HostReadCorrect`, `AnsweredCorrect`, `ResetCorrect`.
* In `BoardPartsProofs`: `OperandCorrect`, `StrobesHeldCorrect`, `MailCorrect`,
  `LanesCorrect`, `IgnoredCorrect`, `PortReadCorrect`, `RequestCorrect`.
* In `ToolProofs`: `CacheInvariant` and `CacheCorrect` of `RefSpec`;
  `ReleaseInvariant`, `ReleaseTypeCorrect` and `ReceiptCorrect` of `ReleaseSpec`;
  `CampaignInvariant`, `ReportCorrect` and `RetentionCorrect` of `CampaignSpec`.  The last two
  speak of what a tool parsed, whatever replaced its files, and not of the bytes whose
  digest it prints (finding 5); of rows lost as `RecorderAssumption` lets them be, which is at most one output of the
  interrupt fixture; and `ReportCorrect` of PUSH/POP recordings without a loss only.
* Progress, each from the fairness of its run and from the possibility of its fair actions
  (below): `InterruptServedCorrect` and `TransactionsFinishCorrect` of `RunSpec` with
  `LastPhase = 3` as in the RTL, `CyclesFinishCorrect` of `FairSpec`, `MainCyclesCorrect`
  of `MainSpec /\ MainFairness`.
* In `DatapathProofs`, of the operators that every instruction of the core is built
  from, what they compute as *numbers* (`Number` reads a bit pattern of ACC as two's complement):
  `AddSubExact`, `UnsignedExact`, `ProductExact`, `ShiftInExact`, `AbsExact`,
  `CounterExact`, and `SubcDivides`, that a SUBC per word bit is a division.

*Assumptions.*  `WidthAssumption` (moduli positive, the vector is an address, words
even and a multiple of the counter, the RAM within the data address space), `WordAssumption` (words have their type; a
canonical operand decodes as ADD or as undefined; INC and DEC are not both set),
`BitAssumption` (the bitwise operators, which are CONSTANTS because no prover
evaluates them, stay within a word), `StatusAssumption` (the status bits do not
overlap), `CoreAssumption` and `PhaseAssumption`; on the board `BoardAssumption`,
`LinksAssumption` (the inhibit is no longer than the hold; a cleared mailbox holds a message), `RamAssumption` and
`PortsAssumption` (the RAM is not longer than the counter).  Of the tools:
`ReferenceAssumption` (a recorded digest is one of some bytes that a server may answer with),
`ReleaseAssumption` (there is a gate; git calls binary only files it lists),
`CampaignAssumption` and `CaptureAssumption` (the minima of runs and the numbers of scanned
addresses are positive; the write scan has two), and `RecorderAssumption`, of the recordings
that a tool may be given: a run that lost no row is the device's stream; one that
lost rows has fewer outputs than the device made or the same ones; an interrupt
run lacks at most one (section 4); a reset run with all its outputs has as many low
samples as the reset lasted; the measured periods order the three clocks as their names do.
Nothing is assumed of *which* rows an incomplete run lacks or of what is left of it.  The
tools take all this from the recorder; a report computed from anything else is
about nothing.
The configurations instantiate all of them and TLC evaluates them.

*Argument: core and slice.*  None of the properties is inductive alone.  `OneOwner` needs to know
that an entry is scheduled only at a retirement, where nothing else is pending.
`AcceptedCompletes` speaks of the words of later edges and follows from
`Accepted`: the captured data address is one of the RAM.  `CapturedCurrent` holds because no edge
of a pending transaction moves the registers it captured, which is where
`OneOwner` is used.  `InterruptAgreement` is the centre of the slice's proof: the
slice decides from the slot word at `ExecuteComplete`, the core from `Retiring` of
the carrier, and the two are the same operation only because the agreements
relate slot, carrier and pending transaction in each pipeline state
(`RetireEffect`, `DecideAlike`).  Each agreement in turn needs the others for
the state it comes from, so they are proved together, one lemma per boundary
action.  `DatapathProofs` gives the types of the arithmetic: all results stay in
their width, also under saturation, SUBC and the shifters, and for the theorems about
numbers it turns `%` and `\div` into one conditional turn of the number circle
(`OneTurn`, `WholeTurn`), after which each is linear arithmetic.  `SubcDivides` states the
invariant of TI's loop: after k steps on a dividend n, `2^k n = ACC + q (2^16 d - 1)`
(`Dividing`), and `SubcStep` keeps it with one more bit of quotient.

The refinement maps the architectural registers to themselves and PC to `ArchPc`,
the address of the instruction in flight.  `IsaProofs` first shows that the two
specifications compute alike (ADDS and SUBS by `UnsignedSame`; a word without an
operand ignores the RAM word the core reads for it, `InherentIgnores`), then takes
each edge of the core: `OneCycleEffect`, `ControlEffect`, `ComputedEffect`,
`IoEffect`, `TableEffect` and `HiddenEdges`.  The captured operands of a transfer are
those of a word of the program only by `CapturedCurrent`.  `CoreImplementsIsa` needs in
addition that the pending word was one of the program (`PendingFromProgram`, inductive
with `CoreInv`), so that the abstract machine can execute it.  For the slice,
`FromProgram` adds that slot, carrier and input sample hold what the memory or a
port returned, and `RetireExecutes` joins the two sides at a retirement.

`PipelineIsaProofs` also shows that a slice with a program memory is a slice
(`StoredIsSlice`), so all of the above holds of it.  `FromMemory` adds that the
slot of any instruction but TBLW, the operand and the table datum are still the stored
ones when they are used: the memory is written in the transfer cycle of TBLW only
(`OnlyTransferWrites`), where the word fetched ahead is about to be fetched again.

*Argument: board.*  `BoardInv` adds to the types and the properties three parts.
`SyncQuiet`: between cycles and after an answer the synchroniser is quiet, so one
/AS cannot be answered twice, and a VPA cycle sees no acknowledge.
`ResponseTrue`: a response whose master still asks is of the address it asks for;
this is where `FreshRead` comes from, because the hold leaves phase 3 only on a
ready, and a ready is a response of the right master.  `HostAlone`: in a cycle that
the 68000 has for itself no response of the processor is left once its strobe is
out, so the fixed acknowledge finds the host's own; it is what `HostReadFresh`
needs, since that bus cannot wait.  `ResetReaches` is inductive with the type of the counter.

In `BoardPartsProofs`, `MainInv` says that an unsampled, not yet released
acknowledge of an earlier cycle meets the new one only while the clock is high and the
first stage set, where the preset or the set of /RVAS0 dominates; `LinksInv` adds
that the hold outlasts the inhibit and that a running scrub has cleared the lanes
below its address; `PortsInv` that the counter follows the program's own account
and that a processor that goes on at phase 3 has a response of its own address.

*Argument: tools.*  `RefInv` says of every fetcher that it works on a source of the
manifest and that its temporary holds what the server sent (`JobsMeaningful`), and of
the cache that a file the disk left alone is absent or the pinned one
(`PinnedUnlessRotten`).  The digest is compared on the fetcher's own temporary, in the step
that installs it, so neither a kill nor a second fetcher can come in between.

`ReleaseInv` follows a writer: it starts on a clean tree, so on the tree its revision
records, and while it is *steady* (nobody touched that tree) each PASS among its results is the
verdict of the gate on that tree (`WritersTrue`); the receipt it leaves inherits that
(`DirectoryTrue`), also when another writer or `clean.py` has rebuilt the directory since.
An accepted receipt has a PASS for each gate, and `GatesMakePublishable` turns the gates'
checks, each about one aspect of the inventory, into one publishable tree.

`CampaignInv` carries facts from the disk to the report through the accesses of a
tool: files are recordings (`FilesFaithful`), what was parsed passed the checks of its reader
(`SeenAccepted`), no step behind the program counter was skipped (`ReadsDone`), and a report is
computed from what was parsed (`Reported`), whatever replaced the file since.  Rows of one
recording with the measurements of another are a recording that `RecorderAssumption` allows
(`ParsedFaithful`), and the accesses to the stage-1 report touch nothing of the
fixtures (`PriorIsNoSide`, `PriorKeeps`).  What remains
is pure: a lemma per tool (`DintTrue`, `PushPopTrue`, `BoundaryTrue`, `ResetSideTrue`, ...)
shows that its classifier names the device's behaviour on every faithful recording it accepts,
lossy ones included, because a lost row leaves fewer rows than the classifier asks for or a
pattern no behaviour makes.  Filtered sequences are in the theorems only through
`RecorderAssumption`, which states about each recording what a recursive `SelectSeq` would
have to be unfolded for, and which TLC evaluates on all recordings of the instance.

*Argument: progress.*  All four are finite chains of steps, so the temporal prover
needs no induction.  For the slice, the fair clock brings one boundary after the other
unless the bus parks (`BoundariesRecur`: the four phases follow each other).  `Waiting(k)`
says that at most k boundaries separate a request from its service: those left of the
instruction in flight, plus a whole instruction when a protected one is still to come.  A
boundary either serves the request or leaves `Waiting(k - 1)` (`WaitingStep`), and six is the most
there can be.  That rests on `PipeInv`: an instruction that retires with a request pending makes
the next one protected, and the protected one enters the vector when it retires, because
slice and core decide alike (`InterruptAgreement`).  `InFlight(k)` is the same count, three,
for a transaction.

On the board a cycle passes through the stages of the synchronizer (`StageSteps` of
`BoardProofs`), each ended by one clock edge.  A held transfer of the processor can lose the
memory to the 68000 as often as that asks, but between two cycles there are two edges: one
brings its response, the other sees it (`HeldSteps`).  This needs `HeldStrobe`: the
strobe stays out during the hold, and no response of the 68000 can be taken for one of
the processor.  On the main board the third stage needs `AnswerDue`: what an
acknowledge depends on, RVA or the held strobe, lasts until the acknowledge is sampled.

ENABLED is a symbol without meaning to the prover, so each of these theorems has as
a hypothesis that the fair actions can be taken where their guards hold: `RunsUnlessParked`,
`EdgesPossible` and `MainPossible`.  They are read off the actions, whose primed variables are
assigned, and TLC has evaluated them as invariants of the instances of `pipe_live` and `board`.

*Model-checked only.*  The three hypotheses just named; that liveness holds for a
`LastPhase` other than 3 is not claimed.  That `RecorderAssumption` holds of the streams
`Bench` makes is evaluated on the instance: it is induction over data.

## 6. Not modelled, and the plan

Not modelled: the phase slice (`tms32010_phase_slice.sv`), an earlier wrapper
without the fetch overlap; the board's top level, which is instances and
selections that `SoundBoard` and `SoundPorts` take over; the assembler,
disassembler, ISA database and its generators, sequential text tools over
static tables; MAME traces, trace comparison and VCD reading; testbenches and
formal harnesses, which drive the RTL modelled here; pure wiring (`_read_mux`,
`_rom_path`, `_switches`, `_read_status`, the sound-reset decode, the write-word
assembly).  Partly modelled: the decoder (a word is its decoded record; that
the encodings partition the 16-bit words is not shown), the latches that hold
one write (DAC, port 3, mute, sample-ROM block), the BIO divider, the data of
the local RAM, and the direct I/O of the 68000.  `cycle_count_o` and `retired_o` of the core are
counters that nothing reads back.

The plan, in order:

1. The decoder's partition of the word space, and the assembler's round trip.
2. Progress of the processor as a whole: a fair clock enable, the hold of the
   board and the transactions of the slice in one composition.
