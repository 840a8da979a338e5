----------------------------- MODULE BoardLinks -----------------------------
(***************************************************************************)
(* What else the processors of the sound board share, rtl/wrappers:        *)
(*   - hard_drivin_sound_mailboxes.sv, a word latch and a pending flag in  *)
(*     each direction between the main board and the sound 68000;          *)
(*   - the reset of the 68000: the monostable local_reset_source.sv, the   *)
(*     local_reset_interlock.sv and the validity scrub of local_ram.sv.    *)
(* The two share no state, only initialize_i.  A word is a message; the    *)
(* local RAM is its validity lanes, one per location here.                 *)
(***************************************************************************)
EXTENDS Integers

CONSTANTS
  Boxes, Messages,
  ZeroWord,          \* 16'h0000
  LastLane,          \* 13'h1fff
  HoldTicks,         \* MONOSTABLE_HOLD_TICKS
  InhibitTicks       \* MONOSTABLE_RETRIGGER_INHIBIT_TICKS

ASSUME LinksAssumption ==
  /\ LastLane \in Nat /\ HoldTicks \in Nat \ {0}
  /\ InhibitTicks \in 0..HoldTicks
  /\ Messages \cap {"nothing", "unknown"} = {} /\ ZeroWord \in Messages

VARIABLES
  boxData, boxDataValid, flag, flagValid,   \* by mailbox
  lastWord,      \* history: the word a reader of the mailbox is owed, if known
  trigger,       \* combined_trigger_n_q, low
  hold, inhibit, \* hold_remaining_q, inhibit_remaining_q
  scrubActive, scrubAddr, lanes,            \* local_ram; lanes: the valid ones
  written        \* history: the locations written since the initialisation

boxVars   == <<boxData, boxDataValid, flag, flagValid, lastWord>>
resetVars == <<trigger, hold, inhibit, scrubActive, scrubAddr, lanes, written>>
linkVars  == <<boxVars, resetVars>>

Lanes == 0..LastLane

-----------------------------------------------------------------------------
\* Mailboxes.  The two sides commit a write and a read at any edge, also both.

\* Mutant: a coincident write and read leave the flag set and valid.
NextFlagSetWins(old, resetN, set, clear) ==
  IF ~resetN THEN FALSE ELSE set \/ (old /\ ~clear)

NextFlag(old, resetN, set, clear) ==
  IF ~resetN \/ (set /\ clear) THEN FALSE ELSE set \/ (old /\ ~clear)

NextFlagValid(old, resetN, set, clear) ==
  IF ~resetN THEN ~set
  ELSE IF set /\ clear THEN FALSE ELSE set \/ clear \/ old

\* Nobody knows what a reader is owed after a conflict.
NextOwed(old, resetN, set, clear, m) ==
  IF set /\ (clear \/ ~resetN) THEN "unknown"
  ELSE IF ~resetN \/ clear THEN "nothing"
  ELSE IF set THEN m ELSE old

MailStep(box, resetN, set, clear, m) ==
  /\ boxData' = IF set THEN [boxData EXCEPT ![box] = m] ELSE boxData
  /\ boxDataValid' = IF set THEN [boxDataValid EXCEPT ![box] = TRUE] ELSE boxDataValid
  /\ flag' = [flag EXCEPT ![box] = NextFlag(@, resetN, set, clear)]
  /\ flagValid' = [flagValid EXCEPT ![box] = NextFlagValid(@, resetN, set, clear)]
  /\ lastWord' = [lastWord EXCEPT ![box] = NextOwed(@, resetN, set, clear, m)]
  /\ UNCHANGED resetVars

MailEdge == \E box \in Boxes, resetN, set, clear \in BOOLEAN, m \in Messages :
              MailStep(box, resetN, set, clear, m)

-----------------------------------------------------------------------------
\* The reset of the 68000 and its RAM.

StorageReady == ~scrubActive

Falling(low) == low /\ ~trigger

\* Mutant: a request ignored by the monostable still loads the inhibit.
MonostableInhibits(tick, low) ==
  /\ trigger' = low
  /\ hold' = IF Falling(low) /\ inhibit = 0 THEN HoldTicks
             ELSE IF tick /\ hold # 0 THEN hold - 1 ELSE hold
  /\ inhibit' = IF Falling(low) THEN InhibitTicks
                ELSE IF tick /\ inhibit # 0 THEN inhibit - 1 ELSE inhibit

Monostable(tick, low) ==
  LET accepted == Falling(low) /\ inhibit = 0
  IN  /\ trigger' = low
      /\ hold' = IF accepted THEN HoldTicks
                 ELSE IF tick /\ hold # 0 THEN hold - 1 ELSE hold
      /\ inhibit' = IF accepted THEN InhibitTicks
                    ELSE IF tick /\ inhibit # 0 THEN inhibit - 1 ELSE inhibit

\* Mutant: the last location is never scrubbed.
ScrubShort ==
  /\ lanes' = lanes \ {scrubAddr}
  /\ scrubActive' = (scrubAddr + 1 < LastLane)
  /\ scrubAddr' = IF scrubAddr + 1 < LastLane THEN scrubAddr + 1 ELSE scrubAddr

Scrub ==
  /\ lanes' = lanes \ {scrubAddr}
  /\ scrubActive' = (scrubAddr # LastLane)
  /\ scrubAddr' = IF scrubAddr # LastLane THEN scrubAddr + 1 ELSE scrubAddr

\* One clock: a location is scrubbed, or w is written.  A write committed
\* during the scrub is dropped.
ResetEdge ==
  \E tick, low \in BOOLEAN, w \in SUBSET Lanes :
    /\ w = {} \/ \E a \in Lanes : w = {a}
    /\ Monostable(tick, low)
    /\ IF scrubActive THEN Scrub /\ UNCHANGED written
       ELSE /\ lanes' = lanes \cup w /\ written' = written \cup w
            /\ UNCHANGED <<scrubActive, scrubAddr>>
    /\ UNCHANGED boxVars

\* initialize_i, at any time: the latches and flags are cleared and no longer
\* valid, the scrub starts again, the lanes stay.
Initialize ==
  /\ boxData' = [b \in Boxes |-> ZeroWord] /\ boxDataValid' = [b \in Boxes |-> FALSE]
  /\ flag' = [b \in Boxes |-> FALSE] /\ flagValid' = [b \in Boxes |-> FALSE]
  /\ lastWord' = [b \in Boxes |-> "unknown"]
  /\ trigger' \in BOOLEAN /\ hold' = HoldTicks /\ inhibit' = InhibitTicks
  /\ scrubActive' = TRUE /\ scrubAddr' = 0 /\ written' = {}
  /\ UNCHANGED lanes

LinksInit ==
  /\ boxData = [b \in Boxes |-> ZeroWord] /\ boxDataValid = [b \in Boxes |-> FALSE]
  /\ flag = [b \in Boxes |-> FALSE] /\ flagValid = [b \in Boxes |-> FALSE]
  /\ lastWord = [b \in Boxes |-> "unknown"]
  /\ trigger \in BOOLEAN /\ hold = HoldTicks /\ inhibit = InhibitTicks
  /\ scrubActive = TRUE /\ scrubAddr = 0
  /\ lanes \in SUBSET Lanes        \* whatever the memory powers up with
  /\ written = {}

LinksNext == MailEdge \/ ResetEdge \/ Initialize

LinksSpec == LinksInit /\ [][LinksNext]_linkVars

-----------------------------------------------------------------------------
\* A mailbox tells the truth or says that it does not know: a valid flag is
\* set exactly when a word is owed, and then the latch holds that word.
MailTruthful ==
  \A b \in Boxes :
    /\ flagValid[b] = (lastWord[b] # "unknown")
    /\ flag[b] => flagValid[b]
    /\ flagValid[b] => (flag[b] <=> lastWord[b] # "nothing")
    /\ flag[b] => boxDataValid[b] /\ boxData[b] = lastWord[b]

\* The local RAM reports a lane as known only if it was written since the
\* last initialisation, also when that came in the middle of a scrub or after
\* writes, and whatever the validity memory powered up with.
LanesTrue == StorageReady => lanes = written

\* The inhibit ends with the hold: a reset request is ignored only while the
\* 68000 is held by an earlier one.
IgnoredOnlyWhileHeld == inhibit # 0 => hold # 0
=============================================================================
