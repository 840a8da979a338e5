---------------------------- MODULE MCBoardReset ----------------------------
(***************************************************************************)
(* How long the wrapper's reset lasts after /320RES is released: the       *)
(* enabled phases are counted until the reset ends.                        *)
(***************************************************************************)
EXTENDS SoundBoard

VARIABLE held    \* the phases passed in reset since the release

MCHostCycles == {[target |-> "latch", read |-> FALSE, vpa |-> FALSE, addr |-> ResetAddr,
                  word |-> w] : w \in {0, 1}}
MCRequests == {ResetFetch}

HeldInit == Init /\ held = 0

HeldNext ==
  /\ Next
  /\ held' = IF ~dspResetN \/ ~ResetActive THEN 0
             ELSE IF phase' # phase THEN held + 1 ELSE held

HeldSpec == HeldInit /\ [][HeldNext]_<<vars, held>>

\* "At release, the wrapper keeps the modeled active reset condition for
\* exactly five enabled machine cycles" (docs/integration/mister_wrapper.md).
FullResetHold ==
  [][dspResetN /\ ResetActive /\ ~ResetActive' /\ dspResetN'
       => held' = 4 * ResetMachineCycles]_<<vars, held>>
=============================================================================
