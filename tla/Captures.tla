------------------------------ MODULE Captures ------------------------------
(***************************************************************************)
(* The readers and classifiers of tools/trace/*_capture.py: what each tool *)
(* makes of the rows of one recorded run.  A row is what the bus showed at *)
(* one falling CLKOUT edge, with its sample number:                        *)
(*   "read"  an exact program read of the fixture word named val,          *)
(*   "out"   an exclusive write of val to port 7, "stray" another write,   *)
(*   "idle"  no control active, "reset" RS active;                         *)
(* pin is the level of INT in the DINT fixture, of BIO in the reset ones.  *)
(* Scans over the 112 absent and the 144 valid addresses and the 13-word   *)
(* reset vectors are of the lengths the constants give.                    *)
(***************************************************************************)
EXTENDS Naturals, Sequences, FiniteSets, SequencesExt

CONSTANTS
  AbsentCount,   \* addresses without a cell that a fixture visits
  ValidCount,    \* addresses with a cell that a fixture scans
  HoldMin,       \* complete CLKOUT cycles of the shortest valid reset
  SetupMin,      \* INT setup and fall-time limits of the data sheet
  FallMax

ASSUME CaptureAssumption ==
  AbsentCount \in Nat \ {0} /\ ValidCount \in Nat \ {0, 1} /\ HoldMin \in Nat

\* The tool raises CaptureError: there is no report.
Rejected == [error |-> TRUE]

Result(class, resolved, valid, complete) ==
  [error |-> FALSE, class |-> class, resolved |-> resolved,
   valid |-> valid, complete |-> complete]

Reads(run, w) == {i \in DOMAIN run : run[i].kind = "read" /\ run[i].val = w}
IsWrite(row) == row.kind \in {"out", "stray"}

\* The rows that pass a test, in order.
Rows(run, Test(_)) == SelectSeq([i \in DOMAIN run |-> i], LAMBDA i : Test(run[i]))
OutIndex(run) == Rows(run, IsWrite)
Values(run) == [k \in DOMAIN OutIndex(run) |-> run[OutIndex(run)[k]].val]
Exclusive(run) == \A i \in DOMAIN run : run[i].kind # "stray"

\* Fewer than margin rows follow row i.
TooShort(run, i, margin) == i + margin > Len(run)

\* The fetches and the writes alternate: each write follows its fetch and
\* precedes the next one.
Alternate(fetch, out) ==
  /\ \A k \in DOMAIN fetch : fetch[k] < out[k]
  /\ \A k \in 1..(Len(fetch) - 1) : out[k] < fetch[k + 1]

\* The one row where each word is read, in the order of the words.
Fetches(run, words) ==
  [k \in DOMAIN words |-> CHOOSE i \in Reads(run, words[k]) : TRUE]
EachOnce(run, words) ==
  \A k \in DOMAIN words : Cardinality(Reads(run, words[k])) = 1

\* read_normalized_capture and dint's read_capture: sample numbers only rise.
StrictRows(run) == \A i \in 1..(Len(run) - 1) : run[i].n < run[i + 1].n

\* dint_interrupt_capture.read_capture: the same with an INT column.
DintRows(run) == StrictRows(run)

\* reset_retention_capture.read_capture: not one sample number is missing.
ResetRows(run) == \A i \in 1..(Len(run) - 1) : run[i + 1].n = run[i].n + 1

\* read_pulse_measurements, read_reset_measurements: one row for each run of
\* the capture, whose signal is released after it is asserted.
MeasurementsOK(aux, rows) ==
  /\ DOMAIN aux = DOMAIN rows
  /\ \A k \in DOMAIN aux : aux[k].assert < aux[k].release

-----------------------------------------------------------------------------
(* push_pop_capture.py: the two intervals after the fetch of PUSH and POP. *)

\* mutant: the second interval of an advancing fetch is not looked at
PushPopClassShort(run, op) ==
  LET i == CHOOSE j \in Reads(run, op[1]) : TRUE
      Reads1(k, w) == run[i + k].kind = "read" /\ run[i + k].val = w
  IN CASE run[i + 1].kind = "idle" /\ Reads1(2, op[2]) -> "H1"
       [] Reads1(1, op[2]) /\ Reads1(2, op[2]) -> "H2"
       [] Reads1(1, op[2]) /\ ~Reads1(2, op[2]) -> "H3"
       [] OTHER -> "UNCLASSIFIED"

PushPopClass(run, op) ==
  LET i == CHOOSE j \in Reads(run, op[1]) : TRUE
      Reads1(k, w) == run[i + k].kind = "read" /\ run[i + k].val = w
  IN CASE run[i + 1].kind = "idle" /\ Reads1(2, op[2]) -> "H1"
       [] Reads1(1, op[2]) /\ Reads1(2, op[2]) -> "H2"
       [] Reads1(1, op[2]) /\ Reads1(2, op[3]) -> "H3"
       [] OTHER -> "UNCLASSIFIED"

Push == <<"push", "push+1", "push+2">>
Pop == <<"pop", "pop+1", "pop+2">>

PushPopRun(run) ==
  IF \E op \in {Push, Pop} :
       \/ Cardinality(Reads(run, op[1])) # 1
       \/ \E i \in Reads(run, op[1]) : TooShort(run, i, 4)
    THEN Rejected
    ELSE LET class == <<PushPopClass(run, Push), PushPopClass(run, Pop)>>
         IN Result(class, "UNCLASSIFIED" \notin {class[1], class[2]}, TRUE, TRUE)

-----------------------------------------------------------------------------
(* simultaneous_ar_capture.py: a forced word that increments and           *)
(* decrements at once, twice; the word may also stop the device.           *)

SimultaneousClass(seq, second) ==
  CASE seq = <<"33", "0", "1ff">> -> "NO_NET_UPDATE"
    [] seq = <<"33", "1", "0">> -> "INCREMENT_PRIORITY"
    [] seq = <<"33", "1ff", "1fe">> -> "DECREMENT_PRIORITY"
    [] Len(seq) = 1 -> "AFTER_FIRST"
    [] Len(seq) = 2 -> IF second # {} THEN "AFTER_SECOND" ELSE "BEFORE_SECOND"
    [] OTHER -> "OTHER"

SimultaneousRun(run) ==
  LET out == OutIndex(run)
      seq == Values(run)
      armed == Reads(run, "armed") first == Reads(run, "forced1")
      second == Reads(run, "forced2")
      result1 == Reads(run, "result1") result2 == Reads(run, "result2")
      class == SimultaneousClass(seq, second)
      resolved == class \in {"NO_NET_UPDATE", "INCREMENT_PRIORITY",
                             "DECREMENT_PRIORITY"}
      Least(s) == CHOOSE i \in s : \A j \in s : i <= j
      One(s, low, high) ==
        Cardinality(s) = 1 /\ \A i \in s : low < i /\ i < high
  IN IF \/ Cardinality(armed) # 1 \/ first = {} \/ out = <<>>
        \/ \E i \in armed : out[1] <= i
        \/ out[1] >= Least(first)
        \/ \E i \in first \cup second \cup ToSet(out) : TooShort(run, i, 4)
       THEN Rejected
       ELSE Result(class, resolved,
              /\ Exclusive(run) /\ seq[1] = "33" /\ Len(seq) <= 3
              /\ Len(seq) >= 2 => One(result1, Least(first), out[2])
              /\ Len(seq) >= 2 /\ second # {} =>
                   One(second, out[2], Len(run) + 1)
              /\ Len(seq) >= 3 =>
                   /\ second # {} /\ One(result2, Least(second), out[3])
                   /\ Reads(run, "terminal") # {}
                   /\ Least(Reads(run, "terminal")) > out[3]
              /\ resolved => Cardinality(first) = 1,
              TRUE)

-----------------------------------------------------------------------------
(* subc_capture.py, lst_arp_capture.py: a fixed list of OUT instructions,  *)
(* each fetched once and written once, in order.                           *)

Framed(run, words) ==
  /\ EachOnce(run, words)
  /\ Len(Values(run)) = Len(words)
  /\ Alternate(Fetches(run, words), OutIndex(run))
  /\ ~TooShort(run, OutIndex(run)[Len(words)], 2)

\* A status word: its OV bit, and whether the other checked bits are right.
Ov(word) == IF word \in {"ov", "ov-bad"} THEN 1 ELSE 0
StatusOK(word) == word \in {"ov", "no-ov"}

SubcClass(experiment, seq) ==
  IF experiment = "OVERFLOW" THEN <<Ov(seq[1]), Ov(seq[2])>>
  ELSE CASE seq[1] = "5" -> "OLD" [] seq[1] = "8005" -> "TRIAL"
         [] seq[1] = "b" -> "FINAL" [] OTHER -> seq[1]

SubcValid(experiment, run) ==
  LET seq == Values(run) IN
    /\ Exclusive(run)
    /\ IF experiment = "OVERFLOW" THEN StatusOK(seq[1]) /\ StatusOK(seq[2])
                                  ELSE seq[2] = "b"

SubcRun(run, experiment) ==
  IF ~Framed(run, <<"out1", "out2">>) THEN Rejected
  ELSE Result(SubcClass(experiment, Values(run)), TRUE,
              SubcValid(experiment, run), TRUE)

LstArpRun(run) ==
  IF ~Framed(run, <<"out1", "out2", "out3">>) THEN Rejected
  ELSE LET seq == Values(run)
           class == CASE seq = <<"33", "a0", "b1">> -> "MEMORY"
                      [] seq = <<"33", "a1", "b0">> -> "ENCODED"
                      [] seq = <<"33", "a0", "b0">> -> "MIXED_A_MEMORY"
                      [] seq = <<"33", "a1", "b1">> -> "MIXED_A_ENCODED"
                      [] OTHER -> "OTHER"
       IN Result(class, class \in {"MEMORY", "ENCODED"},
                 Exclusive(run) /\ seq[1] = "33", TRUE)

-----------------------------------------------------------------------------
(* dint_interrupt_capture.py: an INT pulse that races a DINT.              *)

DintClass(seq) ==
  CASE seq = <<"33", "22">> -> "CANCELS"
    [] seq = <<"33", "1c", "11", "22">> -> "STACKS_N2"
    [] seq = <<"33", "1b", "11", "22">> -> "STACKS_N1"
    [] OTHER -> "OTHER"

\* The pulse as measured, against the row of the fetch that arms the window
\* and the CLKOUT period the two rows there show.
PulseQualified(run, arm, pulse) ==
  /\ pulse.assert < run[arm].n * pulse.period
  /\ run[arm].n * pulse.period - pulse.assert >= SetupMin
  /\ pulse.release - pulse.assert >= (run[arm + 1].n - run[arm].n) * pulse.period
  /\ pulse.fall <= FallMax
  /\ \A i \in DOMAIN run : (run[i].pin = 0) <=>
       pulse.assert <= run[i].n * pulse.period /\ run[i].n * pulse.period < pulse.release

DintRun(run, pulse) ==
  LET out == OutIndex(run)
      seq == Values(run)
      arm == CHOOSE i \in Reads(run, "arm") : TRUE
      dint == CHOOSE i \in Reads(run, "dint") : TRUE
  IN IF \/ ~EachOnce(run, <<"arm", "dint">>)
        \/ arm = 1 \/ arm >= Len(run) \/ dint <= arm
        \/ out = <<>> \/ out[1] >= arm \/ out[Len(out)] <= dint
        \/ TooShort(run, out[Len(out)], 2)
       THEN Rejected
       ELSE Result(DintClass(seq), DintClass(seq) # "OTHER",
              /\ Exclusive(run) /\ PulseQualified(run, arm, pulse)
              /\ seq[1] = "33" /\ seq[Len(seq)] = "22",
              TRUE)
=============================================================================
