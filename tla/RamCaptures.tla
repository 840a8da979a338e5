---------------------------- MODULE RamCaptures ----------------------------
(***************************************************************************)
(* The classifiers of the experiments on the internal RAM and on what a    *)
(* reset retains: streams of port writes with a fixed frame, whose values  *)
(* are the observation.                                                    *)
(***************************************************************************)
EXTENDS Captures

\* k blocks of the same length, one after the other.
Repeat(k, value(_)) ==
  LET m == Len(value(1))
  IN [i \in 1..(k * m) |-> value(((i - 1) \div m) + 1)[((i - 1) % m) + 1]]

\* The frame of a complete stream: the expected words are fetched in order,
\* each followed by its write, and the terminal branch comes last.
FrameValid(run, words) ==
  LET out == OutIndex(run)
      at == Rows(run, LAMBDA r : r.kind = "read" /\ r.val \in ToSet(words))
  IN /\ [k \in DOMAIN at |-> run[at[k]].val] = words
     /\ Alternate(at, out)
     /\ Reads(run, "terminal") # {}
     /\ \A i \in Reads(run, "terminal") : i > out[Len(out)]

\* Some checked event is among the last four rows.
Truncated(run, words) ==
  \E i \in DOMAIN run :
    /\ IsWrite(run[i]) \/ (run[i].kind = "read" /\ run[i].val \in ToSet(words))
    /\ TooShort(run, i, 4)

-----------------------------------------------------------------------------
(* ram_invalid_read_capture.py: each absent address is read after a zero   *)
(* and after a one was the last value on the internal bus.                 *)

Relationship(zero, one) ==
  CASE zero = "0" /\ one = "ffff" -> "PREDECESSOR_TRACKING"
    [] zero = one -> "HISTORY_INDEPENDENT"
    [] OTHER -> "HISTORY_DEPENDENT"

ReadWords ==
  <<"start">> \o Repeat(AbsentCount, LAMBDA i : <<"zero", "absent0">>)
  \o <<"middle">> \o Repeat(AbsentCount, LAMBDA i : <<"one", "absent1">>)
  \o <<"end">>

InvalidReadRun(run) ==
  LET seq == Values(run)
      half == 2 * AbsentCount
      complete == Len(seq) = Len(ReadWords)
      class == [k \in 1..AbsentCount |->
                  Relationship(seq[1 + 2 * k], seq[2 + half + 2 * k])]
  IN IF Reads(run, "start") = {} \/ Truncated(run, IF complete THEN ReadWords ELSE <<"start">>)
       THEN Rejected
     ELSE IF complete
       THEN Result(class, TRUE,
              /\ Exclusive(run) /\ FrameValid(run, ReadWords)
              /\ seq[1] = "31" /\ seq[2 + half] = "32" /\ seq[Len(seq)] = "3f"
              /\ \A k \in 1..AbsentCount : /\ seq[2 * k] = "0"
                                           /\ seq[1 + half + 2 * k] = "ffff",
              TRUE)
       ELSE Result(<<>>, FALSE,
              /\ Exclusive(run) /\ Len(seq) < Len(ReadWords)
              /\ Reads(run, "terminal") = {},
              FALSE)

-----------------------------------------------------------------------------
(* ram_invalid_write_capture.py: a sentinel is written to every absent     *)
(* address, in one direction or the other; then all addresses are read.    *)

WriteWords ==
  <<"start">> \o Repeat(ValidCount, LAMBDA i : <<"scan">>)
  \o Repeat(AbsentCount, LAMBDA i : <<"absent">>) \o <<"end">>

InvalidWriteRun(run, direction) ==
  LET seq == Values(run)
      complete == Len(seq) = Len(WriteWords)
      scan == SubSeq(seq, 2, 1 + ValidCount)
      absent == SubSeq(seq, 2 + ValidCount, 1 + ValidCount + AbsentCount)
      stored(v) == CASE v = "sentinel" -> "STORED" [] v = "0" -> "ZERO"
                     [] OTHER -> "OTHER"
  IN IF Reads(run, "start") = {} \/ Truncated(run, IF complete THEN WriteWords ELSE <<"start">>)
       THEN Rejected
     ELSE IF complete
       THEN Result(<<{k \in DOMAIN scan : scan[k] # "0"},
                     [k \in DOMAIN absent |-> stored(absent[k])]>>, TRUE,
              /\ Exclusive(run) /\ FrameValid(run, WriteWords)
              /\ seq[1] = (IF direction = "ASCENDING" THEN "41" ELSE "42")
              /\ seq[Len(seq)] = "4f",
              TRUE)
       ELSE Result(<<>>, FALSE,
              /\ Exclusive(run) /\ Len(seq) < Len(WriteWords)
              /\ Reads(run, "terminal") = {},
              FALSE)

-----------------------------------------------------------------------------
(* ram_boundary_capture.py: DMOV or LTD at the last cell; a scan of the    *)
(* valid addresses, then the diagnostic word.                              *)

ScanWords == Repeat(ValidCount, LAMBDA i : <<"scan">>) \o <<"diagnostic">>

\* A stream that stops early may have one fetch still waiting for its write.
BoundaryOrdered(run) ==
  LET out == OutIndex(run)
      boundary == CHOOSE i \in Reads(run, "boundary") :
                    \A j \in Reads(run, "boundary") : i <= j
      scan == Rows(run, LAMBDA r : r.kind = "read" /\ r.val = "scan")
      written == IF Len(out) < ValidCount THEN Len(out) ELSE ValidCount
  IN /\ Cardinality(Reads(run, "boundary")) = 1
     /\ \A i \in ToSet(out) : i > boundary
     /\ \/ Len(scan) = written
        \/ /\ written < ValidCount /\ Len(scan) = written + 1
           /\ scan[Len(scan)] > (IF written = 0 THEN boundary ELSE out[written])
     /\ \A k \in 1..written : scan[k] \in boundary..out[k]
     /\ \A k \in 1..(written - 1) : out[k] < scan[k + 1]

BoundaryRun(run) ==
  LET out == OutIndex(run)
      seq == Values(run)
      complete == Len(seq) = ValidCount + 1
      terminal == Reads(run, "terminal")
      diagnostic == Reads(run, "diagnostic")
      class == IF complete
                 THEN <<{k \in 1..ValidCount :
                           seq[k] # (IF k = 1 THEN "5a" ELSE "0")}, seq[Len(seq)]>>
                 ELSE <<>>
  IN IF Reads(run, "boundary") = {} \/ Truncated(run, ScanWords \o <<"boundary">>)
       THEN Rejected
       ELSE Result(class, complete,
              /\ Exclusive(run) /\ BoundaryOrdered(run)
              /\ IF complete
                   THEN /\ terminal # {} /\ \A i \in terminal : i > out[Len(out)]
                        /\ Cardinality(diagnostic) = 1
                        /\ diagnostic \subseteq out[ValidCount]..out[ValidCount + 1]
                   ELSE /\ terminal = {} /\ Len(seq) <= ValidCount
                        /\ Cardinality(diagnostic) <= 1
                        /\ Len(seq) < ValidCount => diagnostic = {},
              complete)

-----------------------------------------------------------------------------
(* reset_retention_capture.py: the state is put out, RS is held, the state *)
(* is put out again.  Two fields stand for the thirteen words: "acc", that *)
(* no document lists, and "ovm", that a reset is documented to keep.       *)

StateWords == <<"acc", "ovm">>
ResetWords == <<"pre-acc", "pre-ovm", "armed", "post-acc", "post-ovm", "done">>

Retention(pre, post) ==
  IF post = pre THEN "RETAINED" ELSE IF post = "0" THEN "FORCED_ZERO" ELSE "OTHER"

LowRows(run) == {i \in DOMAIN run : run[i].kind \in {"reset", "busy-reset"}}

\* RS is low for one interval of the declared length (target) and nothing
\* drives the bus once a whole cycle of it is over.
ResetInterval(run, measured, target) ==
  LET low == LowRows(run)
      First == CHOOSE i \in low : \A j \in low : i <= j
  IN /\ low # {} /\ low = First..(First + Cardinality(low) - 1)
     /\ \A i \in low \ {First} : run[i].kind = "reset"
     /\ Cardinality(low) - 1 = target /\ target >= HoldMin
     /\ \A i \in DOMAIN run :
          (i \in low) <=> measured.assert <= run[i].n /\ run[i].n < measured.release

\* BIO tells the two passes through the first instruction apart.
BioDecides(run, measured) ==
  LET at == Rows(run, LAMBDA r : r.kind = "read" /\ r.val = "bioz") IN
    /\ Len(at) = 2
    /\ run[at[1]].pin = 1 /\ run[at[2]].pin = 0
    /\ Cardinality(Reads(run, "target")) = 1
    /\ \A i \in Reads(run, "target") : i > at[2]
    /\ measured.release < run[at[2]].n
    /\ OutIndex(run) # <<>> => at[1] < OutIndex(run)[1]
    /\ \A i \in DOMAIN run : (run[i].pin = 1) <=> run[i].n < measured.bio

ResetRun(run, fixture, measured, target) ==
  LET out == OutIndex(run)
      seq == Values(run)
      complete == Len(seq) = Len(ResetWords)
      pre == IF fixture = "SET" THEN <<"a5", "1">> ELSE <<"3c", "0">>
      class == [k \in DOMAIN StateWords |->
                  [relation |-> Retention(seq[k], seq[k + 3]), post |-> seq[k + 3]]]
      after == {i \in Reads(run, "terminal") : out # <<>> /\ i > out[Len(out)]}
  IN IF \E i \in after : (\A j \in after : i <= j) /\ TooShort(run, i, 4)
       THEN Rejected
       ELSE Result(IF complete THEN class ELSE <<>>, complete,
                /\ after # {}
                /\ Exclusive(run) /\ Len(seq) <= Len(ResetWords)
                /\ complete =>
                     /\ EachOnce(run, ResetWords)
                     /\ Alternate(Fetches(run, ResetWords), out)
                     /\ SubSeq(seq, 1, 2) = pre /\ seq[3] = fixture /\ seq[6] = "af"
                     /\ class[2].relation = "RETAINED"
                /\ ResetInterval(run, measured, target) /\ BioDecides(run, measured)
                /\ Len(out) > 2 =>
                     /\ run[out[3]].n < measured.bio /\ measured.bio <= measured.assert
                     /\ \E i \in Reads(run, "hold") :
                          out[3] < i /\ run[i].n < measured.assert,
                complete)
=============================================================================
