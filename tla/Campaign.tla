------------------------------ MODULE Campaign ------------------------------
(***************************************************************************)
(* One invocation after another of the capture tools (build_report of      *)
(* tools/trace/*_capture.py): a tool reads a recording, hashes it again    *)
(* for the specimen record, hashes it once more for the report, and the    *)
(* files may be written by somebody else between any two of these steps.   *)
(* A recording is the capture with the measurements made beside it, which  *)
(* are written together; the tools that take measurements open the two one *)
(* after the other.  A finished report may become the stage-1 report of    *)
(* the write experiment on the absent cells, which hashes it first and     *)
(* reads it afterwards.  A recording carries the ghost field truth: what   *)
(* the device really did in each run.                                      *)
(***************************************************************************)
EXTENDS Bench, Evidence

CONSTANTS
  Minimum,       \* runs of one kind that a tool asks for
  ColdMinimum,   \* cold-power runs of the read experiment
  HoldTargets,   \* reset lengths that have to be covered
  Rerecordings(_),    \* tool -> recordings that may replace another
  Recordings(_),      \* tool -> functions from its sides to recordings
  Sidecars(_, _, _),  \* tool, recordings, stage-1 report -> sidecars by side
  Registers(_, _),    \* tool, recordings -> register files, or Absent
  StageReports        \* reports that may replace the stage-1 report

ASSUME CampaignAssumption ==
  Minimum \in Nat \ {0} /\ ColdMinimum \in Nat \ {0} /\ Absent # Rejected

Clocks == {"slow_limit", "nominal", "fast_limit"}

Combinations == [label : Clocks, target : HoldTargets]

\* The tools that read a measurement file besides the capture.
Timed == {"dint", "reset"}

\* The order in which a tool touches the stage-1 report and the capture files.
Steps(t) ==
  LET each(kind) == [k \in DOMAIN Sides[t] |-> <<kind, Sides[t][k]>>]
      turn(k) == <<<<"read", Sides[t][k]>>, <<"digest", Sides[t][k]>>>>
      sides == each("pin") \o Repeat(Len(Sides[t]), turn)
  IN IF t = "reset" THEN sides
     ELSE IF t = "invalid_write"
       THEN <<<<"digest", "prior">>, <<"read", "prior">>>> \o sides
       ELSE each("read") \o each("pin") \o each("digest")

VARIABLES
  tool,       \* the tool that runs
  file,       \* side -> recording on disk: rows, aux, truth
  meta,       \* side -> sidecar on disk
  registers,  \* the register observations on disk
  prior,      \* the stage-1 report on disk, or Absent
  pc,         \* position in Steps(tool)
  seen,       \* side -> the recording as it was parsed; the same for prior
  pinned,     \* side -> the rows as they were when the specimen was checked
  digest,     \* side -> rows and measurements as hashed; the same for prior
  report      \* Absent, Rejected, or what the tool printed

vars == <<tool, file, meta, registers, prior, pc, seen, pinned, digest, report>>

SidesOf(t) == ToSet(Sides[t])

-----------------------------------------------------------------------------
(* What is known of a recorder: it may lose rows, it invents and moves none. *)

Rank == [slow_limit |-> 3, nominal |-> 2, fast_limit |-> 1]

\* A run in which an output is missing is shorter than what the device put
\* out; of the interrupt fixture at most one is missing.  Without a gap in the
\* sample numbers no row of the reset between the outputs is missing.
FaithfulRun(t, s, run, truth) ==
  LET out == Outputs(t, s, truth.device)
      stream == Stream(t, s, truth.device, truth.target)
      seq == Values(run)
  IN /\ truth.device \in DOMAIN Behaviours(t) /\ truth.target \in Nat
     /\ Len(seq) <= Len(out) /\ (Len(seq) = Len(out) => seq = out)
     /\ t = "dint" => Len(out) <= Len(seq) + 1
     /\ truth.dropped = {} =>
          \A i \in DOMAIN stream : /\ i \in DOMAIN run
                                   /\ run[i].kind = stream[i].kind
                                   /\ run[i].val = stream[i].val
     /\ t = "reset" /\ ResetRows(run) /\ Len(seq) = Len(ResetWords) =>
          Cardinality(LowRows(run)) = truth.target + 1

\* The measured periods order the clocks as they were set.
FaithfulClocks(f) ==
  /\ DOMAIN f.aux \subseteq DOMAIN f.truth
  /\ \A i, j \in DOMAIN f.aux :
       /\ f.truth[i].clock \in Clocks
       /\ f.aux[i].period > f.aux[j].period
            <=> Rank[f.truth[i].clock] > Rank[f.truth[j].clock]

Faithful(t, s, f) ==
  /\ f.rows \in Seq(Seq([n : Nat, kind : STRING, val : STRING, pin : {0, 1}]))
  /\ DOMAIN f.truth = DOMAIN f.rows
  /\ \A k \in DOMAIN f.rows : FaithfulRun(t, s, f.rows[k], f.truth[k])
  /\ t = "reset" => FaithfulClocks(f)

ASSUME RecorderAssumption ==
  \A t \in Tools : \A f \in Recordings(t) \cup Rerecordings(t) :
    DOMAIN f = SidesOf(t) /\ \A s \in SidesOf(t) : Faithful(t, s, f[s])

-----------------------------------------------------------------------------
Names(s) == DOMAIN seen[s].rows

\* What the readers ask of all rows of a file.
Readable(t, f) ==
  /\ \A k \in DOMAIN f.rows :
       CASE t = "dint" -> DintRows(f.rows[k])
         [] t = "reset" -> ResetRows(f.rows[k])
         [] OTHER -> StrictRows(f.rows[k])
  /\ t \in Timed => MeasurementsOK(f.aux, f.rows)

\* Only the conditions of a sidecar that name a known clock and hold count.
Conditions(m) ==
  {k \in DOMAIN m.conditions : m.conditions[k] \in Combinations}

Analysis(t, s, f, m) ==
  LET One(k) ==
        CASE t = "push_pop" -> PushPopRun(f.rows[k])
          [] t = "simultaneous" -> SimultaneousRun(f.rows[k])
          [] t = "lst_arp" -> LstArpRun(f.rows[k])
          [] t \in {"DEPENDENCY", "OVERFLOW"} -> SubcRun(f.rows[k], s)
          [] t = "dint" -> DintRun(f.rows[k], f.aux[k])
          [] t = "invalid_read" -> InvalidReadRun(f.rows[k])
          [] t = "invalid_write" -> InvalidWriteRun(f.rows[k], s)
          [] t = "boundary" -> BoundaryRun(f.rows[k])
          [] t = "reset" -> ResetRun(f.rows[k], s, f.aux[k], m.conditions[k].target)
  IN IF t = "reset" /\ Conditions(m) # DOMAIN f.rows THEN <<>>
     ELSE [k \in DOMAIN f.rows |-> One(k)]

-----------------------------------------------------------------------------
(* When a tool calls its report ready for review; r maps each side to the  *)
(* results of its runs.                                                    *)

Enough(s) == Len(seen[s].rows) >= Minimum
Same(results) == \A k \in DOMAIN results : results[k].class = results[1].class
Valid(results) == \A k \in DOMAIN results : results[k].valid
Complete(results) == \A k \in DOMAIN results : results[k].complete

\* The reset tool takes the words of the listing from the image it is given.
Specimen(s) ==
  LET words == IF tool # "reset" THEN s
               ELSE IF meta[s].image = Absent THEN "no words" ELSE meta[s].image[2]
  IN SpecimenOK(meta[s], pinned[s], s, words)

PushPopReady(r) ==
  /\ Enough("push_pop") /\ Same(r["push_pop"]) /\ r["push_pop"][1].resolved
  /\ PushPopPackage(meta["push_pop"]) /\ Specimen("push_pop")

SimultaneousReady(r) ==
  /\ Enough(tool) /\ Same(r[tool]) /\ r[tool][1].resolved /\ Valid(r[tool])
  /\ SimultaneousPackage(meta[tool]) /\ Specimen(tool)

LstArpReady(r) ==
  /\ Enough(tool) /\ Same(r[tool]) /\ r[tool][1].resolved /\ Valid(r[tool])
  /\ LstArpPackage(meta[tool]) /\ Specimen(tool)

DintReady(r) ==
  /\ Enough(tool) /\ Same(r[tool]) /\ r[tool][1].resolved /\ Valid(r[tool])
  /\ DintPackage(meta[tool], digest[tool].aux) /\ Specimen(tool)

SubcReady(r) ==
  /\ Enough(tool) /\ Same(r[tool]) /\ Valid(r[tool])
  /\ SubcPackage(meta[tool], tool) /\ Specimen(tool)

\* The runs after a reset and the runs after power-up are counted apart, and
\* they need not agree.
ColdAndReset(m) ==
  LET count(c) == Cardinality({k \in DOMAIN m.conditions : m.conditions[k].label = c})
  IN count("reset") >= Minimum /\ count("cold_power") >= ColdMinimum

InvalidReadReady(r) ==
  /\ ColdAndReset(meta[tool]) /\ Complete(r[tool]) /\ Valid(r[tool])
  /\ InvalidReadPackage(meta[tool], Names(tool)) /\ Specimen(tool)

InvalidWriteReady(r) ==
  /\ \A s \in SidesOf(tool) :
       /\ Enough(s) /\ Complete(r[s]) /\ Valid(r[s])
       /\ InvalidWritePackage(meta[s], s, digest["prior"]) /\ Specimen(s)
  /\ PriorOK(seen["prior"])
  /\ WritePair(meta["ASCENDING"], meta["DESCENDING"], seen["prior"])

BoundaryReady(r) ==
  /\ \A s \in SidesOf(tool) :
       /\ Enough(s) /\ Complete(r[s]) /\ Valid(r[s])
       /\ BoundaryPackage(meta[s], s) /\ Specimen(s)
  /\ RegistersOK(meta, registers, UNION {{s} \X Names(s) : s \in SidesOf(tool)})
  /\ SamePart(meta["DMOV"], meta["LTD"])

\* _coverage: enough nominal runs, every clock with every hold count, and
\* periods that order the clocks as their names say.
Coverage(s, results) ==
  LET cond == meta[s].conditions
      at(c) == {k \in DOMAIN results : cond[k].label = c}
      slower(c, d) == \A i \in at(c), j \in at(d) :
                        seen[s].aux[i].period > seen[s].aux[j].period
  IN /\ Cardinality(at("nominal")) >= Minimum
     /\ {cond[k] : k \in DOMAIN results} = Combinations
     /\ slower("slow_limit", "nominal") /\ slower("nominal", "fast_limit")

ResetReady(r) ==
  /\ \A s \in SidesOf(tool) :
       /\ Coverage(s, r[s])
       /\ Len(r[s]) = Len(seen[s].rows) /\ Complete(r[s]) /\ Valid(r[s])
       /\ ResetPackage(meta[s], s, digest[s].aux, Names(s), Combinations)
       /\ Specimen(s)
  /\ SamePart(meta["SET"], meta["CLEAR"])

\* mutant: only the first run of each fixture is summarised
FieldSummaryOfFirst(r, field) ==
  LET all == {r[s][1].class[field] : s \in SidesOf(tool)}
  IN IF {f.relation : f \in all} = {"RETAINED"} THEN "RETAINED_BOTH_FIXTURES"
     ELSE IF Cardinality({f.post : f \in all}) = 1 THEN "COMMON_POST"
     ELSE "MIXED_OR_VARIABLE"

\* _field_summaries: what both fixtures together say of one field.
FieldSummary(r, field) ==
  LET all == UNION {{r[s][k].class[field] : k \in DOMAIN r[s]} : s \in SidesOf(tool)}
  IN IF {f.relation : f \in all} = {"RETAINED"} THEN "RETAINED_BOTH_FIXTURES"
     ELSE IF Cardinality({f.post : f \in all}) = 1 THEN "COMMON_POST"
     ELSE "MIXED_OR_VARIABLE"

Ready(r) ==
  /\ tool = "push_pop" => PushPopReady(r)
  /\ tool = "simultaneous" => SimultaneousReady(r)
  /\ tool = "lst_arp" => LstArpReady(r)
  /\ tool = "dint" => DintReady(r)
  /\ tool \in {"DEPENDENCY", "OVERFLOW"} => SubcReady(r)
  /\ tool = "invalid_read" => InvalidReadReady(r)
  /\ tool = "invalid_write" => InvalidWriteReady(r)
  /\ tool = "boundary" => BoundaryReady(r)
  /\ tool = "reset" => ResetReady(r)

\* The report that the tool prints.
Report(r) ==
  LET first == Sides[tool][1]
      pair == \A s \in SidesOf(tool) : SamePart(meta[first], meta[s])
  IN [error |-> FALSE, tool |-> tool, ready |-> Ready(r),
      complete |-> \A s \in SidesOf(tool) : Complete(r[s]),
      valid |-> \A s \in SidesOf(tool) : Valid(r[s]),
      minimum |-> IF tool = "invalid_read" THEN ColdAndReset(meta[tool])
                  ELSE \A s \in SidesOf(tool) : Enough(s),
      package |-> tool = "invalid_read" =>
                    InvalidReadPackage(meta[tool], Names(tool)) /\ Specimen(tool),
      specimen |-> IF pair THEN meta[first].part.id ELSE Absent,
      class |-> [s \in SidesOf(tool) |-> [k \in DOMAIN r[s] |-> r[s][k].class]],
      retained |-> /\ tool = "reset" /\ Ready(r)
                   /\ \A f \in DOMAIN StateWords :
                        FieldSummary(r, f) = "RETAINED_BOTH_FIXTURES"]

-----------------------------------------------------------------------------

Invoke(t, p) ==
  \E f \in Recordings(t) :
    /\ tool' = t /\ file' = f /\ prior' = p
    /\ meta' \in Sidecars(t, f, p)
    /\ registers' \in Registers(t, f)
    /\ pc' = 1 /\ report' = Absent
    /\ seen' = <<>> /\ pinned' = <<>> /\ digest' = <<>>

CampaignInit ==
  \E t \in Tools : \E f \in Recordings(t) :
    /\ tool = t /\ file = f /\ prior = Absent
    /\ meta \in Sidecars(t, f, Absent)
    /\ registers \in Registers(t, f)
    /\ pc = 1 /\ report = Absent
    /\ seen = <<>> /\ pinned = <<>> /\ digest = <<>>

At(kind, s) ==
  /\ report = Absent /\ pc <= Len(Steps(tool)) /\ Steps(tool)[pc] = <<kind, s>>
  /\ pc' = pc + 1

Put(f, s, value) == [x \in DOMAIN f \cup {s} |-> IF x = s THEN value ELSE f[x]]

\* What is on the disk when the measurement file is opened, after the capture.
Between(s) ==
  {file} \cup
  (IF tool \in Timed THEN {Put(file, s, f[s]) : f \in Rerecordings(tool)} ELSE {})

\* The rows of one recording with the measurements of another: what the
\* device did belongs to the rows, the clock to the measurements.
Parsed(capture, measured) ==
  [rows |-> capture.rows, aux |-> measured.aux,
   truth |-> [k \in DOMAIN capture.truth |->
     [device |-> capture.truth[k].device, dropped |-> capture.truth[k].dropped,
      target |-> capture.truth[k].target,
      clock |-> IF k \in DOMAIN measured.truth THEN measured.truth[k].clock
                ELSE "unmeasured"]]]

\* The capture is read and classified, with its measurements where there are
\* some; an error ends the tool.
ReadCapture(s) ==
  /\ At("read", s)
  /\ \E later \in Between(s) :
       LET f == Parsed(file[s], later[s])
           results == Analysis(tool, s, f, meta[s])
       IN /\ file' = later
          /\ seen' = Put(seen, s, f)
          /\ report' = IF \/ f.rows = <<>> \/ ~Readable(tool, f)
                          \/ \E k \in DOMAIN results : results[k].error
                       THEN Rejected ELSE report
  /\ UNCHANGED <<tool, meta, registers, prior, pinned, digest>>

\* validate_specimen_evidence hashes the capture file of its own accord.
PinCapture(s) ==
  /\ At("pin", s)
  /\ pinned' = Put(pinned, s, file[s].rows)
  /\ UNCHANGED <<tool, file, meta, registers, prior, seen, digest, report>>

\* The evidence check hashes the measurements, and _hash_file(capture_path)
\* the capture, for the field capture_sha256 of the report.
DigestCapture(s) ==
  /\ At("digest", s)
  /\ digest' = Put(digest, s, [rows |-> file[s].rows, aux |-> file[s].aux])
  /\ UNCHANGED <<tool, file, meta, registers, prior, seen, pinned, report>>

\* _validate_prior_read_report hashes the stage-1 report,
HashPrior ==
  /\ At("digest", "prior")
  /\ digest' = Put(digest, "prior", prior)
  /\ UNCHANGED <<tool, file, meta, registers, prior, seen, pinned, report>>

\* and then opens it again to parse it.
ReadPrior ==
  /\ At("read", "prior")
  /\ seen' = Put(seen, "prior", prior)
  /\ UNCHANGED <<tool, file, meta, registers, prior, pinned, digest, report>>

Finish ==
  /\ report = Absent /\ pc = Len(Steps(tool)) + 1
  /\ report' = Report([s \in SidesOf(tool) |->
                         Analysis(tool, s, seen[s], meta[s])])
  /\ UNCHANGED <<tool, file, meta, registers, prior, pc, seen, pinned, digest>>

\* Somebody records again into the same file while the tool runs.
Replace(s) ==
  /\ report = Absent
  /\ \E f \in Rerecordings(tool) : file' = Put(file, s, f[s])
  /\ UNCHANGED <<tool, meta, registers, prior, pc, seen, pinned, digest, report>>

\* Somebody writes another stage-1 report into the same file.
RewritePrior ==
  /\ report = Absent /\ tool = "invalid_write" /\ prior # Absent
  /\ prior' \in StageReports
  /\ UNCHANGED <<tool, file, meta, registers, pc, seen, pinned, digest, report>>

\* The report is kept as the stage-1 report, and the write experiment is run.
Adopt ==
  /\ report # Absent /\ report.error = FALSE
  /\ Invoke("invalid_write", [report EXCEPT !.class = <<>>])

CampaignNext ==
  \/ \E s \in SidesOf(tool) :
       ReadCapture(s) \/ PinCapture(s) \/ DigestCapture(s) \/ Replace(s)
  \/ HashPrior \/ ReadPrior \/ RewritePrior
  \/ Finish \/ Adopt

CampaignSpec == CampaignInit /\ [][CampaignNext]_vars

-----------------------------------------------------------------------------
(* Properties. *)

Lossless(s) == \A k \in Names(s) : seen[s].truth[k].dropped = {}

\* A report that is ready for review names what the device did in every run
\* of the rows that were parsed, whatever has been written into the file
\* before or since, and whichever measurements were read beside them: no
\* fault of the recording or of the sidecar makes build_report call another
\* outcome ready.  DeviceClass is the bench's own account.  It says nothing
\* of the bytes whose digest the report prints (NamedBytes does), and of the
\* PUSH/POP fixture only for recordings without a missing row.
SoundReport ==
  report # Absent /\ ~report.error =>
    (report.ready =>
      \A s \in SidesOf(tool) :
        (tool = "push_pop" => Lossless(s))
        => \A k \in Names(s) :
             report.class[s][k] = DeviceClass(tool, s, seen[s].truth[k].device))

\* The digests that a ready report prints are those of what was parsed: the
\* capture, its measurements, the stage-1 report.  The documents say so; the
\* code opens each file again for the digest, and this is not true.
NamedBytes ==
  report # Absent /\ ~report.error =>
    (report.ready =>
      /\ \A s \in SidesOf(tool) :
           digest[s] = [rows |-> seen[s].rows, aux |-> seen[s].aux]
      /\ tool = "invalid_write" => digest["prior"] = seen["prior"])

\* A reset report calls the whole state retained only if no run of either
\* fixture, under any clock and hold count, showed a change: both fixtures are
\* needed, since a state that starts at zero cannot show that it was cleared.
\* The runs are those of the rows that were parsed, the clocks those of the
\* measurements that were parsed with them, whatever is on the disk since.
RetentionSound ==
  report # Absent /\ ~report.error /\ report.retained =>
    \A s \in SidesOf(tool) :
      /\ \A k \in Names(s) : After(s, seen[s].truth[k].device) = Before(s)
      /\ \A c \in Combinations : \E k \in Names(s) :
           seen[s].truth[k].clock = c.label /\ seen[s].truth[k].target = c.target

=============================================================================
