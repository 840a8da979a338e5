----------------------------- MODULE MCCampaign -----------------------------
(* Recordings of one to three runs (six for the reset experiment) in which   *)
(* one row or all the idle rows may be missing, and sidecars with at most    *)
(* one thing wrong.                                                          *)
EXTENDS Campaign, TLC

Kept(t) == IF t = "invalid_read" THEN 3 ELSE 2

\* One run: its rows, what was measured of it, what really happened.
Run(t, side, d, dropped, clock, target) ==
  LET period == CASE clock = "slow_limit" -> 3 [] clock = "nominal" -> 2 [] OTHER -> 1
      aux == CASE t = "dint" -> [assert |-> IF d = "late" THEN 19 ELSE 15,
                                 release |-> 27, fall |-> 1, period |-> 10]
               [] t = "reset" -> [assert |-> 9, release |-> 10 + target,
                                  bio |-> 9, period |-> period]
               [] OTHER -> "none"
      length == Len(Stream(t, side, d, target))
      low == CASE t = "dint" -> {n \in 1..length : aux.assert <= 10 * n /\ 10 * n < aux.release}
               [] t = "reset" -> aux.bio..length
               [] OTHER -> {}
  IN [rows |-> Recorded(Stream(t, side, d, target), dropped, low), aux |-> aux,
      truth |-> [device |-> d, dropped |-> dropped, clock |-> clock, target |-> target]]

Recording(runs) ==
  [rows |-> [k \in DOMAIN runs |-> runs[k].rows],
   aux |-> [k \in DOMAIN runs |-> runs[k].aux],
   truth |-> [k \in DOMAIN runs |-> runs[k].truth]]

Plan == SetToSeq(Clocks \X HoldTargets)
PlanFor(t) == IF t = "reset" THEN Plan ELSE [k \in 1..Kept(t) |-> <<"nominal", HoldMin>>]

\* Devices of the runs: one for all, or another one in the last run.
Mixtures(t) ==
  {[k \in DOMAIN PlanFor(t) |-> IF k = Len(PlanFor(t)) THEN p[2] ELSE p[1]] :
     p \in (DOMAIN Behaviours(t)) \X (DOMAIN Behaviours(t))}
  \cup {[k \in {1} |-> d] : d \in DOMAIN Behaviours(t)}

SideRecording(t, side, mix, dropped) ==
  Recording([k \in DOMAIN mix |->
    Run(t, side, mix[k], dropped[k], PlanFor(t)[k][1], PlanFor(t)[k][2])])

\* A row is missing in the first run, or a normalizer that keeps only the rows
\* with an active control leaves the idle rows out of every run.
Losses(t, side, mix) ==
  LET stream(k) == Stream(t, side, mix[k], PlanFor(t)[k][2]) IN
  {[k \in DOMAIN mix |-> IF k = 1 THEN {i} \ {0} ELSE {}] : i \in 0..Len(stream(1))}
  \cup {[k \in DOMAIN mix |-> {i \in DOMAIN stream(k) : stream(k)[i].kind = "idle"}]}

\* The other fixture of a pair is recorded from the same device, without loss.
AllRecordings == [t \in Tools |->
  UNION {{[s \in ToSet(Sides[t]) |->
             SideRecording(t, s, mix,
               IF s = Sides[t][1] THEN loss ELSE [k \in DOMAIN mix |-> {}])] :
            loss \in Losses(t, Sides[t][1], mix)} :
           mix \in Mixtures(t)}]
MCRecordings(t) == AllRecordings[t]

\* Faults of a sidecar are tried on recordings without one.
Undamaged(t, f) == \A s \in DOMAIN f : \A k \in DOMAIN f[s].rows :
  f[s].truth[k].dropped = {} /\ f[s].truth[k].device = f[s].truth[1].device
UndamagedRecordings == [t \in Tools |-> {f \in MCRecordings(t) : Undamaged(t, f)}]
MCRerecordings(t) == UndamagedRecordings[t]

Is(bytes) == [inside |-> TRUE, bytes |-> bytes, pin |-> bytes]
File(name, bytes) == name :> Is(bytes)

Registered(t, f) ==
  [r \in UNION {{s} \X DOMAIN f[s].rows : s \in DOMAIN f} |->
     [transcript |-> "transcript"]]
MCRegisters(t, f) ==
  IF t = "boundary" THEN {Registered(t, f), Absent} ELSE {Absent}

Honest(t, s, f, p) ==
  [text |-> TRUE, scope |-> TRUE, part |-> [id |-> "p1", marks |-> "m1"],
   image |-> <<"image", s>>, imagePin |-> <<"image", s>>,
   raw |-> File("raw", "transcript"), photos |-> File("photo", "probe"),
   views |-> File("top", "view"), source |-> File("src", <<"source", s>>),
   listing |-> File("lst", <<"listing", s>>),
   calibrations |-> File("c1", 1) @@ File("c2", 2) @@ File("c3", 3),
   capture |-> f[s].rows,
   aux |-> IF t = "boundary" THEN Registered(t, f) ELSE f[s].aux,
   conditions |->
     [k \in DOMAIN f[s].rows |->
        [label |-> CASE t = "reset" -> f[s].truth[k].clock
                     [] OTHER -> IF k < 3 THEN "reset" ELSE "cold_power",
         target |-> f[s].truth[k].target]],
   prior |-> p, stage |-> "write_after_pinned_read_only"]

\* One thing wrong with the sidecar of the first fixture.
Faults(t, m, f, p) ==
  {[m EXCEPT !.part.id = "p2"], [m EXCEPT !.part.marks = "m2"], [m EXCEPT !.text = FALSE], [m EXCEPT !.scope = FALSE],
   [m EXCEPT !.image = Absent], [m EXCEPT !.image = <<"image", "other">>],
   [m EXCEPT !.image = <<"image", "other">>, !.imagePin = <<"image", "other">>],
   [m EXCEPT !.raw["raw"].bytes = Absent], [m EXCEPT !.photos["photo"].inside = FALSE],
   [m EXCEPT !.views["top"].pin = "old view"], [m EXCEPT !.source["src"] = Is(<<"source", "other">>)],
   [m EXCEPT !.listing["lst"] = Is(<<"listing", "other">>)],
   [m EXCEPT !.capture = <<>>], [m EXCEPT !.aux = <<>>],
   [m EXCEPT !.calibrations = <<>>], [m EXCEPT !.stage = "unknown"],
   [m EXCEPT !.prior = Absent]}
  \cup {[m EXCEPT !.conditions[1].label = c] : c \in
         {"unknown", "cold_power", "nominal"}}

MCSidecars(t, f, p) ==
  LET first == Sides[t][1]
      honest == [s \in DOMAIN f |-> Honest(t, s, f, p)]
      others == {[id |-> "p2", marks |-> "m1"], [id |-> "p1", marks |-> "m2"]}
  IN {honest} \cup
     (IF Undamaged(t, f)
      THEN {[honest EXCEPT ![first] = m] : m \in Faults(t, honest[first], f, p)} \cup
           {[s \in DOMAIN f |-> [honest[s] EXCEPT !.part = other]] : other \in others} \cup
           (IF Len(Sides[t]) = 1
            THEN {[s \in DOMAIN g |-> Honest(t, s, g, p)] : g \in MCRerecordings(t)}
            ELSE {})
      ELSE {})

\* A stage-1 report of another device, and one that is not ready.
MCStageReports ==
  LET stage1(ready, id) ==
        [error |-> FALSE, tool |-> "invalid_read", ready |-> ready,
         complete |-> TRUE, valid |-> TRUE, minimum |-> ready, package |-> TRUE,
         specimen |-> id, class |-> <<>>, retained |-> FALSE]
  IN {stage1(TRUE, "p2"), stage1(FALSE, "p1")}

\* The sidecars describe these recordings and this stage-1 report, whatever
\* device they name.
Described(f, p) ==
  \A s \in DOMAIN f : meta[s] = [Honest(tool, s, f, p) EXCEPT !.part = meta[s].part]

\* Nothing has been parsed or pinned but the recordings that are there.
Unmixed ==
  /\ \A s \in DOMAIN file \cap DOMAIN seen : seen[s].rows = file[s].rows
  /\ \A s \in DOMAIN pinned : pinned[s] = file[s].rows

\* Files without a loss are replaced once: when the sidecars describe what is
\* there, or, where there is one fixture, after another recording than the one
\* they describe was parsed; the stage-1 report is replaced when they describe
\* it.  Only reports on recordings without a loss are kept.
CaptureNext ==
  /\ report # Absent => /\ tool \in {"invalid_read", "OVERFLOW"}
                        /\ Undamaged(tool, file)
  /\ CampaignNext
  /\ tool' = tool /\ file' # file =>
       /\ Undamaged(tool, file)
       /\ \/ Described(file, prior) /\ Unmixed
          \/ /\ Len(Sides[tool]) = 1 /\ pc = 2
             /\ ~Described(file, prior) /\ Described(file', prior)
  /\ tool' = tool /\ prior' # prior => Undamaged(tool, file) /\ Described(file, prior)
CaptureSpec == CampaignInit /\ [][CaptureNext]_vars

=============================================================================
