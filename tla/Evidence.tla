------------------------------ MODULE Evidence ------------------------------
(***************************************************************************)
(* The checks on the sidecar of a capture: what the metadata says of the   *)
(* device, the fixture and the files, against the files themselves.  A     *)
(* digest is identified with the bytes it is the digest of; the required   *)
(* texts, numbers and pin names are one flag.  A sidecar m has             *)
(*   text, scope     the required fields are there; "this specimen only"   *)
(*   part            the specimen: its id, and its package markings        *)
(*   image, imagePin the program image and the digest recorded for it      *)
(*   raw, photos, views, source, listing, calibrations: path -> artifact   *)
(*   capture, aux    the capture and the auxiliary file it pins            *)
(*   conditions      the declared label and hold count of each run         *)
(*   prior, stage    the stage-1 report it pins, the stage it declares     *)
(***************************************************************************)
EXTENDS Naturals, FiniteSets, Sequences

CONSTANT Absent   \* a file that is not there

\* _validate_artifact_map and _safe_artifact: every listed file is below the
\* root, exists and has the recorded bytes.
ArtifactsOK(map) ==
  \A p \in DOMAIN map :
    /\ map[p].inside
    /\ map[p].bytes # Absent
    /\ map[p].bytes = map[p].pin

\* validate_evidence_package, shared by all the tools.
BasePackage(m) ==
  /\ m.text
  /\ m.image # Absent /\ m.image = m.imagePin
  /\ DOMAIN m.raw # {} /\ ArtifactsOK(m.raw)
  /\ DOMAIN m.photos # {} /\ ArtifactsOK(m.photos)

\* _validate_fixture_listing: the listing has the words of the fixture.
ListingOK(m, words) ==
  \A p \in DOMAIN m.listing :
    m.listing[p].inside /\ m.listing[p].bytes # Absent
      => m.listing[p].bytes = <<"listing", words>>

\* validate_specimen_evidence, with the capture as it is when it is hashed.
SpecimenOK(m, capture, fixture, words) ==
  /\ m.capture = capture
  /\ m.text /\ m.scope
  /\ DOMAIN m.source # {} /\ DOMAIN m.listing # {}
  /\ \A p \in DOMAIN m.source : m.source[p].pin = <<"source", fixture>>
  /\ ArtifactsOK(m.source) /\ ArtifactsOK(m.listing)
  /\ ListingOK(m, words)
  /\ DOMAIN m.views # {} /\ ArtifactsOK(m.views)

\* _validate_specimen_pair: two sidecars of one device, markings and all.
SamePart(m1, m2) == m1.part = m2.part

ExactImage(m, fixture) == m.image = Absent \/ m.image = <<"image", fixture>>

-----------------------------------------------------------------------------
(* What each tool asks of the sidecar besides.                             *)

PushPopPackage(m) == BasePackage(m) /\ ExactImage(m, "push_pop")

\* lst_arp, simultaneous_ar and subc: _validate_checked_image.
LstArpPackage(m) == BasePackage(m) /\ ExactImage(m, "lst_arp")
SimultaneousPackage(m) == BasePackage(m) /\ ExactImage(m, "simultaneous")
SubcPackage(m, experiment) == BasePackage(m) /\ ExactImage(m, experiment)

\* The pulse measurements are pinned, the three calibration traces are there.
DintPackage(m, pulses) ==
  /\ BasePackage(m) /\ ExactImage(m, "dint")
  /\ m.aux = pulses
  /\ Cardinality(DOMAIN m.calibrations) = 3 /\ ArtifactsOK(m.calibrations)

\* _metadata_conditions: every run of the capture is declared, none besides.
ConditionsOK(m, names) ==
  /\ DOMAIN m.conditions = names
  /\ \A r \in names : m.conditions[r].label \in {"reset", "cold_power"}

InvalidReadPackage(m, names) ==
  BasePackage(m) /\ ExactImage(m, "invalid_read") /\ ConditionsOK(m, names)

\* _validate_prior_read_report: a finished stage-1 report of one specimen.
PriorOK(report) ==
  /\ report # Absent
  /\ report.tool = "invalid_read"
  /\ report.ready /\ report.complete /\ report.valid /\ report.minimum
  /\ report.package /\ report.specimen # Absent

\* _validate_workflow_link: the sidecar pins the hashed report and the order.
WorkflowLink(m, hashed) ==
  m.prior = hashed /\ m.stage = "write_after_pinned_read_only"

InvalidWritePackage(m, direction, hashed) ==
  /\ BasePackage(m) /\ ExactImage(m, direction) /\ WorkflowLink(m, hashed)

\* _validate_specimen_pair of the write stage: the stage-1 report says the id
\* of its specimen, and nothing of the markings.
WritePair(m1, m2, report) ==
  /\ SamePart(m1, m2)
  /\ report # Absent /\ report.specimen # Absent => m1.part.id = report.specimen

\* _validate_register_evidence: one register row per run, each with a
\* transcript among the raw artifacts, and the file pinned by both sidecars.
RegistersOK(meta, registers, names) ==
  /\ registers # Absent
  /\ DOMAIN registers = names
  /\ \A s \in DOMAIN meta :
       /\ meta[s].aux = registers
       /\ \A r \in names : r[1] = s =>
            registers[r].transcript \in {meta[s].raw[p].pin : p \in DOMAIN meta[s].raw}

BoundaryPackage(m, experiment) ==
  BasePackage(m) /\ ExactImage(m, experiment)

\* validate_reset_evidence: pinned measurements, a clock condition and a hold
\* target for every run.
ResetPackage(m, fixture, measurements, names, labels) ==
  /\ BasePackage(m) /\ ExactImage(m, fixture)
  /\ m.aux = measurements
  /\ DOMAIN m.conditions = names
  /\ \A r \in names : m.conditions[r] \in labels
=============================================================================
