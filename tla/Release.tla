------------------------------ MODULE Release ------------------------------
(***************************************************************************)
(* The current-scope release evidence.  scripts/run_release_checks.py runs *)
(* a fixed list of gates and binds their logs and results to one Git       *)
(* revision; --verify compares the receipt with the logs on the disk and   *)
(* with the revision of the moment.  The gates whose source is in the      *)
(* repository (audit_release.py, check_release_evidence.py and             *)
(* check_documentation.py) are the predicates below on the content of the  *)
(* working tree; the others are a set of gates the content breaks.         *)
(*                                                                         *)
(* Several writers may use the same directory, a writer may die between    *)
(* two commands, scripts/clean.py may remove the directory, and people     *)
(* edit, commit and check out all the while.                               *)
(***************************************************************************)
EXTENDS References, Sequences

CONSTANTS
  Commits,    \* the revisions of the history
  TreeOf,     \* the content a revision records
  Edits,      \* contents somebody may give the working tree
  Gates,      \* number of required commands, the first is audit-release
  LintGate,   \* the one that runs the documentation check
  Area,       \* the area of the tree each path is in
  Criteria,   \* REQUIRED_CRITERIA
  Required,   \* REQUIRED_FILES
  Writers     \* concurrent runs of run_release_checks.py

VARIABLES
  head,       \* HEAD
  work,       \* the content of the working tree
  writer,     \* each writer: the revision it recorded, its results so far, and
              \* (history) the tree it started on, whether every command saw it
  dir         \* the evidence directory: logs and receipt

releaseVars == <<head, work, writer, dir>>

-----------------------------------------------------------------------------
(* scripts/audit_release.py.  A content has candidate files with their     *)
(* bytes, the irregular and the binary ones, and the policy's records.     *)

Candidates(c) == DOMAIN c.bytes
Regular(c) == Candidates(c) \ c.irregular

\* What the working tree may ever hold.
Contents == Edits \cup {TreeOf[k] : k \in Commits}

ASSUME ReleaseAssumption ==
  /\ Gates \in Nat \ {0}
  /\ \A c \in Contents : c.binary \subseteq Candidates(c)

LicenseOK(c) == c.license \in Regular(c)

\* Every candidate is a regular file in a place the policy lets it be.
PathsOK(c) ==
  /\ c.irregular = {}
  /\ \A n \in Candidates(c) :
       /\ Area[n] # "cache"
       /\ Area[n] = "build" => n \in c.placeholders
       /\ Area[n] = "artifacts" => n \in c.artifacts
       /\ Area[n] = "third_party" =>
            n \in c.placeholders \cup DOMAIN c.external

\* No allowlist outlives its file.
AllowlistsOK(c) == c.placeholders \cup c.artifacts \subseteq Candidates(c)

\* Every generated file is recorded, and recorded with candidates it can be
\* generated from.
GeneratedOK(c) ==
  /\ {n \in Candidates(c) : Area[n] = "generated"}
       = DOMAIN c.generated \cup c.canonical
  /\ \A n \in DOMAIN c.generated :
       LET g == c.generated[n] IN
         /\ {g.generator} \cup g.inputs \subseteq Candidates(c)
         /\ g.inputs # {} /\ g.marked

ExternalOK(c) ==
  \A n \in DOMAIN c.external :
    Area[n] = "third_party" /\ n \in Candidates(c) /\ c.external[n].approved

\* Every binary candidate is recorded with the digest of its bytes.
BinaryOK(c) ==
  /\ c.binary \cap Regular(c) = DOMAIN c.binaries
  /\ \A n \in DOMAIN c.binaries :
       c.binaries[n].approved /\ c.binaries[n].sha = c.bytes[n]

Prohibited == {Pin[s] : s \in Sources \ MayCommit} \ {Nothing}

\* No candidate has the bytes of a source that may not be committed.
NoReference(c) == \A n \in Regular(c) : c.bytes[n] \notin Prohibited

AuditOK(c) ==
  /\ LicenseOK(c) /\ PathsOK(c) /\ AllowlistsOK(c) /\ GeneratedOK(c)
  /\ ExternalOK(c) /\ BinaryOK(c) /\ NoReference(c)

-----------------------------------------------------------------------------
(* scripts/check_release_evidence.py and scripts/check_documentation.py.   *)

Statuses == {"NOT_MET", "PARTIAL", "PASS_CURRENT_SCOPE", "RELEASE_QUALIFIED"}

\* One criterion of the inventory, with what it refers to.
CriterionOK(c, id) ==
  LET r == c.criteria[id] IN
    /\ r.status \in Statuses
    /\ r.evidence # {} /\ r.evidence \subseteq Candidates(c)
    /\ r.commands # {} /\ r.commands \subseteq c.targets
    /\ r.blockers \subseteq c.open
    /\ r.status = "RELEASE_QUALIFIED" => r.blockers = {}

Qualified(c) ==
  /\ DOMAIN c.criteria = Criteria
  /\ \A id \in Criteria : /\ c.criteria[id].status = "RELEASE_QUALIFIED"
                          /\ c.criteria[id].blockers = {}

InventoryOK(c) ==
  /\ DOMAIN c.criteria = Criteria
  /\ \A id \in DOMAIN c.criteria : CriterionOK(c, id)
  /\ DOMAIN c.checklist = DOMAIN c.criteria
  /\ \A id \in DOMAIN c.checklist : c.checklist[id] = c.criteria[id].status
  /\ c.ready = Qualified(c)

\* The layout, the backlog, the change log and what Git tracks.
DocumentationOK(c) ==
  /\ Required \subseteq Regular(c)
  /\ c.backlog
  /\ \A n \in c.tracked : Area[n] # "cache" /\ n \notin c.documents

\* A command of the list, run on a content.
GatePasses(g, c) ==
  /\ g \notin c.broken
  /\ g \in {1, LintGate} => AuditOK(c) /\ InventoryOK(c)
  /\ g = LintGate => DocumentationOK(c)

-----------------------------------------------------------------------------
(* scripts/run_release_checks.py                                           *)

Resting == [at |-> "rest"]
NoDir == [at |-> "removed"]
NoReceipt == [at |-> "none"]
Clean == work = TreeOf[head]

\* A log carries no more than its verdict: the digests tell logs apart least.
Verdict(g) == IF GatePasses(g, work) THEN "PASS" ELSE "FAIL"

ReleaseInit ==
  /\ head \in Commits
  /\ work = TreeOf[head]
  /\ writer = [w \in Writers |-> Resting]
  /\ dir = NoDir

\* mutant: a dirty tree is not refused
StartDirty(w) ==
  /\ writer[w] = Resting
  /\ writer' = [writer EXCEPT ![w] =
       [at |-> "run", commit |-> head, results |-> <<>>,
        start |-> work, steady |-> TRUE]]
  /\ dir' = IF dir = NoDir THEN [logs |-> <<>>, receipt |-> NoReceipt] ELSE dir
  /\ UNCHANGED <<head, work>>

\* write_receipt up to its loop: a dirty tree is refused.
StartWriter(w) ==
  /\ writer[w] = Resting
  /\ Clean
  /\ writer' = [writer EXCEPT ![w] =
       [at |-> "run", commit |-> head, results |-> <<>>,
        start |-> work, steady |-> TRUE]]
  /\ dir' = IF dir = NoDir THEN [logs |-> <<>>, receipt |-> NoReceipt] ELSE dir
  /\ UNCHANGED <<head, work>>

\* mutant: one command more than the list has
RunGateAgain(w) ==
  /\ writer[w] # Resting
  /\ Len(writer[w].results) <= Gates
  /\ dir # NoDir
  /\ LET g == Len(writer[w].results) + 1 IN
       /\ writer' = [writer EXCEPT ![w].results = Append(@, Verdict(1))]
       /\ dir' = [dir EXCEPT !.logs =
            [h \in DOMAIN @ \cup {g} |-> IF h = g THEN Verdict(1) ELSE @[h]]]
  /\ UNCHANGED <<head, work>>

\* The next command, on the tree of the moment; its log replaces the one that
\* was there.  Without the directory the write fails and the run is over.
RunGate(w) ==
  /\ writer[w] # Resting
  /\ Len(writer[w].results) < Gates
  /\ LET g == Len(writer[w].results) + 1 IN
       IF dir = NoDir
         THEN writer' = [writer EXCEPT ![w] = Resting] /\ UNCHANGED dir
         ELSE /\ writer' = [writer EXCEPT ![w].results = Append(@, Verdict(g)),
                                          ![w].steady = @ /\ work = writer[w].start]
              /\ dir' = [dir EXCEPT !.logs =
                   [h \in DOMAIN @ \cup {g} |->
                      IF h = g THEN Verdict(g) ELSE @[h]]]
  /\ UNCHANGED <<head, work>>

AllPass(results) ==
  Len(results) = Gates /\ \A g \in 1..Gates : results[g] = "PASS"

\* The receipt names the revision of the start and the digest of each log as
\* this writer produced it.
WriteReceipt(w) ==
  /\ writer[w] # Resting
  /\ Len(writer[w].results) = Gates
  /\ dir' = IF dir = NoDir THEN dir
            ELSE [dir EXCEPT !.receipt =
              [at |-> "written", commit |-> writer[w].commit,
               results |-> writer[w].results, steady |-> writer[w].steady,
               overall |-> AllPass(writer[w].results)]]
  /\ writer' = [writer EXCEPT ![w] = Resting]
  /\ UNCHANGED <<head, work>>

\* Killed: the logs it wrote stay beside whatever receipt was there.
KillWriter(w) ==
  /\ writer[w] # Resting
  /\ writer' = [writer EXCEPT ![w] = Resting]
  /\ UNCHANGED <<head, work, dir>>

\* scripts/clean.py removes everything below build/.
CleanBuild ==
  /\ dir' = NoDir
  /\ UNCHANGED <<head, work, writer>>

\* People.
Edit(c) == work' = c /\ UNCHANGED <<head, writer, dir>>

Commit(k) ==
  /\ work = TreeOf[k]
  /\ head' = k
  /\ UNCHANGED <<work, writer, dir>>

Checkout(k) ==
  /\ head' = k /\ work' = TreeOf[k]
  /\ UNCHANGED <<writer, dir>>

ReleaseNext ==
  \/ \E w \in Writers : \/ StartWriter(w) \/ RunGate(w)
                        \/ WriteReceipt(w) \/ KillWriter(w)
  \/ CleanBuild
  \/ \E c \in Edits : Edit(c)
  \/ \E k \in Commits : Commit(k) \/ Checkout(k)

ReleaseSpec == ReleaseInit /\ [][ReleaseNext]_releaseVars

\* --verify accepts: the receipt is of the revision of the moment, the tree is
\* clean, every command passed and every log on the disk is the recorded one.
Verifies ==
  /\ dir # NoDir
  /\ dir.receipt # NoReceipt
  /\ LET r == dir.receipt IN
       /\ Clean
       /\ r.commit = head
       /\ AllPass(r.results) /\ r.overall
       /\ \A g \in 1..Gates : g \in DOMAIN dir.logs /\ dir.logs[g] = r.results[g]

-----------------------------------------------------------------------------
ReleaseTypeOK ==
  /\ RefTypeOK
  /\ head \in Commits
  /\ \A w \in Writers : writer[w] # Resting =>
       /\ writer[w].commit \in Commits
       /\ Len(writer[w].results) <= Gates
  /\ dir # NoDir => DOMAIN dir.logs \subseteq 1..Gates

\* What the gates are there for: a candidate never has the bytes of a source
\* that may not be committed, no binary or third-party file is there without
\* approval, the generated files are those recorded, and a tree that calls
\* itself ready has every criterion qualified, in the checklist too.
Publishable(c) ==
  /\ \A n \in Candidates(c), s \in Sources :
       c.bytes[n] = Pin[s] /\ Pin[s] # Nothing => s \in MayCommit
  /\ \A n \in c.binary : n \in DOMAIN c.binaries /\ c.binaries[n].approved
  /\ \A n \in Candidates(c) : Area[n] # "cache"
  /\ c.ready => \A id \in Criteria : c.checklist[id] = "RELEASE_QUALIFIED"

\* An accepted receipt of a run during which the tree stayed as it was means
\* that every gate passes on the tree of the moment and that this tree may be
\* published, however many writers share the directory, whoever died before,
\* whatever was committed or checked out since (write_receipt refuses a dirty
\* tree, verify_receipt compares revision, tree and logs).
ReceiptSound ==
  Verifies /\ dir.receipt.steady =>
    /\ \A g \in 1..Gates : GatePasses(g, work)
    /\ Publishable(work)

\* The claim boundary every receipt carries: the listed commands returned zero
\* on the recorded tree.  write_receipt looks at the tree once, before the
\* first command.
PassedOnRecordedTree ==
  Verifies => \A g \in 1..Gates : GatePasses(g, TreeOf[dir.receipt.commit])
=============================================================================
