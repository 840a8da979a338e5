----------------------------- MODULE ToolProofs -----------------------------
(***************************************************************************)
(* The tools beside the hardware: the reference cache, the release receipt *)
(* and the capture campaign, for any sources, contents, gates, writers,    *)
(* fetchers, recordings and sidecars.                                      *)
(***************************************************************************)
EXTENDS Release, Campaign, FiniteSetTheorems, TLAPS

-----------------------------------------------------------------------------
(* The reference cache.                                                    *)

\* A fetcher works on a source of the manifest, and what it downloaded is what
\* the server served.
JobsMeaningful ==
  \A f \in Fetchers :
    /\ job[f].at # "idle" => job[f].src \in Sources
    /\ job[f].at = "downloaded" => job[f].temp \in Served

\* A file the disk left alone is the pinned one.
PinnedUnlessRotten ==
  \A s \in Sources : Pin[s] # Nothing /\ s \notin rotten => cache[s] \in {Nothing, Pin[s]}

RefInv == RefTypeOK /\ JobsMeaningful /\ PinnedUnlessRotten

LEMMA CheckKeepsCache ==
  ASSUME RefInv, NEW f \in Fetchers, NEW s \in Sources, CheckDestination(f, s)
  PROVE  RefInv'
<1>1. RefTypeOK' /\ JobsMeaningful'
  BY DEF RefInv, RefTypeOK, JobsMeaningful, CheckDestination, Idle
<1> QED BY <1>1 DEF RefInv, PinnedUnlessRotten, CheckDestination

LEMMA DownloadKeepsCache ==
  ASSUME RefInv, NEW f \in Fetchers, Download(f) \/ Abandon(f)
  PROVE  RefInv'
<1>1. RefTypeOK' /\ JobsMeaningful'
  BY DEF RefInv, RefTypeOK, JobsMeaningful, Download, Abandon, Idle
<1> QED BY <1>1 DEF RefInv, PinnedUnlessRotten, Download, Abandon

\* The digest is compared before the temporary replaces the destination.
LEMMA InstallKeepsCache ==
  ASSUME RefInv, NEW f \in Fetchers, Install(f)
  PROVE  RefInv'
<1>1. job[f].src \in Sources /\ job[f].temp \in Served
  BY DEF RefInv, JobsMeaningful, Install
<1>2. RefTypeOK' /\ JobsMeaningful'
  BY <1>1 DEF RefInv, RefTypeOK, JobsMeaningful, Install, Idle
<1>3. PinnedUnlessRotten'
  BY <1>1 DEF RefInv, RefTypeOK, PinnedUnlessRotten, Install, Matches
<1> QED BY <1>2, <1>3 DEF RefInv

LEMMA DiskKeepsCache ==
  ASSUME RefInv, NEW s \in Sources, Damage(s) \/ Delete(s)
  PROVE  RefInv'
<1>1. RefTypeOK' /\ JobsMeaningful'
  BY DEF RefInv, RefTypeOK, JobsMeaningful, Damage, Delete
<1>2. PinnedUnlessRotten'
  BY DEF RefInv, RefTypeOK, PinnedUnlessRotten, Damage, Delete
<1> QED BY <1>1, <1>2 DEF RefInv

(* The invariant of the reference cache: a fetcher installs only what it   *)
(* compared, so every file that the disk left alone has its pinned bytes   *)
(* (download_one of fetch_references.py).                                  *)
THEOREM CacheInvariant == RefSpec => []RefInv
<1>1. RefInit => RefInv
  BY ReferenceAssumption
     DEF RefInit, RefInv, RefTypeOK, JobsMeaningful, PinnedUnlessRotten, Idle
<1>2. RefInv /\ [RefNext]_refVars => RefInv'
  <2> SUFFICES ASSUME RefInv, [RefNext]_refVars PROVE RefInv'
    OBVIOUS
  <2>1. CASE \E f \in Fetchers, s \in Sources : CheckDestination(f, s)
    BY <2>1, CheckKeepsCache
  <2>2. CASE \E f \in Fetchers : Download(f) \/ Abandon(f)
    BY <2>2, DownloadKeepsCache
  <2>3. CASE \E f \in Fetchers : Install(f)
    BY <2>3, InstallKeepsCache
  <2>4. CASE \E s \in Sources : Damage(s) \/ Delete(s)
    BY <2>4, DiskKeepsCache
  <2>5. CASE UNCHANGED refVars
    BY <2>5 DEF refVars, RefInv, RefTypeOK, JobsMeaningful, PinnedUnlessRotten
  <2> QED BY <2>1, <2>2, <2>3, <2>4, <2>5 DEF RefNext
<1> QED BY <1>1, <1>2, PTL DEF RefSpec

(* Whatever the server sends and wherever a fetcher is killed, a pinned     *)
(* source is absent or whole unless the disk damaged it, and the verifier   *)
(* run with --allow-missing blames only the disk.                           *)
THEOREM CacheCorrect == RefSpec => []CacheIntact
<1>1. RefInv => CacheIntact
  BY DEF RefInv, PinnedUnlessRotten, CacheIntact, Verified
<1> QED BY <1>1, CacheInvariant, PTL

-----------------------------------------------------------------------------
(* The release receipt.                                                    *)

Verdicts == {"PASS", "FAIL"}

\* A running writer, and the receipt it may write.
Running == [at : {"run"}, commit : Commits, results : Seq(Verdicts),
            start : Contents, steady : BOOLEAN]
Receipts == [at : {"written"}, commit : Commits, results : Seq(Verdicts),
             steady : BOOLEAN, overall : BOOLEAN]

\* Results of a run that saw one tree only are those of the recorded revision.
TrueResults(r) ==
  r.steady => \A g \in DOMAIN r.results :
                r.results[g] = "PASS" => GatePasses(g, TreeOf[r.commit])

WritersTrue ==
  \A w \in Writers : writer[w] # Resting =>
    /\ writer[w] \in Running
    /\ Len(writer[w].results) <= Gates
    /\ writer[w].start = TreeOf[writer[w].commit]
    /\ TrueResults(writer[w])

DirectoryTrue ==
  dir # NoDir =>
    /\ dir = [logs |-> dir.logs, receipt |-> dir.receipt]
    /\ DOMAIN dir.logs \subseteq 1..Gates
    /\ dir.receipt # NoReceipt =>
         dir.receipt \in Receipts /\ TrueResults(dir.receipt)

TreesKnown ==
  head \in Commits /\ work \in Contents /\ DOMAIN writer = Writers

ReleaseInv == TreesKnown /\ WritersTrue /\ DirectoryTrue

\* A run starts on a clean tree, so on the tree its revision records.
LEMMA StartKeepsTruth ==
  ASSUME ReleaseInv, NEW w \in Writers, StartWriter(w)
  PROVE  ReleaseInv'
<1> DEFINE r == [at |-> "run", commit |-> head, results |-> <<>>,
                 start |-> work, steady |-> TRUE]
<1>1. TreesKnown'
  BY DEF ReleaseInv, TreesKnown, StartWriter
<1>2. r \in Running /\ Len(r.results) <= Gates /\ r.start = TreeOf[r.commit]
        /\ TrueResults(r)
  BY ReleaseAssumption DEF ReleaseInv, TreesKnown, StartWriter, Clean, Running, TrueResults
<1>3. WritersTrue'
  <2> HIDE DEF r
  <2>1. writer' = [writer EXCEPT ![w] = r]
    BY DEF StartWriter, r
  <2> QED BY <1>2, <2>1 DEF ReleaseInv, TreesKnown, WritersTrue, TrueResults
<1>4. DirectoryTrue'
  BY DEF ReleaseInv, DirectoryTrue, StartWriter, TrueResults
<1> QED BY <1>1, <1>3, <1>4 DEF ReleaseInv

\* A command judges the tree of the moment; steady says that it was the tree
\* of the start.
LEMMA GateKeepsTruth ==
  ASSUME ReleaseInv, NEW w \in Writers, RunGate(w)
  PROVE  ReleaseInv'
<1> DEFINE r == writer[w]
           g == Len(r.results) + 1
           n == [r EXCEPT !.results = Append(@, Verdict(g)),
                          !.steady = @ /\ work = r.start]
<1>1. TreesKnown'
  BY DEF ReleaseInv, TreesKnown, RunGate
<1>2. CASE dir = NoDir
  <2>1. writer' = [writer EXCEPT ![w] = Resting] /\ dir' = dir
    BY <1>2 DEF RunGate
  <2>2. WritersTrue'
    BY <2>1 DEF ReleaseInv, TreesKnown, WritersTrue, TrueResults
  <2>3. DirectoryTrue'
    BY <2>1 DEF ReleaseInv, DirectoryTrue, TrueResults
  <2> QED BY <1>1, <2>2, <2>3 DEF ReleaseInv
<1>3. CASE dir # NoDir
  <2>1. r \in Running /\ Len(r.results) < Gates /\ r.start = TreeOf[r.commit]
          /\ TrueResults(r) /\ g \in 1..Gates
    BY ReleaseAssumption DEF ReleaseInv, WritersTrue, RunGate, Running
  <2>2. /\ writer' = [writer EXCEPT ![w] = n]
        /\ dir' = [dir EXCEPT !.logs =
             [h \in DOMAIN @ \cup {g} |-> IF h = g THEN Verdict(g) ELSE @[h]]]
    BY <1>3 DEF RunGate, ReleaseInv, TreesKnown
  <2>3. n \in Running /\ Len(n.results) <= Gates /\ n.start = TreeOf[n.commit]
    <3>1. Verdict(g) \in Verdicts
      BY DEF Verdict, Verdicts
    <3>2. r.results \in Seq(Verdicts) /\ Len(r.results) \in Nat
      BY <2>1 DEF Running
    <3> DEFINE longer == Append(r.results, Verdict(g))
               still == r.steady /\ work = r.start
    <3>3. longer \in Seq(Verdicts) /\ Len(longer) = Len(r.results) + 1
      BY <3>1, <3>2
    <3>4. n = [r EXCEPT !.results = longer, !.steady = still]
      OBVIOUS
    <3>5. still \in BOOLEAN
      OBVIOUS
    <3> HIDE DEF longer, still, n
    <3>6. n \in Running /\ n.results = longer /\ n.commit = r.commit /\ n.start = r.start
      BY <2>1, <3>3, <3>4, <3>5 DEF Running
    <3> QED BY <2>1, <3>2, <3>3, <3>6, ReleaseAssumption
  <2>4. TrueResults(n)
    <3> SUFFICES ASSUME n.steady, NEW h \in DOMAIN n.results, n.results[h] = "PASS"
                 PROVE  GatePasses(h, TreeOf[n.commit])
      BY DEF TrueResults
    <3>1. n.commit = r.commit /\ n.results = Append(r.results, Verdict(g))
            /\ (n.steady <=> (r.steady /\ work = r.start))
      BY <2>1 DEF Running
    <3>2. CASE h = g
      <4>1. n.results[h] = Verdict(g)
        BY <2>1, <3>1, <3>2 DEF Running
      <4>2. GatePasses(g, work)
        BY <4>1 DEF Verdict
      <4> QED BY <2>1, <3>1, <3>2, <4>2
    <3>3. CASE h # g
      <4>1. h \in DOMAIN r.results /\ n.results[h] = r.results[h]
        BY <2>1, <3>1, <3>3 DEF Running
      <4> QED BY <2>1, <3>1, <4>1 DEF TrueResults
    <3> QED BY <3>2, <3>3
  <2>5. WritersTrue'
    <3> HIDE DEF n
    <3> QED BY <2>2, <2>3, <2>4 DEF ReleaseInv, TreesKnown, WritersTrue, TrueResults
  <2>6. DirectoryTrue'
    <3>1. dir' = [logs |-> dir'.logs, receipt |-> dir'.receipt]
            /\ dir'.receipt = dir.receipt
            /\ DOMAIN dir'.logs = DOMAIN dir.logs \cup {g}
      BY <1>3, <2>2 DEF ReleaseInv, DirectoryTrue
    <3> QED BY <1>3, <2>1, <3>1 DEF ReleaseInv, DirectoryTrue, TrueResults
  <2> QED BY <1>1, <2>5, <2>6 DEF ReleaseInv
<1> QED BY <1>2, <1>3

\* The receipt is the writer's own record; the directory may be gone.
LEMMA ReceiptKeepsTruth ==
  ASSUME ReleaseInv, NEW w \in Writers, WriteReceipt(w)
  PROVE  ReleaseInv'
<1> DEFINE r == writer[w]
           n == [at |-> "written", commit |-> r.commit, results |-> r.results,
                 steady |-> r.steady, overall |-> AllPass(r.results)]
<1>1. TreesKnown'
  BY DEF ReleaseInv, TreesKnown, WriteReceipt
<1>2. WritersTrue'
  BY DEF ReleaseInv, TreesKnown, WritersTrue, TrueResults, WriteReceipt
<1>3. DirectoryTrue'
  <2>1. r \in Running /\ TrueResults(r)
    BY DEF ReleaseInv, WritersTrue, WriteReceipt
  <2>2. n \in Receipts /\ TrueResults(n)
    BY <2>1 DEF Running, Receipts, TrueResults, AllPass
  <2>3. dir' = IF dir = NoDir THEN dir ELSE [dir EXCEPT !.receipt = n]
    BY DEF WriteReceipt
  <2> HIDE DEF n
  <2>4. CASE dir = NoDir
    BY <2>3, <2>4 DEF ReleaseInv, DirectoryTrue
  <2>5. CASE dir # NoDir
    <3>1. dir' = [logs |-> dir.logs, receipt |-> n]
      BY <2>3, <2>5 DEF ReleaseInv, DirectoryTrue
    <3> QED BY <2>2, <2>5, <3>1 DEF ReleaseInv, DirectoryTrue, TrueResults
  <2> QED BY <2>4, <2>5
<1> QED BY <1>1, <1>2, <1>3 DEF ReleaseInv

\* A killed writer leaves its logs; clean.py and people touch no writer.
LEMMA OthersKeepTruth ==
  ASSUME ReleaseInv,
         \/ \E w \in Writers : KillWriter(w)
         \/ CleanBuild
         \/ \E c \in Edits : Edit(c)
         \/ \E k \in Commits : Commit(k) \/ Checkout(k)
  PROVE  ReleaseInv'
<1>1. CASE \E w \in Writers : KillWriter(w)
  BY <1>1 DEF ReleaseInv, TreesKnown, WritersTrue, DirectoryTrue, TrueResults, KillWriter
<1>2. CASE CleanBuild
  BY <1>2 DEF ReleaseInv, TreesKnown, WritersTrue, DirectoryTrue, TrueResults, CleanBuild
<1>3. CASE \E c \in Edits : Edit(c)
  BY <1>3 DEF ReleaseInv, TreesKnown, WritersTrue, DirectoryTrue, TrueResults, Edit,
              Contents
<1>4. CASE \E k \in Commits : Commit(k) \/ Checkout(k)
  BY <1>4 DEF ReleaseInv, TreesKnown, WritersTrue, DirectoryTrue, TrueResults, Commit,
              Checkout, Contents
<1> QED BY <1>1, <1>2, <1>3, <1>4

(* The invariant of the release receipt: what a writer, or the receipt it   *)
(* left, says of a run that saw one tree only is true of the tree its       *)
(* revision records, however many writers share the directory               *)
(* (write_receipt of run_release_checks.py).                                *)
THEOREM ReleaseInvariant == ReleaseSpec => []ReleaseInv
<1>1. ReleaseInit => ReleaseInv
  BY DEF ReleaseInit, ReleaseInv, TreesKnown, WritersTrue, DirectoryTrue, Contents
<1>2. ReleaseInv /\ [ReleaseNext]_releaseVars => ReleaseInv'
  <2> SUFFICES ASSUME ReleaseInv, [ReleaseNext]_releaseVars PROVE ReleaseInv'
    OBVIOUS
  <2>1. CASE \E w \in Writers : StartWriter(w)
    BY <2>1, StartKeepsTruth
  <2>2. CASE \E w \in Writers : RunGate(w)
    BY <2>2, GateKeepsTruth
  <2>3. CASE \E w \in Writers : WriteReceipt(w)
    BY <2>3, ReceiptKeepsTruth
  <2>4. CASE \/ \E w \in Writers : KillWriter(w)
             \/ CleanBuild
             \/ \E c \in Edits : Edit(c)
             \/ \E k \in Commits : Commit(k) \/ Checkout(k)
    BY <2>4, OthersKeepTruth
  <2>5. CASE UNCHANGED releaseVars
    BY <2>5 DEF releaseVars, ReleaseInv, TreesKnown, WritersTrue, DirectoryTrue, TrueResults
  <2> QED BY <2>1, <2>2, <2>3, <2>4, <2>5 DEF ReleaseNext
<1> QED BY <1>1, <1>2, PTL DEF ReleaseSpec

(* The types of both: a log or a result never belongs to a command that is  *)
(* not on the list.                                                         *)
THEOREM ReleaseTypeCorrect == RefSpec /\ ReleaseSpec => []ReleaseTypeOK
<1>1. RefInv /\ ReleaseInv => ReleaseTypeOK
  BY DEF RefInv, ReleaseInv, TreesKnown, WritersTrue, DirectoryTrue, Running,
         ReleaseTypeOK
<1> QED BY <1>1, CacheInvariant, ReleaseInvariant, PTL

\* What audit_release.py and check_release_evidence.py together establish.
LEMMA GatesMakePublishable ==
  ASSUME NEW c \in Contents, AuditOK(c), InventoryOK(c)
  PROVE  Publishable(c)
<1>1. Regular(c) = Candidates(c)
  BY DEF AuditOK, PathsOK, Regular
<1>2. ASSUME NEW n \in Candidates(c), NEW s \in Sources,
             c.bytes[n] = Pin[s], Pin[s] # Nothing, s \notin MayCommit
      PROVE  FALSE
  <2>1. Pin[s] \in Prohibited
    BY <1>2 DEF Prohibited
  <2> QED BY <1>1, <1>2, <2>1 DEF AuditOK, NoReference
<1>3. \A n \in c.binary : n \in DOMAIN c.binaries /\ c.binaries[n].approved
  BY <1>1, ReleaseAssumption DEF AuditOK, BinaryOK
<1>4. \A n \in Candidates(c) : Area[n] # "cache"
  BY DEF AuditOK, PathsOK
<1>5. c.ready => \A id \in Criteria : c.checklist[id] = "RELEASE_QUALIFIED"
  BY DEF InventoryOK, Qualified
<1> QED BY <1>2, <1>3, <1>4, <1>5 DEF Publishable

(* An accepted receipt of a run that saw one tree only means that every     *)
(* gate passes on the tree of the moment and that it may be published       *)
(* (verify_receipt of run_release_checks.py).                               *)
THEOREM ReceiptCorrect == ReleaseSpec => []ReceiptSound
<1>1. ReleaseInv => ReceiptSound
  <2> SUFFICES ASSUME ReleaseInv, Verifies, dir.receipt.steady
               PROVE  /\ \A g \in 1..Gates : GatePasses(g, work)
                      /\ Publishable(work)
    BY DEF ReceiptSound
  <2>1. /\ dir.receipt \in Receipts /\ TrueResults(dir.receipt)
        /\ dir.receipt.commit = head /\ AllPass(dir.receipt.results)
        /\ work = TreeOf[head]
    BY DEF Verifies, ReleaseInv, DirectoryTrue, Clean
  <2>2. DOMAIN dir.receipt.results = 1..Gates
    BY <2>1, ReleaseAssumption DEF AllPass, Receipts
  <2>3. \A g \in 1..Gates : GatePasses(g, work)
    BY <2>1, <2>2 DEF AllPass, TrueResults
  <2>4. AuditOK(work) /\ InventoryOK(work)
    BY <2>3, ReleaseAssumption DEF GatePasses
  <2>5. work \in Contents
    BY DEF ReleaseInv, TreesKnown
  <2> QED BY <2>3, <2>4, <2>5, GatesMakePublishable
<1> QED BY <1>1, ReleaseInvariant, PTL

-----------------------------------------------------------------------------
(* The capture campaign.                                                   *)

\* The fixtures of the tools that run two of them.
LEMMA Fixtures ==
  /\ Sides["invalid_write"] = <<"ASCENDING", "DESCENDING">>
  /\ Sides["boundary"] = <<"DMOV", "LTD">>
  /\ Sides["reset"] = <<"SET", "CLEAR">>
  /\ \A t \in Tools \ {"invalid_write", "boundary", "reset"} : Sides[t] = <<t>>
  BY DEF Sides, Tools

\* A concatenation, position by position.
LEMMA Joined ==
  ASSUME NEW S, NEW u \in Seq(S), NEW v \in Seq(S)
  PROVE  /\ u \o v \in Seq(S) /\ Len(u \o v) = Len(u) + Len(v)
         /\ \A i \in 1..Len(u) : (u \o v)[i] = u[i]
         /\ \A i \in (Len(u) + 1)..(Len(u) + Len(v)) : (u \o v)[i] = v[i - Len(u)]
  OBVIOUS

\* Two steps before four: where the four stand.
LEMMA TwoAndFour ==
  ASSUME NEW S, NEW u \in Seq(S), Len(u) = 2, NEW v \in Seq(S), Len(v) = 4
  PROVE  Len(u \o v) = 6 /\ (u \o v)[3] = v[1] /\ (u \o v)[5] = v[3]
<1>1. Len(u \o v) = Len(u) + Len(v)
  BY Joined
<1>2. 3 \in (Len(u) + 1)..(Len(u) + Len(v)) /\ 5 \in (Len(u) + 1)..(Len(u) + Len(v))
  OBVIOUS
<1>3. (u \o v)[3] = v[3 - Len(u)] /\ (u \o v)[5] = v[5 - Len(u)]
  BY <1>2, Joined
<1> QED BY <1>1, <1>3

\* The write tool looks at the stage-1 report before all that.
LEMMA AfterTwo ==
  ASSUME NEW S, NEW u \in Seq(S), Len(u) = 2, NEW v \in Seq(S), NEW i \in 1..Len(v)
  PROVE  i + 2 \in 1..Len(u \o v) /\ (u \o v)[i + 2] = v[i]
<1>1. /\ Len(u \o v) = Len(u) + Len(v)
      /\ \A m \in (Len(u) + 1)..(Len(u) + Len(v)) : (u \o v)[m] = v[m - Len(u)]
  BY Joined
<1>2. Len(v) \in Nat
  OBVIOUS
<1> DEFINE uv == u \o v
           n == Len(v)
<1>3. Len(uv) = 2 + n /\ \A m \in 3..(2 + n) : uv[m] = v[m - 2]
  BY <1>1
<1> HIDE DEF uv, n
<1>4. i \in 1..n /\ n \in Nat
  BY <1>2 DEF n
<1>5. i + 2 \in 3..(2 + n) /\ (i + 2) - 2 = i /\ i + 2 \in 1..(2 + n)
  BY <1>4
<1>6. uv[i + 2] = v[i]
  BY <1>3, <1>5
<1> QED BY <1>3, <1>5, <1>6 DEF uv

\* The tools that read and hash a file in turn read each of their files.
LEMMA TurnSteps ==
  ASSUME NEW t \in {"invalid_write", "reset"}, NEW s \in SidesOf(t)
  PROVE  \E i \in 1..Len(Steps(t)) : Steps(t)[i] = <<"read", s>>
<1>1. PICK a, b : Sides[t] = <<a, b>>
  BY Fixtures
<1> DEFINE pins == <<<<"pin", a>>, <<"pin", b>>>>
           turns == [i \in 1..4 |->
                       <<<<"read", <<a, b>>[((i - 1) \div 2) + 1]>>,
                         <<"digest", <<a, b>>[((i - 1) \div 2) + 1]>>>>[((i - 1) % 2) + 1]]
           link == <<<<"digest", "prior">>, <<"read", "prior">>>>
           S == {<<"pin", a>>, <<"pin", b>>, <<"read", a>>, <<"digest", a>>,
                 <<"read", b>>, <<"digest", b>>, <<"digest", "prior">>, <<"read", "prior">>}
<1>2. /\ t = "reset" => Steps(t) = pins \o turns
      /\ t = "invalid_write" => Steps(t) = link \o (pins \o turns)
  <2>1. Len(Sides[t]) = 2 /\ DOMAIN Sides[t] = 1..2 /\ Sides[t][1] = a /\ Sides[t][2] = b
    BY <1>1
  <2> DEFINE each == [k \in DOMAIN Sides[t] |-> <<"pin", Sides[t][k]>>]
             turn(k) == <<<<"read", Sides[t][k]>>, <<"digest", Sides[t][k]>>>>
             repeated == Repeat(Len(Sides[t]), turn)
  <2>2. each = pins
    BY <1>1
  <2>3. repeated = turns
    BY <1>1 DEF Repeat
  <2>4. /\ t = "reset" => Steps(t) = each \o repeated
        /\ t = "invalid_write" => Steps(t) = link \o (each \o repeated)
    BY DEF Steps
  <2> HIDE DEF each, repeated, pins, turns, link
  <2> QED BY <2>2, <2>3, <2>4
<1>3. /\ turns[1] = <<"read", a>> /\ turns[2] = <<"digest", a>>
      /\ turns[3] = <<"read", b>> /\ turns[4] = <<"digest", b>>
  OBVIOUS
<1>4. turns \in Seq(S) /\ Len(turns) = 4
  <2>1. DOMAIN turns = 1..4
    OBVIOUS
  <2>2. \A i \in 1..4 : i = 1 \/ i = 2 \/ i = 3 \/ i = 4
    OBVIOUS
  <2>3. \A i \in 1..4 : turns[i] \in S
    BY <1>3, <2>2
  <2>4. turns = [i \in 1..4 |-> turns[i]]
    OBVIOUS
  <2> HIDE DEF turns, S
  <2> QED BY <2>3, <2>4
<1>5. pins \in Seq(S) /\ Len(pins) = 2 /\ link \in Seq(S) /\ Len(link) = 2
  OBVIOUS
<1> HIDE DEF pins, turns, link, S
<1>6. Len(pins \o turns) = 6 /\ (pins \o turns)[3] = turns[1]
      /\ (pins \o turns)[5] = turns[3]
  BY <1>4, <1>5, TwoAndFour
<1> DEFINE sides == pins \o turns
<1>7. sides \in Seq(S)
  BY <1>4, <1>5, Joined
<1>8. \E i \in 1..Len(sides) : sides[i] = <<"read", s>>
  <2>1. s = a \/ s = b
    BY <1>1 DEF SidesOf, ToSet
  <2> QED BY <1>3, <1>6, <2>1
<1> HIDE DEF sides
<1>9. \E i \in 1..Len(link \o sides) : (link \o sides)[i] = <<"read", s>>
  <2>1. PICK i \in 1..Len(sides) : sides[i] = <<"read", s>>
    BY <1>8
  <2>2. i + 2 \in 1..Len(link \o sides) /\ (link \o sides)[i + 2] = sides[i]
    <3>1. link \in Seq(S) /\ Len(link) = 2 /\ sides \in Seq(S) /\ i \in 1..Len(sides)
      BY <1>5, <1>7, <2>1
    <3> QED BY ONLY <3>1, AfterTwo
  <2> QED BY <2>1, <2>2
<1>10. CASE t = "reset"
  BY <1>2, <1>8, <1>10 DEF sides
<1>11. CASE t = "invalid_write"
  BY <1>2, <1>9, <1>11 DEF sides
<1> QED BY <1>10, <1>11

\* Every tool reads each of its files.
LEMMA ReadFirst ==
  ASSUME NEW t \in Tools, NEW s \in SidesOf(t)
  PROVE  \E i \in 1..Len(Steps(t)) : Steps(t)[i] = <<"read", s>>
<1>1. CASE t \in {"invalid_write", "reset"}
  BY <1>1, TurnSteps
<1>2. CASE t \notin {"invalid_write", "reset"}
  <2> DEFINE each(kind) == [k \in DOMAIN Sides[t] |-> <<kind, Sides[t][k]>>]
             S == {"read", "pin", "digest"} \X SidesOf(t)
  <2>1. Sides[t] \in Seq(SidesOf(t)) /\ Sides[t] # <<>>
    <3>1. CASE t = "boundary"
      BY <3>1, Fixtures DEF SidesOf, ToSet
    <3>2. CASE t # "boundary"
      <4>1. Sides[t] = <<t>>
        BY <1>2, <3>2, Fixtures
      <4> QED BY <4>1 DEF SidesOf, ToSet
    <3> QED BY <3>1, <3>2
  <2>2. PICK k \in 1..Len(Sides[t]) : s = Sides[t][k]
    BY <2>1 DEF SidesOf, ToSet
  <2>3. \A kind \in {"read", "pin", "digest"} :
          each(kind) \in Seq(S) /\ Len(each(kind)) = Len(Sides[t])
    BY <2>1 DEF SidesOf, ToSet
  <2>4. Steps(t) = each("read") \o each("pin") \o each("digest")
    BY <1>2 DEF Steps
  <2>5. each("read")[k] = <<"read", s>>
    BY <2>1, <2>2
  <2> DEFINE u == each("read") v == each("pin") w == each("digest")
  <2>6. u \in Seq(S) /\ v \in Seq(S) /\ w \in Seq(S) /\ k \in 1..Len(u) /\ u[k] = <<"read", s>>
        /\ Steps(t) = (u \o v) \o w
    BY <2>2, <2>3, <2>4, <2>5
  <2> HIDE DEF u, v, w, S
  <2>7. u \o v \in Seq(S) /\ Len(u \o v) = Len(u) + Len(v) /\ (u \o v)[k] = u[k]
    BY <2>6, Joined
  <2>8. k \in 1..Len(u \o v)
    BY <2>6, <2>7
  <2>9. Len(Steps(t)) = Len(u \o v) + Len(w) /\ Steps(t)[k] = (u \o v)[k]
    BY <2>6, <2>7, <2>8, Joined
  <2>10. k \in 1..Len(Steps(t))
    BY <2>6, <2>7, <2>8, <2>9
  <2> QED BY <2>6, <2>7, <2>9, <2>10
<1> QED BY <1>1, <1>2

\* No fixture has the name of the stage-1 report.
LEMMA PriorIsNoSide ==
  ASSUME NEW t \in Tools
  PROVE  "prior" \notin SidesOf(t)
<1>1. CASE t \in {"invalid_write", "boundary", "reset"}
  BY <1>1, Fixtures DEF SidesOf, ToSet
<1>2. CASE t \notin {"invalid_write", "boundary", "reset"}
  <2>1. Sides[t] = <<t>> /\ t # "prior"
    BY <1>2, Fixtures DEF Tools, Sides
  <2> QED BY <2>1 DEF SidesOf, ToSet
<1> QED BY <1>1, <1>2

(* The invariant. *)

\* What read_capture and the classifier let through.
Accepted(t, s, f, m) ==
  /\ Faithful(t, s, f)
  /\ f.rows # <<>> /\ Readable(t, f)
  /\ LET results == Analysis(t, s, f, m)
     IN \A k \in DOMAIN results : ~results[k].error

\* A file on disk is a recording of what the device did.
FilesFaithful ==
  /\ DOMAIN file = SidesOf(tool)
  /\ \A s \in SidesOf(tool) : Faithful(tool, s, file[s])

\* While the tool has not given up, what it parsed was accepted.
SeenAccepted ==
  report # Rejected =>
    \A s \in SidesOf(tool) \cap DOMAIN seen : Accepted(tool, s, seen[s], meta[s])

\* The steps behind pc that read a file have read it.
ReadsDone ==
  report # Rejected =>
    \A i \in 1..(pc - 1), s \in SidesOf(tool) :
      i <= Len(Steps(tool)) /\ Steps(tool)[i] = <<"read", s>> => s \in DOMAIN seen

\* A finished report is computed from what was parsed, not from the disk.
Reported ==
  report \notin {Absent, Rejected} =>
    /\ SidesOf(tool) \subseteq DOMAIN seen
    /\ report = Report([s \in SidesOf(tool) |-> Analysis(tool, s, seen[s], meta[s])])

CampaignInv ==
  /\ tool \in Tools /\ pc \in Nat \ {0}
  /\ FilesFaithful /\ SeenAccepted /\ ReadsDone /\ Reported

\* What a report says depends on nothing but the files and what was read.
LEMMA SameReport ==
  ASSUME UNCHANGED <<tool, meta, registers, seen, pinned, digest>>
  PROVE  \A r : Report(r)' = Report(r)
<1> SUFFICES ASSUME NEW r PROVE Report(r)' = Report(r)
  OBVIOUS
<1>1. /\ \A s : Enough(s)' <=> Enough(s)
      /\ \A s : Names(s)' = Names(s)
      /\ \A s : Specimen(s)' <=> Specimen(s)
  BY DEF Enough, Names, Specimen
<1>2. PushPopReady(r)' <=> PushPopReady(r)
  BY <1>1 DEF PushPopReady
<1>3. SimultaneousReady(r)' <=> SimultaneousReady(r)
  BY <1>1 DEF SimultaneousReady
<1>4. LstArpReady(r)' <=> LstArpReady(r)
  BY <1>1 DEF LstArpReady
<1>5. DintReady(r)' <=> DintReady(r)
  BY <1>1 DEF DintReady
<1>6. SubcReady(r)' <=> SubcReady(r)
  BY <1>1 DEF SubcReady
<1>7. InvalidReadReady(r)' <=> InvalidReadReady(r)
  BY <1>1 DEF InvalidReadReady
<1>8. InvalidWriteReady(r)' <=> InvalidWriteReady(r)
  BY <1>1 DEF InvalidWriteReady
<1>9. BoundaryReady(r)' <=> BoundaryReady(r)
  BY <1>1 DEF BoundaryReady
<1>10. ASSUME NEW s, NEW v PROVE Coverage(s, v)' <=> Coverage(s, v)
  BY DEF Coverage
<1>11. ResetReady(r)' <=> ResetReady(r)
  BY <1>1, <1>10 DEF ResetReady
<1>12. Ready(r)' <=> Ready(r)
  BY <1>2, <1>3, <1>4, <1>5, <1>6, <1>7, <1>8, <1>9, <1>11 DEF Ready
<1>13. \A f : FieldSummary(r, f)' = FieldSummary(r, f)
  BY DEF FieldSummary
<1> DEFINE pair == \A s \in SidesOf(tool) : SamePart(meta[Sides[tool][1]], meta[s])
           specimen == IF pair THEN meta[Sides[tool][1]].part.id ELSE Absent
           minimum == IF tool = "invalid_read" THEN ColdAndReset(meta[tool])
                      ELSE \A s \in SidesOf(tool) : Enough(s)
           package == tool = "invalid_read" =>
                        InvalidReadPackage(meta[tool], Names(tool)) /\ Specimen(tool)
           retained == /\ tool = "reset" /\ Ready(r)
                       /\ \A f \in DOMAIN StateWords :
                            FieldSummary(r, f) = "RETAINED_BOTH_FIXTURES"
<1>14. (pair' <=> pair) /\ specimen' = specimen
  <2>1. pair' <=> pair
    BY \A s : SamePart(meta[s], meta[s])' <=> SamePart(meta[s], meta[s])
  <2> HIDE DEF pair
  <2> QED BY <2>1
<1>15. minimum' = minimum
  BY <1>1
<1>16. package' = package
  BY <1>1
<1>17. retained' = retained /\ Ready(r)' = Ready(r)
  <2>1. Ready(r) \in BOOLEAN /\ Ready(r)' \in BOOLEAN
    BY DEF Ready
  <2>2. Ready(r)' = Ready(r)
    BY <1>12, <2>1
  <2> QED BY <1>13, <2>2
<1>18. Report(r) =
         [error |-> FALSE, tool |-> tool, ready |-> Ready(r),
          complete |-> \A s \in SidesOf(tool) : Complete(r[s]),
          valid |-> \A s \in SidesOf(tool) : Valid(r[s]),
          minimum |-> minimum, package |-> package, specimen |-> specimen,
          class |-> [s \in SidesOf(tool) |-> [k \in DOMAIN r[s] |-> r[s][k].class]],
          retained |-> retained]
  BY DEF Report
<1>19. Report(r)' =
         [error |-> FALSE, tool |-> tool, ready |-> Ready(r)',
          complete |-> \A s \in SidesOf(tool) : Complete(r[s]),
          valid |-> \A s \in SidesOf(tool) : Valid(r[s]),
          minimum |-> minimum', package |-> package', specimen |-> specimen',
          class |-> [s \in SidesOf(tool) |-> [k \in DOMAIN r[s] |-> r[s][k].class]],
          retained |-> retained']
  BY DEF Report
<1> HIDE DEF pair, specimen, minimum, package, retained
<1> QED BY <1>14, <1>15, <1>16, <1>17, <1>18, <1>19

\* A recording in the place of another one leaves recordings on the disk.
LEMMA PutFaithful ==
  ASSUME CampaignInv, NEW s \in SidesOf(tool), NEW f \in Rerecordings(tool)
  PROVE  /\ DOMAIN Put(file, s, f[s]) = SidesOf(tool)
         /\ \A x \in SidesOf(tool) : Faithful(tool, x, Put(file, s, f[s])[x])
<1>1. Faithful(tool, s, f[s])
  BY RecorderAssumption DEF CampaignInv
<1> QED BY <1>1 DEF CampaignInv, FilesFaithful, Put

\* The rows of one recording with the measurements of another are a recording
\* of the rows, if the two have the same runs.
LEMMA ParsedFaithful ==
  ASSUME NEW t, NEW s, NEW a, NEW b, Faithful(t, s, a), Faithful(t, s, b),
         t = "reset" => DOMAIN b.aux = DOMAIN a.rows
  PROVE  Faithful(t, s, Parsed(a, b))
<1> DEFINE f == Parsed(a, b)
<1>1. /\ f.rows = a.rows /\ f.aux = b.aux /\ DOMAIN f.truth = DOMAIN a.truth
      /\ \A k \in DOMAIN a.truth :
           /\ f.truth[k].device = a.truth[k].device
           /\ f.truth[k].dropped = a.truth[k].dropped
           /\ f.truth[k].target = a.truth[k].target
           /\ k \in DOMAIN b.truth => f.truth[k].clock = b.truth[k].clock
  BY DEF Parsed
<1>2. DOMAIN a.truth = DOMAIN a.rows
  BY DEF Faithful
<1> HIDE DEF f
<1>3. ASSUME NEW k \in DOMAIN a.rows
      PROVE  FaithfulRun(t, s, f.rows[k], f.truth[k])
  <2>1. FaithfulRun(t, s, a.rows[k], a.truth[k])
    BY DEF Faithful
  <2>2. /\ f.rows[k] = a.rows[k]
        /\ f.truth[k].device = a.truth[k].device
        /\ f.truth[k].dropped = a.truth[k].dropped
        /\ f.truth[k].target = a.truth[k].target
    BY <1>1, <1>2
  <2> QED BY <2>1, <2>2 DEF FaithfulRun
<1>4. ASSUME t = "reset" PROVE FaithfulClocks(f)
  <2>1. FaithfulClocks(b) /\ DOMAIN b.aux = DOMAIN a.rows
    BY <1>4 DEF Faithful
  <2>2. \A k \in DOMAIN f.aux : f.truth[k].clock = b.truth[k].clock
    BY <1>1, <1>2, <2>1 DEF FaithfulClocks
  <2> QED BY <1>1, <1>2, <2>1, <2>2 DEF FaithfulClocks
<1> QED BY <1>1, <1>2, <1>3, <1>4 DEF Faithful, f

\* A file that is read is accepted, or the tool ends.
LEMMA ReadKeeps ==
  ASSUME CampaignInv, NEW s \in SidesOf(tool), ReadCapture(s)
  PROVE  CampaignInv'
<1>1. report = Absent /\ pc <= Len(Steps(tool)) /\ Steps(tool)[pc] = <<"read", s>>
      /\ pc' = pc + 1 /\ UNCHANGED <<tool, meta>>
  BY DEF ReadCapture, At
<1>8. PICK later \in Between(s) :
        /\ file' = later
        /\ seen' = Put(seen, s, Parsed(file[s], later[s]))
        /\ report' = IF \/ Parsed(file[s], later[s]).rows = <<>>
                        \/ ~Readable(tool, Parsed(file[s], later[s]))
                        \/ LET results == Analysis(tool, s, Parsed(file[s], later[s]), meta[s])
                           IN \E k \in DOMAIN results : results[k].error
                     THEN Rejected ELSE report
  BY DEF ReadCapture
<1> DEFINE f == Parsed(file[s], later[s])
<1>2. DOMAIN seen' = DOMAIN seen \cup {s} /\ seen'[s] = f
      /\ \A x \in DOMAIN seen : x # s => seen'[x] = seen[x]
  BY <1>8 DEF Put
<1>3. FilesFaithful' /\ tool' \in Tools /\ pc' \in Nat \ {0}
  <2>1. CASE later = file
    BY <1>1, <1>8, <2>1 DEF CampaignInv, FilesFaithful
  <2>2. CASE later # file
    <3>1. PICK g \in Rerecordings(tool) : later = Put(file, s, g[s])
      BY <1>8, <2>2 DEF Between
    <3>2. /\ DOMAIN later = SidesOf(tool)
          /\ \A x \in SidesOf(tool) : Faithful(tool, x, later[x])
      BY <3>1, PutFaithful
    <3> QED BY <1>1, <1>8, <3>2 DEF CampaignInv, FilesFaithful
  <2> QED BY <2>1, <2>2
<1>9. Faithful(tool, s, file[s]) /\ Faithful(tool, s, later[s])
  BY <1>1, <1>3, <1>8 DEF CampaignInv, FilesFaithful
<1>4. report' \in {Absent, Rejected}
  BY <1>1, <1>8
<1>5. SeenAccepted'
  <2> SUFFICES ASSUME report' # Rejected, NEW x \in SidesOf(tool), x \in DOMAIN seen'
               PROVE  Accepted(tool, x, seen'[x], meta[x])
    BY <1>1 DEF SeenAccepted
  <2>1. CASE x = s
    <3>1. /\ f.rows # <<>> /\ Readable(tool, f)
          /\ LET results == Analysis(tool, s, f, meta[s])
             IN \A k \in DOMAIN results : ~results[k].error
      BY <1>8
    <3>2. tool = "reset" => DOMAIN later[s].aux = DOMAIN file[s].rows
      <4>1. f.rows = file[s].rows /\ f.aux = later[s].aux
        BY DEF Parsed
      <4>2. tool = "reset" => DOMAIN f.aux = DOMAIN f.rows
        BY <3>1 DEF Readable, Timed, MeasurementsOK
      <4> QED BY <4>1, <4>2
    <3>3. Faithful(tool, s, f)
      BY <1>9, <3>2, ParsedFaithful
    <3> HIDE DEF f
    <3> QED BY <1>2, <2>1, <3>1, <3>3 DEF Accepted
  <2>2. CASE x # s
    BY <1>1, <1>2, <2>2, CampaignAssumption DEF CampaignInv, SeenAccepted
  <2> QED BY <2>1, <2>2
<1>6. ReadsDone'
  BY <1>1, <1>2, CampaignAssumption DEF CampaignInv, ReadsDone
<1>7. Reported'
  BY <1>4 DEF Reported
<1> QED BY <1>3, <1>5, <1>6, <1>7 DEF CampaignInv

\* Neither the specimen check nor the digest of the report reads a row for the
\* classification, and a file is only replaced by another recording.
LEMMA OthersKeep ==
  ASSUME CampaignInv, NEW s \in SidesOf(tool),
         PinCapture(s) \/ DigestCapture(s) \/ Replace(s)
  PROVE  CampaignInv'
<1>1. report = Absent /\ report' = Absent /\ UNCHANGED <<tool, meta, seen>>
  BY DEF PinCapture, DigestCapture, Replace, At
<1>2. FilesFaithful'
  <2>1. CASE PinCapture(s) \/ DigestCapture(s)
    BY <2>1 DEF CampaignInv, FilesFaithful, PinCapture, DigestCapture
  <2>2. CASE Replace(s)
    <3>1. PICK f \in Rerecordings(tool) : file' = Put(file, s, f[s])
      BY <2>2 DEF Replace
    <3> QED BY <1>1, <3>1, PutFaithful DEF FilesFaithful
  <2> QED BY <2>1, <2>2
<1>3. SeenAccepted'
  BY <1>1 DEF CampaignInv, SeenAccepted
<1>4. pc' \in Nat \ {0} /\ ReadsDone'
  <2>1. CASE Replace(s)
    BY <1>1, <2>1 DEF CampaignInv, ReadsDone, Replace
  <2>2. CASE PinCapture(s) \/ DigestCapture(s)
    <3>1. PICK kind \in {"pin", "digest"} : Steps(tool)[pc] = <<kind, s>> /\ pc' = pc + 1
      BY <2>2 DEF PinCapture, DigestCapture, At
    <3>2. \A x : Steps(tool)[pc] # <<"read", x>>
      BY <3>1
    <3>3. ASSUME NEW i \in 1..pc, NEW x \in SidesOf(tool),
                 i <= Len(Steps(tool)), Steps(tool)[i] = <<"read", x>>
          PROVE  x \in DOMAIN seen
      <4>1. i # pc
        BY <3>2, <3>3
      <4>2. i \in 1..(pc - 1)
        BY <4>1 DEF CampaignInv
      <4> QED BY <1>1, <3>3, <4>2, CampaignAssumption DEF CampaignInv, ReadsDone
    <3>4. pc' \in Nat \ {0} /\ pc' - 1 = pc
      BY <3>1 DEF CampaignInv
    <3> QED BY <1>1, <3>3, <3>4 DEF ReadsDone
  <2> QED BY <2>1, <2>2
<1>5. Reported'
  BY <1>1 DEF Reported
<1> QED BY <1>1, <1>2, <1>3, <1>4, <1>5 DEF CampaignInv

\* The accesses to the stage-1 report leave the captures and what was parsed of
\* them alone.
LEMMA PriorKeeps ==
  ASSUME CampaignInv, HashPrior \/ ReadPrior \/ RewritePrior
  PROVE  CampaignInv'
<1>1. report = Absent /\ report' = Absent /\ UNCHANGED <<tool, file, meta>>
  BY DEF HashPrior, ReadPrior, RewritePrior, At
<1>2. /\ DOMAIN seen \subseteq DOMAIN seen'
      /\ \A x \in SidesOf(tool) \cap DOMAIN seen' : x \in DOMAIN seen /\ seen'[x] = seen[x]
  <2>1. CASE HashPrior \/ RewritePrior
    BY <2>1 DEF HashPrior, RewritePrior
  <2>2. CASE ReadPrior
    <3>1. "prior" \notin SidesOf(tool)
      BY PriorIsNoSide DEF CampaignInv
    <3> QED BY <2>2, <3>1 DEF ReadPrior, Put
  <2> QED BY <2>1, <2>2
<1>3. FilesFaithful'
  BY <1>1 DEF CampaignInv, FilesFaithful
<1>4. SeenAccepted'
  BY <1>1, <1>2, CampaignAssumption DEF CampaignInv, SeenAccepted
<1>5. pc' \in Nat \ {0} /\ ReadsDone'
  <2>1. CASE RewritePrior
    BY <1>1, <2>1 DEF CampaignInv, ReadsDone, RewritePrior
  <2>2. CASE HashPrior \/ ReadPrior
    <3>1. PICK kind \in {"digest", "read"} : Steps(tool)[pc] = <<kind, "prior">> /\ pc' = pc + 1
      BY <2>2 DEF HashPrior, ReadPrior, At
    <3>2. \A x \in SidesOf(tool) : Steps(tool)[pc] # <<"read", x>>
      BY <3>1, PriorIsNoSide DEF CampaignInv
    <3>3. ASSUME NEW i \in 1..pc, NEW x \in SidesOf(tool),
                 i <= Len(Steps(tool)), Steps(tool)[i] = <<"read", x>>
          PROVE  x \in DOMAIN seen'
      <4>1. i # pc
        BY <3>2, <3>3
      <4>2. i \in 1..(pc - 1)
        BY <4>1 DEF CampaignInv
      <4> QED BY <1>1, <1>2, <3>3, <4>2, CampaignAssumption DEF CampaignInv, ReadsDone
    <3>4. pc' \in Nat \ {0} /\ pc' - 1 = pc
      BY <3>1 DEF CampaignInv
    <3> QED BY <1>1, <3>3, <3>4 DEF ReadsDone
  <2> QED BY <2>1, <2>2
<1>6. Reported'
  BY <1>1 DEF Reported
<1> QED BY <1>1, <1>3, <1>4, <1>5, <1>6 DEF CampaignInv

\* A report is only made when every file has been read.
LEMMA FinishKeeps ==
  ASSUME CampaignInv, Finish
  PROVE  CampaignInv'
<1>1. /\ report = Absent /\ pc = Len(Steps(tool)) + 1
      /\ UNCHANGED <<tool, file, meta, registers, prior, pc, seen, pinned, digest>>
      /\ report' = Report([s \in SidesOf(tool) |-> Analysis(tool, s, seen[s], meta[s])])
  BY DEF Finish
<1>2. SidesOf(tool) \subseteq DOMAIN seen
  <2> SUFFICES ASSUME NEW s \in SidesOf(tool) PROVE s \in DOMAIN seen
    OBVIOUS
  <2>1. PICK i \in 1..Len(Steps(tool)) : Steps(tool)[i] = <<"read", s>>
    BY ReadFirst DEF CampaignInv
  <2> QED BY <1>1, <2>1, CampaignAssumption DEF CampaignInv, ReadsDone
<1>3. FilesFaithful' /\ tool' \in Tools /\ pc' \in Nat \ {0}
  BY <1>1 DEF CampaignInv, FilesFaithful
<1>4. SeenAccepted' /\ ReadsDone'
  BY <1>1, CampaignAssumption DEF CampaignInv, SeenAccepted, ReadsDone
<1>5. Reported'
  BY <1>1, <1>2, SameReport DEF Reported
<1> QED BY <1>3, <1>4, <1>5 DEF CampaignInv

\* The write experiment starts with recordings of its own.
LEMMA AdoptKeeps ==
  ASSUME CampaignInv, Adopt
  PROVE  CampaignInv'
<1>1. PICK f \in Recordings("invalid_write") :
        /\ tool' = "invalid_write" /\ file' = f
        /\ pc' = 1 /\ report' = Absent /\ seen' = <<>>
  BY DEF Adopt, Invoke
<1>2. "invalid_write" \in Tools
  BY DEF Tools, Sides
<1>3. FilesFaithful'
  BY <1>1, <1>2, RecorderAssumption DEF FilesFaithful
<1>4. SeenAccepted' /\ ReadsDone' /\ Reported'
  BY <1>1 DEF SeenAccepted, ReadsDone, Reported
<1> QED BY <1>1, <1>2, <1>3, <1>4 DEF CampaignInv

(* In every state of every campaign the files on disk are recordings of the   *)
(* device, what a tool parsed passed its checks (read_capture, the classifier *)
(* of each run), and a report is computed from what was parsed by a tool that *)
(* has read all of its files (build_report).                                  *)
THEOREM CampaignInvariant == CampaignSpec => []CampaignInv
<1>1. CampaignInit => CampaignInv
  <2> SUFFICES ASSUME CampaignInit PROVE CampaignInv
    OBVIOUS
  <2>1. PICK t \in Tools : \E f \in Recordings(t) :
          tool = t /\ file = f /\ pc = 1 /\ report = Absent /\ seen = <<>>
    BY DEF CampaignInit
  <2>2. FilesFaithful
    BY <2>1, RecorderAssumption DEF FilesFaithful
  <2>3. SeenAccepted /\ ReadsDone /\ Reported
    BY <2>1 DEF SeenAccepted, ReadsDone, Reported
  <2> QED BY <2>1, <2>2, <2>3 DEF CampaignInv
<1>2. CampaignInv /\ [CampaignNext]_vars => CampaignInv'
  <2> SUFFICES ASSUME CampaignInv, [CampaignNext]_vars PROVE CampaignInv'
    OBVIOUS
  <2>1. CASE \E s \in SidesOf(tool) : ReadCapture(s)
    BY <2>1, ReadKeeps
  <2>2. CASE \E s \in SidesOf(tool) : PinCapture(s) \/ DigestCapture(s) \/ Replace(s)
    BY <2>2, OthersKeep
  <2>3. CASE Finish
    BY <2>3, FinishKeeps
  <2>4. CASE Adopt
    BY <2>4, AdoptKeeps
  <2>6. CASE HashPrior \/ ReadPrior \/ RewritePrior
    BY <2>6, PriorKeeps
  <2>5. CASE UNCHANGED vars
    <3>1. UNCHANGED <<tool, file, meta, prior, pc, seen, pinned, digest, registers, report>>
      BY <2>5 DEF vars
    <3>2. FilesFaithful' /\ SeenAccepted' /\ ReadsDone'
      BY <3>1 DEF CampaignInv, FilesFaithful, SeenAccepted, ReadsDone
    <3>3. Reported'
      BY <3>1, SameReport DEF CampaignInv, Reported
    <3> QED BY <3>1, <3>2, <3>3 DEF CampaignInv
  <2> QED BY <2>1, <2>2, <2>3, <2>4, <2>5, <2>6 DEF CampaignNext
<1> QED BY <1>1, <1>2, PTL DEF CampaignSpec

-----------------------------------------------------------------------------
\* What a report that is no error rests on.
LEMMA FinishedReport ==
  ASSUME CampaignInv, report # Absent, ~report.error
  PROVE  LET r == [s \in SidesOf(tool) |-> Analysis(tool, s, seen[s], meta[s])] IN
         /\ \A s \in SidesOf(tool) : Accepted(tool, s, seen[s], meta[s])
         /\ report.ready <=> Ready(r)
         /\ \A s \in SidesOf(tool) : \A k \in DOMAIN r[s] : report.class[s][k] = r[s][k].class
         /\ report.retained => /\ tool = "reset" /\ Ready(r)
                               /\ \A f \in DOMAIN StateWords :
                                    FieldSummary(r, f) = "RETAINED_BOTH_FIXTURES"
<1> DEFINE r == [s \in SidesOf(tool) |-> Analysis(tool, s, seen[s], meta[s])]
<1>1. report # Rejected
  BY DEF Rejected
<1>2. report = Report(r) /\ \A s \in SidesOf(tool) : Accepted(tool, s, seen[s], meta[s])
  BY <1>1 DEF CampaignInv, Reported, SeenAccepted
<1> HIDE DEF r
<1>3. /\ report.ready <=> Ready(r)
      /\ \A s \in SidesOf(tool) : \A k \in DOMAIN r[s] : report.class[s][k] = r[s][k].class
  BY <1>2 DEF Report
<1>4. report.retained => /\ tool = "reset" /\ Ready(r)
                         /\ \A f \in DOMAIN StateWords :
                              FieldSummary(r, f) = "RETAINED_BOTH_FIXTURES"
  BY <1>2 DEF Report
<1> QED BY <1>2, <1>3, <1>4 DEF r

\* The reset tool leaves out every result when a sidecar condition is not known.
LEMMA ResetResults ==
  ASSUME NEW s, NEW f, NEW m,
         f.rows \in Seq(Seq([n : Nat, kind : STRING, val : STRING, pin : {0, 1}])),
         f.rows # <<>>, Len(Analysis("reset", s, f, m)) = Len(f.rows)
  PROVE  LET results == Analysis("reset", s, f, m)
         IN /\ DOMAIN results = DOMAIN f.rows
            /\ \A k \in DOMAIN f.rows :
                 results[k] = ResetRun(f.rows[k], s, f.aux[k], m.conditions[k].target)
  BY DEF Analysis

\* What the two states of the device say of field i.
Seen(s, d, i) ==
  [relation |-> Retention(Before(s)[i], After(s, d)[i]), post |-> After(s, d)[i]]

\* A complete run has all its words.
LEMMA ResetComplete ==
  ASSUME NEW s, NEW run, NEW measured, NEW target,
         ~ResetRun(run, s, measured, target).error,
         ResetRun(run, s, measured, target).complete
  PROVE  /\ Len(Values(run)) = 6
         /\ ResetRun(run, s, measured, target).class =
              [k \in {1, 2} |->
                 [relation |-> Retention(Values(run)[k], Values(run)[k + 3]),
                  post |-> Values(run)[k + 3]]]
         /\ ResetRun(run, s, measured, target).valid => ResetInterval(run, measured, target)
<1> DEFINE seq == Values(run)
           result == ResetRun(run, s, measured, target)
           class == [k \in DOMAIN StateWords |->
                       [relation |-> Retention(seq[k], seq[k + 3]), post |-> seq[k + 3]]]
<1>1. PICK v : /\ result = Result(IF Len(seq) = Len(ResetWords) THEN class ELSE <<>>,
                                  Len(seq) = Len(ResetWords), v, Len(seq) = Len(ResetWords))
               /\ v => ResetInterval(run, measured, target)
  <2>1. result # Rejected
    BY DEF Rejected
  <2> QED BY <2>1 DEF ResetRun
<1>2. Len(seq) = 6
  <2>1. result.complete <=> Len(seq) = Len(ResetWords)
    <3> HIDE DEF result, class, seq
    <3> QED BY <1>1 DEF Result
  <2>2. Len(ResetWords) = 6
    BY DEF ResetWords
  <2> QED BY <2>1, <2>2
<1>3. /\ result.class = class
      /\ result.valid => ResetInterval(run, measured, target)
  BY <1>1, <1>2 DEF Result, ResetWords
<1>4. DOMAIN StateWords = {1, 2}
  BY DEF StateWords
<1> QED BY <1>2, <1>3, <1>4

\* A faithful run of all six words has those of the device.
LEMMA ResetWordsTrue ==
  ASSUME NEW s \in {"SET", "CLEAR"}, NEW run, NEW truth,
         FaithfulRun("reset", s, run, truth), Len(Values(run)) = 6, NEW i \in {1, 2}
  PROVE  Values(run)[i] = Before(s)[i] /\ Values(run)[i + 3] = After(s, truth.device)[i]
<1> DEFINE seq == Values(run)
           out == Outputs("reset", s, truth.device)
<1>1. /\ Len(seq) <= Len(out) /\ (Len(seq) = Len(out) => seq = out)
  BY DEF FaithfulRun
<1>2. PICK b1, b2, a1, a2 : Before(s) = <<b1, b2>> /\ After(s, truth.device) = <<a1, a2>>
  <2>1. \E b1, b2 : Before(s) = <<b1, b2>>
    BY DEF Before
  <2>2. \E a1, a2 : After(s, truth.device) = <<a1, a2>>
    BY DEF After
  <2> QED BY <2>1, <2>2
<1>3. out = IF truth.device = "stop" THEN <<b1, b2, s, a1, a2>>
            ELSE <<b1, b2, s, a1, a2, "af">>
  <2>1. out = <<b1, b2>> \o <<s>> \o <<a1, a2>>
               \o IF truth.device = "stop" THEN <<>> ELSE <<"af">>
    BY <1>2 DEF Outputs
  <2>2. CASE truth.device = "stop"
    BY <2>1, <2>2
  <2>3. CASE truth.device # "stop"
    BY <2>1, <2>3
  <2> QED BY <2>2, <2>3
<1> HIDE DEF seq, out
<1>4. truth.device # "stop" /\ seq = out
  <2>1. Len(seq) = 6
    BY DEF seq
  <2>2. Len(out) >= 6
    BY <1>1, <1>3, <2>1
  <2>3. truth.device # "stop"
    BY <1>3, <2>2
  <2>4. Len(out) = 6
    BY <1>3, <2>3
  <2> QED BY <1>1, <2>1, <2>3, <2>4
<1>5. /\ seq[1] = Before(s)[1] /\ seq[2] = Before(s)[2]
      /\ seq[4] = After(s, truth.device)[1] /\ seq[5] = After(s, truth.device)[2]
  BY <1>2, <1>3, <1>4
<1>6. CASE i = 1
  BY <1>5, <1>6 DEF seq
<1>7. CASE i = 2
  BY <1>5, <1>7 DEF seq
<1> QED BY <1>6, <1>7

\* Periods that fall from slow to fast give every run the clock it is labelled
\* with: three clocks that are ordered strictly are all three.
LEMMA LabelsTrue ==
  ASSUME NEW f, NEW label, FaithfulClocks(f), DOMAIN f.aux = DOMAIN f.rows,
         \A k \in DOMAIN f.rows : label[k] \in Clocks,
         \A c \in Clocks : \E k \in DOMAIN f.rows : label[k] = c,
         \A i, j \in DOMAIN f.rows :
           label[i] = "slow_limit" /\ label[j] = "nominal" => f.aux[i].period > f.aux[j].period,
         \A i, j \in DOMAIN f.rows :
           label[i] = "nominal" /\ label[j] = "fast_limit" => f.aux[i].period > f.aux[j].period,
         NEW k \in DOMAIN f.rows
  PROVE  f.truth[k].clock = label[k]
<1> DEFINE rank(i) == Rank[f.truth[i].clock]
<1>1. \A i \in DOMAIN f.rows :
        /\ f.truth[i].clock \in Clocks
        /\ rank(i) = 3 \/ rank(i) = 2 \/ rank(i) = 1
        /\ rank(i) = 3 => f.truth[i].clock = "slow_limit"
        /\ rank(i) = 2 => f.truth[i].clock = "nominal"
        /\ rank(i) = 1 => f.truth[i].clock = "fast_limit"
  BY DEF FaithfulClocks, Clocks, Rank
<1>2. /\ \A i, j \in DOMAIN f.rows :
           label[i] = "slow_limit" /\ label[j] = "nominal" => rank(i) > rank(j)
      /\ \A i, j \in DOMAIN f.rows :
           label[i] = "nominal" /\ label[j] = "fast_limit" => rank(i) > rank(j)
  BY DEF FaithfulClocks
<1> HIDE DEF rank
<1>3. PICK a, b, c \in DOMAIN f.rows :
        label[a] = "slow_limit" /\ label[b] = "nominal" /\ label[c] = "fast_limit"
  BY DEF Clocks
<1>4. CASE label[k] = "slow_limit"
  <2>1. rank(k) > rank(b) /\ rank(b) > rank(c)
    BY <1>2, <1>3, <1>4
  <2>2. rank(k) = 3
    <3>1. /\ rank(a) \in 1..3 /\ rank(b) \in 1..3
          /\ rank(c) \in 1..3 /\ rank(k) \in 1..3
      BY <1>1
    <3> QED BY <2>1, <3>1
  <2> QED BY <1>1, <1>4, <2>2
<1>5. CASE label[k] = "nominal"
  <2>1. rank(a) > rank(k) /\ rank(k) > rank(c)
    BY <1>2, <1>3, <1>5
  <2>2. rank(k) = 2
    <3>1. /\ rank(a) \in 1..3 /\ rank(b) \in 1..3
          /\ rank(c) \in 1..3 /\ rank(k) \in 1..3
      BY <1>1
    <3> QED BY <2>1, <3>1
  <2> QED BY <1>1, <1>5, <2>2
<1>6. CASE label[k] = "fast_limit"
  <2>1. rank(a) > rank(b) /\ rank(b) > rank(k)
    BY <1>2, <1>3, <1>6
  <2>2. rank(k) = 1
    <3>1. /\ rank(a) \in 1..3 /\ rank(b) \in 1..3
          /\ rank(c) \in 1..3 /\ rank(k) \in 1..3
      BY <1>1
    <3> QED BY <2>1, <3>1
  <2> QED BY <1>1, <1>6, <2>2
<1> QED BY <1>4, <1>5, <1>6 DEF Clocks

\* What the reset tool concludes from each side of a report that is ready.
LEMMA ResetSideTrue ==
  ASSUME NEW s \in {"SET", "CLEAR"}, Accepted("reset", s, seen[s], meta[s]),
         LET results == Analysis("reset", s, seen[s], meta[s])
         IN /\ Coverage(s, results) /\ Len(results) = Len(seen[s].rows)
            /\ Complete(results) /\ Valid(results)
  PROVE  LET results == Analysis("reset", s, seen[s], meta[s])
         IN /\ DOMAIN results = Names(s)
            /\ \A k \in Names(s) :
                 results[k].class = [i \in {1, 2} |-> Seen(s, seen[s].truth[k].device, i)]
            /\ \A c \in Combinations : \E k \in Names(s) :
                 seen[s].truth[k].clock = c.label /\ seen[s].truth[k].target = c.target
<1> DEFINE f == seen[s]
           results == Analysis("reset", s, f, meta[s])
           cond == meta[s].conditions
           RowSeqs == Seq(Seq([n : Nat, kind : STRING, val : STRING, pin : {0, 1}]))
<1>1. /\ f.rows \in RowSeqs /\ f.rows # <<>> /\ FaithfulClocks(f)
      /\ \A k \in DOMAIN f.rows : FaithfulRun("reset", s, f.rows[k], f.truth[k])
      /\ \A k \in DOMAIN f.rows : ResetRows(f.rows[k])
      /\ DOMAIN f.aux = DOMAIN f.rows
  BY DEF Accepted, Faithful, Readable, Timed, MeasurementsOK
<1>2. /\ DOMAIN results = DOMAIN f.rows
      /\ \A k \in DOMAIN f.rows :
           results[k] = ResetRun(f.rows[k], s, f.aux[k], cond[k].target)
  <2>1. Len(results) = Len(f.rows)
    OBVIOUS
  <2> HIDE DEF f
  <2> QED BY <1>1, <2>1, ResetResults
<1>3. \A k \in DOMAIN f.rows :
        ~results[k].error /\ results[k].complete /\ results[k].valid
  BY <1>2 DEF Accepted, Complete, Valid
<1>4. ASSUME NEW k \in DOMAIN f.rows
      PROVE  /\ results[k].class = [i \in {1, 2} |-> Seen(s, f.truth[k].device, i)]
             /\ cond[k].target = f.truth[k].target
  <2> DEFINE run == f.rows[k]
             result == ResetRun(run, s, f.aux[k], cond[k].target)
  <2>1. /\ FaithfulRun("reset", s, run, f.truth[k]) /\ ResetRows(run)
        /\ results[k] = result
        /\ ~result.error /\ result.complete /\ result.valid
    BY <1>1, <1>2, <1>3
  <2> HIDE DEF f, results, cond
  <2>2. /\ Len(Values(run)) = 6
        /\ result.class = [i \in {1, 2} |->
             [relation |-> Retention(Values(run)[i], Values(run)[i + 3]),
              post |-> Values(run)[i + 3]]]
        /\ ResetInterval(run, f.aux[k], cond[k].target)
    BY <2>1, ResetComplete
  <2> HIDE DEF run, result
  <2>3. \A i \in {1, 2} : Values(run)[i] = Before(s)[i]
                          /\ Values(run)[i + 3] = After(s, f.truth[k].device)[i]
    BY <2>1, <2>2, ResetWordsTrue
  <2>4. Cardinality(LowRows(run)) = f.truth[k].target + 1 /\ f.truth[k].target \in Nat
    BY <2>1, <2>2 DEF FaithfulRun, ResetWords
  <2>5. cond[k].target = f.truth[k].target
    <3>1. Cardinality(LowRows(run)) - 1 = cond[k].target
      BY <2>2 DEF ResetInterval
    <3> QED BY <2>4, <3>1
  <2> QED BY <2>1, <2>2, <2>3, <2>5 DEF Seen
<1>5. /\ {cond[k] : k \in DOMAIN f.rows} = Combinations
      /\ \A i, j \in DOMAIN f.rows : cond[i].label = "slow_limit" /\ cond[j].label = "nominal"
           => f.aux[i].period > f.aux[j].period
      /\ \A i, j \in DOMAIN f.rows : cond[i].label = "nominal" /\ cond[j].label = "fast_limit"
           => f.aux[i].period > f.aux[j].period
  BY <1>2 DEF Coverage
<1>6. ASSUME NEW c \in Combinations
      PROVE  \E k \in DOMAIN f.rows : f.truth[k].clock = c.label /\ f.truth[k].target = c.target
  <2> DEFINE label == [k \in DOMAIN f.rows |-> cond[k].label]
  <2>1. \A k \in DOMAIN f.rows : label[k] \in Clocks
    BY <1>5 DEF Combinations
  <2>2. ASSUME NEW d \in Clocks PROVE \E k \in DOMAIN f.rows : label[k] = d
    <3>1. [label |-> d, target |-> c.target] \in Combinations
      BY DEF Combinations
    <3> QED BY <1>5, <3>1
  <2>3. PICK k \in DOMAIN f.rows : cond[k] = c
    BY <1>5
  <2>4. f.truth[k].clock = label[k]
    <3> HIDE DEF f
    <3>1. /\ \A i, j \in DOMAIN f.rows : label[i] = "slow_limit" /\ label[j] = "nominal"
               => f.aux[i].period > f.aux[j].period
          /\ \A i, j \in DOMAIN f.rows : label[i] = "nominal" /\ label[j] = "fast_limit"
               => f.aux[i].period > f.aux[j].period
      BY <1>5
    <3>2. FaithfulClocks(f) /\ DOMAIN f.aux = DOMAIN f.rows
      BY <1>1
    <3>3. \A d \in Clocks : \E j \in DOMAIN f.rows : label[j] = d
      BY <2>2
    <3> HIDE DEF label
    <3> QED BY <2>1, <3>1, <3>2, <3>3, LabelsTrue
  <2> QED BY <1>4, <2>3, <2>4
<1> HIDE DEF f, results, cond
<1> QED BY <1>2, <1>4, <1>6 DEF f, results, cond, Names

(* A state is only called retained as a whole when no run of either fixture   *)
(* under any clock and hold count changed a word of it (_field_summaries,     *)
(* _coverage of reset_retention_capture.py).                                  *)
THEOREM RetentionCorrect == CampaignSpec => []RetentionSound
<1>1. CampaignInv => RetentionSound
  <2> SUFFICES ASSUME CampaignInv, report # Absent, ~report.error, report.retained,
                      NEW s \in SidesOf(tool)
               PROVE  /\ \A k \in Names(s) : After(s, seen[s].truth[k].device) = Before(s)
                      /\ \A c \in Combinations : \E k \in Names(s) :
                           seen[s].truth[k].clock = c.label
                           /\ seen[s].truth[k].target = c.target
    BY DEF RetentionSound
  <2> DEFINE r == [x \in SidesOf(tool) |-> Analysis(tool, x, seen[x], meta[x])]
  <2>1. /\ tool = "reset" /\ Ready(r) /\ Accepted("reset", s, seen[s], meta[s])
        /\ \A f \in DOMAIN StateWords : FieldSummary(r, f) = "RETAINED_BOTH_FIXTURES"
    BY FinishedReport
  <2>2. s \in {"SET", "CLEAR"} /\ r[s] = Analysis("reset", s, seen[s], meta[s])
    BY <2>1, Fixtures DEF SidesOf, ToSet
  <2> HIDE DEF r
  <2>3. /\ Coverage(s, r[s]) /\ Len(r[s]) = Len(seen[s].rows)
        /\ Complete(r[s]) /\ Valid(r[s])
    BY <2>1 DEF Ready, ResetReady
  <2>4. /\ DOMAIN r[s] = Names(s)
        /\ \A k \in Names(s) :
             r[s][k].class = [i \in {1, 2} |-> Seen(s, seen[s].truth[k].device, i)]
        /\ \A c \in Combinations : \E k \in Names(s) :
             seen[s].truth[k].clock = c.label /\ seen[s].truth[k].target = c.target
    <3> DEFINE results == Analysis("reset", s, seen[s], meta[s])
    <3>1. r[s] = results /\ s \in {"SET", "CLEAR"} /\ Accepted("reset", s, seen[s], meta[s])
      BY <2>1, <2>2
    <3> HIDE DEF results
    <3>2. /\ Coverage(s, results) /\ Len(results) = Len(seen[s].rows)
          /\ Complete(results) /\ Valid(results)
      BY <2>3, <3>1
    <3>3. /\ DOMAIN results = Names(s)
          /\ \A k \in Names(s) :
               results[k].class = [i \in {1, 2} |-> Seen(s, seen[s].truth[k].device, i)]
          /\ \A c \in Combinations : \E k \in Names(s) :
               seen[s].truth[k].clock = c.label /\ seen[s].truth[k].target = c.target
      <4> USE DEF results
      <4> QED BY <3>1, <3>2, ResetSideTrue
    <3> QED BY <3>1, <3>3
  <2>5. ASSUME NEW k \in Names(s), NEW i \in {1, 2}
        PROVE  After(s, seen[s].truth[k].device)[i] = Before(s)[i]
    <3>1. i \in DOMAIN StateWords
      BY DEF StateWords
    <3> DEFINE all == UNION {{r[x][j].class[i] : j \in DOMAIN r[x]} : x \in SidesOf(tool)}
    <3>2. FieldSummary(r, i) = "RETAINED_BOTH_FIXTURES"
      BY <2>1, <3>1
    <3>3. {g.relation : g \in all} = {"RETAINED"}
      BY <3>2 DEF FieldSummary
    <3>4. r[s][k].class[i] \in all
      <4>1. k \in DOMAIN r[s] /\ s \in SidesOf(tool)
        BY <2>4
      <4> DEFINE Of(x) == {r[x][j].class[i] : j \in DOMAIN r[x]}
      <4>2. r[s][k].class[i] \in Of(s)
        BY <4>1
      <4>3. all = UNION {Of(x) : x \in SidesOf(tool)}
        OBVIOUS
      <4> HIDE DEF Of, all
      <4> QED BY <4>1, <4>2, <4>3
    <3> HIDE DEF all
    <3>5. Seen(s, seen[s].truth[k].device, i) \in all
      <4>1. r[s][k].class = [x \in {1, 2} |-> Seen(s, seen[s].truth[k].device, x)]
        BY <2>4
      <4>2. r[s][k].class[i] = Seen(s, seen[s].truth[k].device, i)
        BY <4>1
      <4> QED BY <3>4, <4>2
    <3>6. Seen(s, seen[s].truth[k].device, i).relation = "RETAINED"
      BY <3>3, <3>5
    <3> QED BY <3>6 DEF Seen, Retention
  <2>6. ASSUME NEW k \in Names(s)
        PROVE  After(s, seen[s].truth[k].device) = Before(s)
    BY <2>2, <2>5 DEF After, Before
  <2> QED BY <2>4, <2>6
<1> QED BY <1>1, CampaignInvariant, PTL

\* What a classifier returns: its class, and whether that is one of the
\* hypotheses.
LEMMA SimultaneousResolved ==
  ASSUME NEW run, ~SimultaneousRun(run).error
  PROVE  /\ SimultaneousRun(run).class = SimultaneousClass(Values(run), Reads(run, "forced2"))
         /\ SimultaneousRun(run).resolved <=>
              SimultaneousRun(run).class \in {"NO_NET_UPDATE", "INCREMENT_PRIORITY",
                                              "DECREMENT_PRIORITY"}
<1> DEFINE class == SimultaneousClass(Values(run), Reads(run, "forced2"))
           known == class \in {"NO_NET_UPDATE", "INCREMENT_PRIORITY", "DECREMENT_PRIORITY"}
           result == SimultaneousRun(run)
<1>1. PICK v : result = Result(class, known, v, TRUE)
  <2>1. result # Rejected
    BY DEF Rejected
  <2> QED BY <2>1 DEF SimultaneousRun
<1>2. known \in BOOLEAN
  OBVIOUS
<1> HIDE DEF class, known, result
<1>3. result.class = class /\ (result.resolved <=> known)
  BY <1>1, <1>2 DEF Result
<1> QED BY <1>3 DEF known, class, result

\* A complete stream is the one the device put out.
LEMMA SimultaneousTrue ==
  ASSUME NEW run, NEW truth, FaithfulRun("simultaneous", "simultaneous", run, truth),
         ~SimultaneousRun(run).error, SimultaneousRun(run).resolved
  PROVE  SimultaneousRun(run).class = DeviceClass("simultaneous", "simultaneous", truth.device)
<1> DEFINE seq == Values(run)
           out == Outputs("simultaneous", "simultaneous", truth.device)
           class == SimultaneousClass(seq, Reads(run, "forced2"))
           d == truth.device
<1>2. /\ SimultaneousRun(run).class = class
      /\ class \in {"NO_NET_UPDATE", "INCREMENT_PRIORITY", "DECREMENT_PRIORITY"}
  BY SimultaneousResolved
<1>3. \/ seq = <<"33", "0", "1ff">> /\ class = "NO_NET_UPDATE"
      \/ seq = <<"33", "1", "0">> /\ class = "INCREMENT_PRIORITY"
      \/ seq = <<"33", "1ff", "1fe">> /\ class = "DECREMENT_PRIORITY"
  BY <1>2 DEF SimultaneousClass
<1>4. /\ d \in {"none", "inc", "dec", "odd", "hang1", "hang2"}
      /\ Len(seq) <= Len(out) /\ (Len(seq) = Len(out) => seq = out)
  BY DEF FaithfulRun, Behaviours
<1>5. /\ d = "none" => out = <<"33", "0", "1ff">>
      /\ d = "inc" => out = <<"33", "1", "0">>
      /\ d = "dec" => out = <<"33", "1ff", "1fe">>
      /\ d = "odd" => out = <<"33", "5", "6">>
      /\ d = "hang1" => out = <<"33">>
      /\ d = "hang2" => out = <<"33", "5">>
  BY DEF Outputs
<1>6. Len(seq) = 3
  BY <1>3
<1>7. /\ DeviceClass("simultaneous", "simultaneous", "none") = "NO_NET_UPDATE"
      /\ DeviceClass("simultaneous", "simultaneous", "inc") = "INCREMENT_PRIORITY"
      /\ DeviceClass("simultaneous", "simultaneous", "dec") = "DECREMENT_PRIORITY"
  BY DEF DeviceClass, Behaviours
<1> HIDE DEF out, seq, class
<1>8. seq = out
  <2>2. Len(out) = 1 \/ Len(out) = 2 \/ Len(out) = 3
    BY <1>4, <1>5
  <2>3. Len(out) = 3
    BY <1>4, <1>6, <2>2
  <2> QED BY <1>4, <1>6, <2>3
<1>9. \/ d = "none" /\ class = "NO_NET_UPDATE"
      \/ d = "inc" /\ class = "INCREMENT_PRIORITY"
      \/ d = "dec" /\ class = "DECREMENT_PRIORITY"
  BY <1>3, <1>4, <1>5, <1>8
<1> QED BY <1>2, <1>7, <1>9

\* The LST/ARP tool resolves the two outcomes it knows.
LEMMA LstArpResolved ==
  ASSUME NEW run, ~LstArpRun(run).error
  PROVE  LstArpRun(run).resolved <=> LstArpRun(run).class \in {"MEMORY", "ENCODED"}
<1>1. LstArpRun(run) # Rejected
  BY DEF Rejected
<1> QED BY <1>1 DEF LstArpRun, Result

\* A resolved LST/ARP run is the behaviour of the device.
LEMMA LstArpTrue ==
  ASSUME NEW run, NEW truth, FaithfulRun("lst_arp", "lst_arp", run, truth),
         ~LstArpRun(run).error, LstArpRun(run).resolved
  PROVE  LstArpRun(run).class = DeviceClass("lst_arp", "lst_arp", truth.device)
<1> DEFINE seq == Values(run)
           out == Outputs("lst_arp", "lst_arp", truth.device)
           d == truth.device
           result == LstArpRun(run)
<1>1. result # Rejected
  BY DEF Rejected
<1>2. \/ seq = <<"33", "a0", "b1">> /\ result.class = "MEMORY"
      \/ seq = <<"33", "a1", "b0">> /\ result.class = "ENCODED"
  BY <1>1 DEF LstArpRun, Result
<1>3. /\ d \in {"mem", "enc", "mix"}
      /\ Len(seq) <= Len(out) /\ (Len(seq) = Len(out) => seq = out)
  BY DEF FaithfulRun, Behaviours
<1>4. /\ d = "mem" => out = <<"33", "a0", "b1">>
      /\ d = "enc" => out = <<"33", "a1", "b0">>
      /\ d = "mix" => out = <<"33", "a0", "b0">>
  BY DEF Outputs
<1>5. /\ DeviceClass("lst_arp", "lst_arp", "mem") = "MEMORY"
      /\ DeviceClass("lst_arp", "lst_arp", "enc") = "ENCODED"
  BY DEF DeviceClass, Behaviours
<1> HIDE DEF out, seq, result
<1>6. seq = out
  <2>1. Len(seq) = 3
    BY <1>2
  <2>2. Len(out) = 3
    BY <1>3, <1>4
  <2> QED BY <1>3, <2>1, <2>2
<1> QED BY <1>2, <1>3, <1>4, <1>5, <1>6 DEF result

\* The DINT tool resolves what it gives a name.
LEMMA DintResolved ==
  ASSUME NEW run, NEW pulse, ~DintRun(run, pulse).error
  PROVE  /\ DintRun(run, pulse).class = DintClass(Values(run))
         /\ DintRun(run, pulse).resolved <=> DintRun(run, pulse).class # "OTHER"
<1> DEFINE class == DintClass(Values(run))
           known == class # "OTHER"
           result == DintRun(run, pulse)
<1>1. PICK v : result = Result(class, known, v, TRUE)
  <2>1. result # Rejected
    BY DEF Rejected
  <2> QED BY <2>1 DEF DintRun
<1>2. known \in BOOLEAN
  OBVIOUS
<1> HIDE DEF class, known, result
<1>3. result.class = class /\ (result.resolved <=> known)
  BY <1>1, <1>2 DEF Result
<1> QED BY <1>3 DEF known, class, result

\* A resolved DINT run is the behaviour of the device: one missing output does
\* not turn one of the two streams into the other.
LEMMA DintTrue ==
  ASSUME NEW run, NEW pulse, NEW truth, FaithfulRun("dint", "dint", run, truth),
         ~DintRun(run, pulse).error, DintRun(run, pulse).resolved
  PROVE  DintRun(run, pulse).class = DeviceClass("dint", "dint", truth.device)
<1> DEFINE seq == Values(run)
           out == Outputs("dint", "dint", truth.device)
           d == truth.device
           result == DintRun(run, pulse)
<1>2. result.class = DintClass(seq) /\ DintClass(seq) # "OTHER"
  BY DintResolved
<1>3. \/ seq = <<"33", "22">> /\ result.class = "CANCELS"
      \/ seq = <<"33", "1c", "11", "22">> /\ result.class = "STACKS_N2"
      \/ seq = <<"33", "1b", "11", "22">> /\ result.class = "STACKS_N1"
  BY <1>2 DEF DintClass
<1>4. /\ d \in {"cancels", "n2", "n1", "late"}
      /\ Len(seq) <= Len(out) /\ Len(out) <= Len(seq) + 1
      /\ Len(seq) = Len(out) => seq = out
  BY DEF FaithfulRun, Behaviours
<1>5. /\ d \in {"cancels", "late"} => out = <<"33", "22">>
      /\ d = "n2" => out = <<"33", "1c", "11", "22">>
      /\ d = "n1" => out = <<"33", "1b", "11", "22">>
  BY DEF Outputs
<1>6. /\ DeviceClass("dint", "dint", "cancels") = "CANCELS"
      /\ DeviceClass("dint", "dint", "late") = "CANCELS"
      /\ DeviceClass("dint", "dint", "n2") = "STACKS_N2"
      /\ DeviceClass("dint", "dint", "n1") = "STACKS_N1"
  BY DEF DeviceClass, Behaviours
<1> HIDE DEF out, seq, result
<1>7. seq = out
  <2>1. Len(out) = 2 \/ Len(out) = 4
    BY <1>4, <1>5
  <2>2. Len(seq) = 2 \/ Len(seq) = 4
    BY <1>3
  <2>3. Len(seq) <= Len(out) /\ Len(out) <= Len(seq) + 1
    BY <1>4
  <2>4. Len(seq) = Len(out)
    <3> DEFINE m == Len(seq)
               n == Len(out)
    <3>1. (m = 2 \/ m = 4) /\ (n = 2 \/ n = 4) /\ m <= n /\ n <= m + 1
      BY <2>1, <2>2, <2>3
    <3> HIDE DEF m, n
    <3>2. m = n
      BY <3>1
    <3> QED BY <3>2 DEF m, n
  <2> QED BY <1>4, <2>4
<1> QED BY <1>3, <1>4, <1>5, <1>6, <1>7 DEF result

\* A SUBC run without an error carries every output, in order.
LEMMA SubcTrue ==
  ASSUME NEW t \in {"DEPENDENCY", "OVERFLOW"}, NEW run, NEW truth,
         FaithfulRun(t, t, run, truth), ~SubcRun(run, t).error
  PROVE  SubcRun(run, t).class = DeviceClass(t, t, truth.device)
<1> DEFINE seq == Values(run)
           out == Outputs(t, t, truth.device)
           d == truth.device
           result == SubcRun(run, t)
<1>1. result # Rejected
  BY DEF Rejected
<1>2. Len(seq) = 2 /\ result.class = SubcClass(t, seq)
  BY <1>1 DEF SubcRun, Result, Framed
<1>3. /\ t = "DEPENDENCY" => d \in {"old", "trial", "final"}
      /\ t = "OVERFLOW" => d \in {"early", "late", "bad"}
      /\ Len(seq) <= Len(out) /\ (Len(seq) = Len(out) => seq = out)
  BY DEF FaithfulRun, Behaviours
<1>4. /\ d = "old" => out = <<"5", "b">>
      /\ d = "trial" => out = <<"8005", "b">>
      /\ d = "final" => out = <<"b", "b">>
      /\ d = "early" => out = <<"ov", "no-ov">>
      /\ d = "late" => out = <<"no-ov", "ov">>
      /\ d = "bad" => out = <<"ov", "ov-bad">>
  BY DEF Outputs
<1> HIDE DEF out, seq, result
<1>5. seq = out
  BY <1>2, <1>3, <1>4
<1>6. CASE t = "DEPENDENCY"
  <2>1. /\ DeviceClass(t, t, "old") = "OLD"
        /\ DeviceClass(t, t, "trial") = "TRIAL"
        /\ DeviceClass(t, t, "final") = "FINAL"
    BY <1>6 DEF DeviceClass, Behaviours
  <2>2. /\ d = "old" => result.class = "OLD"
        /\ d = "trial" => result.class = "TRIAL"
        /\ d = "final" => result.class = "FINAL"
    BY <1>2, <1>4, <1>5, <1>6 DEF SubcClass
  <2> QED BY <1>3, <1>6, <2>1, <2>2 DEF result
<1>7. CASE t = "OVERFLOW"
  <2>1. /\ DeviceClass(t, t, "early") = <<1, 0>>
        /\ DeviceClass(t, t, "late") = <<0, 1>>
        /\ DeviceClass(t, t, "bad") = <<1, 1>>
    BY <1>7 DEF DeviceClass, Behaviours
  <2>2. /\ d = "early" => result.class = <<1, 0>>
        /\ d = "late" => result.class = <<0, 1>>
        /\ d = "bad" => result.class = <<1, 1>>
    BY <1>2, <1>4, <1>5, <1>7 DEF SubcClass, Ov
  <2> QED BY <1>3, <1>7, <2>1, <2>2 DEF result
<1> QED BY <1>6, <1>7

\* The length of a concatenation.
LEMMA Lengths ==
  ASSUME NEW S, NEW u \in Seq(S), NEW v \in Seq(S)
  PROVE  u \o v \in Seq(S) /\ Len(u \o v) = Len(u) + Len(v)
  OBVIOUS

\* The words of the two experiments on the absent cells.
CellWords == {"start", "zero", "absent0", "middle", "one", "absent1", "end", "scan", "absent"}

\* The read experiment puts out four words for each absent cell, and three more.
LEMMA ReadWordsLength == Len(ReadWords) = 4 * AbsentCount + 3
<1> DEFINE zeros == [i \in 1..(AbsentCount * 2) |-> <<"zero", "absent0">>[((i - 1) % 2) + 1]]
           ones == [i \in 1..(AbsentCount * 2) |-> <<"one", "absent1">>[((i - 1) % 2) + 1]]
<1>1. ReadWords = <<"start">> \o zeros \o <<"middle">> \o ones \o <<"end">>
  BY DEF ReadWords, Repeat
<1>2. AbsentCount \in Nat
  BY CaptureAssumption
<1>3. \A i \in 1..(AbsentCount * 2) : (i - 1) % 2 = 0 \/ (i - 1) % 2 = 1
  BY <1>2
<1>4. zeros \in Seq(CellWords) /\ Len(zeros) = AbsentCount * 2
  BY <1>2, <1>3 DEF CellWords
<1>5. ones \in Seq(CellWords) /\ Len(ones) = AbsentCount * 2
  BY <1>2, <1>3 DEF CellWords
<1>6. /\ <<"start">> \in Seq(CellWords) /\ <<"middle">> \in Seq(CellWords) /\ <<"end">> \in Seq(CellWords)
      /\ Len(<<"start">>) = 1 /\ Len(<<"middle">>) = 1 /\ Len(<<"end">>) = 1
  BY DEF CellWords
<1> DEFINE a == <<"start">> b == <<"middle">> c == <<"end">>
<1>7. ReadWords = (((a \o zeros) \o b) \o ones) \o c
  BY <1>1
<1>8. a \in Seq(CellWords) /\ b \in Seq(CellWords) /\ c \in Seq(CellWords)
      /\ Len(a) = 1 /\ Len(b) = 1 /\ Len(c) = 1
  BY <1>6
<1> HIDE DEF zeros, ones, a, b, c
<1>9. a \o zeros \in Seq(CellWords) /\ Len(a \o zeros) = 1 + AbsentCount * 2
  <2>1. a \o zeros \in Seq(CellWords) /\ Len(a \o zeros) = Len(a) + Len(zeros)
    BY <1>4, <1>8, Lengths
  <2> QED BY <1>2, <1>4, <1>8, <2>1
<1>10. (a \o zeros) \o b \in Seq(CellWords) /\ Len((a \o zeros) \o b) = 2 + AbsentCount * 2
  <2> DEFINE u == a \o zeros
  <2>1. u \in Seq(CellWords) /\ Len(u) = 1 + AbsentCount * 2
    BY <1>9
  <2> HIDE DEF u
  <2>2. u \o b \in Seq(CellWords) /\ Len(u \o b) = Len(u) + Len(b)
    BY <1>8, <2>1, Lengths
  <2>3. Len(u \o b) = 2 + AbsentCount * 2
    BY <1>2, <1>8, <2>1, <2>2
  <2> QED BY <2>2, <2>3 DEF u
<1>11. ((a \o zeros) \o b) \o ones \in Seq(CellWords)
       /\ Len(((a \o zeros) \o b) \o ones) = 2 + 4 * AbsentCount
  BY <1>2, <1>5, <1>10, Lengths
<1>12. Len((((a \o zeros) \o b) \o ones) \o c) = Len(((a \o zeros) \o b) \o ones) + Len(c)
  BY <1>8, <1>11, Lengths
<1> QED BY <1>2, <1>7, <1>8, <1>11, <1>12

\* The write experiment scans every cell and puts out two words more.
LEMMA WriteWordsLength == Len(WriteWords) = ValidCount + AbsentCount + 2
<1> DEFINE scan == [i \in 1..(ValidCount * 1) |-> <<"scan">>[((i - 1) % 1) + 1]]
           absent == [i \in 1..(AbsentCount * 1) |-> <<"absent">>[((i - 1) % 1) + 1]]
           a == <<"start">> c == <<"end">>
<1>1. WriteWords = ((a \o scan) \o absent) \o c
  BY DEF WriteWords, Repeat
<1>2. AbsentCount \in Nat /\ ValidCount \in Nat
  BY CaptureAssumption
<1>3. \A i \in Nat : i % 1 = 0
  OBVIOUS
<1>4. scan \in Seq(CellWords) /\ Len(scan) = ValidCount
  BY <1>2, <1>3 DEF CellWords
<1>5. absent \in Seq(CellWords) /\ Len(absent) = AbsentCount
  BY <1>2, <1>3 DEF CellWords
<1>6. a \in Seq(CellWords) /\ c \in Seq(CellWords) /\ Len(a) = 1 /\ Len(c) = 1
  BY DEF CellWords
<1> HIDE DEF scan, absent, a, c
<1>7. a \o scan \in Seq(CellWords) /\ Len(a \o scan) = 1 + ValidCount
  BY <1>2, <1>4, <1>6, Lengths
<1>8. (a \o scan) \o absent \in Seq(CellWords)
      /\ Len((a \o scan) \o absent) = 1 + ValidCount + AbsentCount
  BY <1>2, <1>5, <1>7, Lengths
<1>9. Len(((a \o scan) \o absent) \o c) = Len((a \o scan) \o absent) + Len(c)
  BY <1>6, <1>8, Lengths
<1> QED BY <1>1, <1>2, <1>6, <1>8, <1>9

\* Every read of an absent address is judged by the word the device put out
\* after a zero and after a one.
LEMMA InvalidReadTrue ==
  ASSUME NEW run, NEW truth, FaithfulRun("invalid_read", "invalid_read", run, truth),
         ~InvalidReadRun(run).error, InvalidReadRun(run).complete
  PROVE  InvalidReadRun(run).class = DeviceClass("invalid_read", "invalid_read", truth.device)
<1> DEFINE seq == Values(run)
           d == truth.device
           out == Outputs("invalid_read", "invalid_read", d)
           half == 2 * AbsentCount + 1
           zero == IF d \in {"track", "odd"} THEN "0" ELSE "7"
           one == CASE d = "track" -> "ffff" [] d = "odd" -> "5" [] OTHER -> "7"
           length == IF d = "stop" THEN half + 1 ELSE 2 * half + 1
           result == InvalidReadRun(run)
           relation == [k \in 1..AbsentCount |->
                          Relationship(seq[1 + 2 * k], seq[2 + 2 * AbsentCount + 2 * k])]
<1>1. AbsentCount \in Nat \ {0}
  BY CaptureAssumption
<1>2. PICK v : \/ result = Result(relation, TRUE, v, TRUE) /\ Len(seq) = Len(ReadWords)
               \/ result = Result(<<>>, FALSE, v, FALSE)
  <2>1. result # Rejected
    BY DEF Rejected
  <2> QED BY <2>1 DEF InvalidReadRun
<1>3. result.class = relation /\ Len(seq) = 4 * AbsentCount + 3
  <2>1. result.complete
    OBVIOUS
  <2> HIDE DEF result, relation, seq
  <2> QED BY <1>2, <2>1, ReadWordsLength DEF Result
<1>4. d \in {"track", "fixed", "odd", "stop"}
      /\ Len(seq) <= Len(out) /\ (Len(seq) = Len(out) => seq = out)
  BY DEF FaithfulRun, Behaviours
<1>5. out = [i \in 1..length |->
               CASE i = 1 -> "31" [] i = half + 1 -> "32" [] i = 2 * half + 1 -> "3f"
                 [] i \in 2..half -> IF i % 2 = 0 THEN "0" ELSE zero
                 [] OTHER -> IF i % 2 = 1 THEN "ffff" ELSE one]
  BY DEF Outputs
<1>6. Len(out) = length /\ length \in Nat
  BY <1>1, <1>5
<1>7. d # "stop" /\ seq = out /\ length = 4 * AbsentCount + 3
  <2> HIDE DEF seq, out
  <2>1. d # "stop" /\ length = 4 * AbsentCount + 3
    BY <1>1, <1>3, <1>4, <1>6
  <2> QED BY <1>3, <1>4, <1>6, <2>1
<1>8. ASSUME NEW k \in 1..AbsentCount
      PROVE  seq[1 + 2 * k] = zero /\ seq[2 + 2 * AbsentCount + 2 * k] = one
  <2> DEFINE i == 1 + 2 * k
             j == 2 + 2 * AbsentCount + 2 * k
  <2>1. /\ i \in 1..length /\ i # 1 /\ i # half + 1 /\ i # 2 * half + 1
        /\ i \in 2..half /\ i % 2 = 1
    BY <1>1, <1>7
  <2>2. /\ j \in 1..length /\ j # 1 /\ j # half + 1 /\ j # 2 * half + 1
        /\ j \notin 2..half /\ j % 2 = 0
    BY <1>1, <1>7
  <2> HIDE DEF i, j, half, length, zero, one, out
  <2>3. out[i] = zero
    BY <1>5, <2>1
  <2>4. out[j] = one
    BY <1>5, <2>2
  <2> QED BY <1>7, <2>3, <2>4 DEF i, j
<1>9. /\ d = "track" => Relationship(zero, one) = "PREDECESSOR_TRACKING"
      /\ d = "fixed" => Relationship(zero, one) = "HISTORY_INDEPENDENT"
      /\ d = "odd" => Relationship(zero, one) = "HISTORY_DEPENDENT"
  BY DEF Relationship
<1>10. DeviceClass("invalid_read", "invalid_read", d) =
         [k \in 1..AbsentCount |-> Relationship(zero, one)]
  <2>1. Relationship(zero, one) = Behaviours("invalid_read")[d]
    BY <1>4, <1>7, <1>9 DEF Behaviours
  <2> HIDE DEF zero, one
  <2> QED BY <2>1 DEF DeviceClass
<1> QED BY <1>3, <1>8, <1>10

\* What the write experiment calls an absent cell that reads v.
StoredAs(v) == CASE v = "sentinel" -> "STORED" [] v = "0" -> "ZERO" [] OTHER -> "OTHER"

\* A complete scan names the address and the content the device wrote.
LEMMA InvalidWriteTrue ==
  ASSUME NEW s \in {"ASCENDING", "DESCENDING"}, NEW run, NEW truth,
         FaithfulRun("invalid_write", s, run, truth),
         ~InvalidWriteRun(run, s).error, InvalidWriteRun(run, s).complete
  PROVE  InvalidWriteRun(run, s).class = DeviceClass("invalid_write", s, truth.device)
<1> DEFINE seq == Values(run)
           d == truth.device
           out == Outputs("invalid_write", s, d)
           scanned == ValidCount + 1
           length == IF d = "stop" THEN scanned ELSE scanned + AbsentCount + 1
           result == InvalidWriteRun(run, s)
           scan == SubSeq(seq, 2, 1 + ValidCount)
           absent == SubSeq(seq, 2 + ValidCount, 1 + ValidCount + AbsentCount)
           class == <<{k \in DOMAIN scan : scan[k] # "0"},
                      [k \in DOMAIN absent |-> StoredAs(absent[k])]>>
<1>1. AbsentCount \in Nat \ {0} /\ ValidCount \in Nat \ {0, 1}
  BY CaptureAssumption
<1>2. PICK v : \/ result = Result(class, TRUE, v, TRUE) /\ Len(seq) = Len(WriteWords)
               \/ result = Result(<<>>, FALSE, v, FALSE)
  <2>1. result # Rejected
    BY DEF Rejected
  <2> QED BY <2>1 DEF InvalidWriteRun, StoredAs
<1>3. result.class = class /\ Len(seq) = ValidCount + AbsentCount + 2
  <2>1. result.complete
    OBVIOUS
  <2> HIDE DEF result, class, seq
  <2> QED BY <1>2, <2>1, WriteWordsLength DEF Result
<1>4. d \in {"ignored", "stored", "alias", "stop"}
      /\ Len(seq) <= Len(out) /\ (Len(seq) = Len(out) => seq = out)
  BY DEF FaithfulRun, Behaviours
<1>5. out = [i \in 1..length |->
               CASE i = 1 -> IF s = "ASCENDING" THEN "41" ELSE "42"
                 [] i \in 2..scanned -> IF d = "alias" /\ i = 2 THEN "sentinel" ELSE "0"
                 [] i \in (scanned + 1)..(scanned + AbsentCount) ->
                      IF d = "stored" THEN "sentinel" ELSE "0"
                 [] OTHER -> "4f"]
  BY DEF Outputs
<1>6. Len(out) = length /\ length \in Nat
  BY <1>1, <1>5
<1>7. d # "stop" /\ seq = out /\ length = ValidCount + AbsentCount + 2
  <2> HIDE DEF seq, out
  <2>1. d # "stop" /\ length = ValidCount + AbsentCount + 2
    BY <1>1, <1>3, <1>4, <1>6
  <2> QED BY <1>3, <1>4, <1>6, <2>1
<1>8. \A k \in 1..ValidCount : seq[k + 1] = IF d = "alias" /\ k = 1 THEN "sentinel" ELSE "0"
  <2> TAKE k \in 1..ValidCount
  <2> DEFINE i == k + 1
  <2>1. /\ i \in 1..length /\ i # 1 /\ i \in 2..scanned /\ (i = 2 <=> k = 1)
        /\ i \notin (scanned + 1)..(scanned + AbsentCount)
    BY <1>1, <1>7
  <2> HIDE DEF i, scanned, length, out
  <2>2. CASE d = "alias" /\ i = 2
    <3>1. out[i] = "sentinel"
      BY <1>5, <2>1, <2>2
    <3> QED BY <1>7, <2>1, <2>2, <3>1 DEF i
  <2>3. CASE ~(d = "alias" /\ i = 2)
    <3>1. out[i] = "0"
      BY <1>5, <2>1, <2>3
    <3> QED BY <1>7, <2>1, <2>3, <3>1 DEF i
  <2> QED BY <2>2, <2>3
<1>9. \A k \in 1..AbsentCount :
        seq[k + 1 + ValidCount] = IF d = "stored" THEN "sentinel" ELSE "0"
  <2> TAKE k \in 1..AbsentCount
  <2> DEFINE i == k + 1 + ValidCount
  <2>1. /\ i \in 1..length /\ i # 1 /\ i \notin 2..scanned
        /\ i \in (scanned + 1)..(scanned + AbsentCount)
    BY <1>1, <1>7
  <2> HIDE DEF i, scanned, length, out
  <2>2. out[i] = IF d = "stored" THEN "sentinel" ELSE "0"
    BY <1>5, <2>1
  <2> QED BY <1>7, <2>2 DEF i
<1>10. DOMAIN scan = 1..ValidCount /\ \A k \in 1..ValidCount : scan[k] = seq[k + 1]
  BY <1>1
<1>11. DOMAIN absent = 1..AbsentCount
       /\ \A k \in 1..AbsentCount : absent[k] = seq[k + 1 + ValidCount]
  BY <1>1
<1> HIDE DEF scan, absent, seq, out
<1>12. {k \in DOMAIN scan : scan[k] # "0"} = IF d = "alias" THEN {1} ELSE {}
  BY <1>1, <1>8, <1>10
<1>13. \A k \in 1..AbsentCount : StoredAs(absent[k]) = IF d = "stored" THEN "STORED" ELSE "ZERO"
  BY <1>9, <1>11 DEF StoredAs
<1>14. DeviceClass("invalid_write", s, d) =
         <<IF d = "alias" THEN {1} ELSE {},
           [k \in 1..AbsentCount |-> IF d = "stored" THEN "STORED" ELSE "ZERO"]>>
  <2> DEFINE known == Behaviours("invalid_write")[d]
  <2>1. /\ known[1] = IF d = "alias" THEN {1} ELSE {}
        /\ known[2] = IF d = "stored" THEN "STORED" ELSE "ZERO"
    <3>1. CASE d = "ignored"
      BY <3>1 DEF Behaviours
    <3>2. CASE d = "stored"
      BY <3>2 DEF Behaviours
    <3>3. CASE d = "alias"
      BY <3>3 DEF Behaviours
    <3> QED BY <1>4, <1>7, <3>1, <3>2, <3>3
  <2>2. DeviceClass("invalid_write", s, d) =
          <<known[1], [k \in 1..AbsentCount |-> known[2]]>>
    BY <1>7 DEF DeviceClass
  <2> HIDE DEF known
  <2> QED BY <2>1, <2>2
<1> QED BY <1>3, <1>11, <1>12, <1>13, <1>14

\* A complete run tells what became of the word that DMOV or LTD moved past
\* the last cell.
LEMMA BoundaryTrue ==
  ASSUME NEW s \in {"DMOV", "LTD"}, NEW run, NEW truth,
         FaithfulRun("boundary", s, run, truth),
         ~BoundaryRun(run).error, BoundaryRun(run).complete
  PROVE  BoundaryRun(run).class = DeviceClass("boundary", s, truth.device)
<1> DEFINE seq == Values(run)
           d == truth.device
           out == Outputs("boundary", s, d)
           length == IF d = "stop" THEN ValidCount ELSE ValidCount + 1
           result == BoundaryRun(run)
           full == Len(seq) = ValidCount + 1
           class == <<{k \in 1..ValidCount : seq[k] # (IF k = 1 THEN "5a" ELSE "0")},
                      seq[Len(seq)]>>
<1>1. ValidCount \in Nat \ {0, 1}
  BY CaptureAssumption
<1>2. PICK v : result = Result(IF full THEN class ELSE <<>>, full, v, full)
  <2>1. result # Rejected
    BY DEF Rejected
  <2> QED BY <2>1 DEF BoundaryRun
<1>3. result.class = class /\ Len(seq) = ValidCount + 1
  <2>1. result.complete /\ full \in BOOLEAN
    OBVIOUS
  <2> HIDE DEF result, class, full
  <2>2. full /\ result.class = class
    BY <1>2, <2>1 DEF Result
  <2> QED BY <2>2 DEF full
<1>4. d \in {"ignored", "alias", "stop"}
      /\ Len(seq) <= Len(out) /\ (Len(seq) = Len(out) => seq = out)
  BY DEF FaithfulRun, Behaviours
<1>5. out = [i \in 1..length |->
               CASE i = 1 -> "5a" [] i = ValidCount + 1 -> "7"
                 [] OTHER -> IF d = "alias" /\ i = 2 THEN "5a" ELSE "0"]
  BY DEF Outputs
<1>6. Len(out) = length /\ length \in Nat
  BY <1>1, <1>5
<1>7. d # "stop" /\ seq = out /\ length = ValidCount + 1
  <2> HIDE DEF seq, out
  <2>1. d # "stop" /\ length = ValidCount + 1
    BY <1>1, <1>3, <1>4, <1>6
  <2> QED BY <1>3, <1>4, <1>6, <2>1
<1>8. /\ seq[1] = "5a" /\ seq[ValidCount + 1] = "7"
      /\ \A k \in 2..ValidCount : seq[k] = IF d = "alias" /\ k = 2 THEN "5a" ELSE "0"
  <2>1. /\ 1 \in 1..length /\ ValidCount + 1 \in 1..length /\ ValidCount + 1 # 1
        /\ \A k \in 2..ValidCount : k \in 1..length /\ k # 1 /\ k # ValidCount + 1
    BY <1>1, <1>7
  <2> HIDE DEF length, out
  <2> QED BY <1>5, <1>7, <2>1
<1> HIDE DEF seq, out
<1>9. {k \in 1..ValidCount : seq[k] # (IF k = 1 THEN "5a" ELSE "0")} =
        IF d = "alias" THEN {2} ELSE {}
  BY <1>1, <1>8
<1>10. DeviceClass("boundary", s, d) = <<IF d = "alias" THEN {2} ELSE {}, "7">>
  BY <1>4, <1>7 DEF DeviceClass, Behaviours
<1> QED BY <1>3, <1>8, <1>9, <1>10

\* A row with a fetch, and a row without one.
BusRow(word) == [kind |-> "read", val |-> word]
NoRow == [kind |-> "idle", val |-> "none"]

\* Four rows, one after the other.
LEMMA Four ==
  ASSUME NEW w, NEW x, NEW y, NEW z
  PROVE  <<w>> \o (<<x>> \o <<y>> \o <<z>>) = <<w, x, y, z>>
<1> DEFINE S == {w, x, y, z}
           xy == <<x>> \o <<y>>
           xyz == xy \o <<z>>
           all == <<w>> \o xyz
<1> USE Joined
<1>1. xy \in Seq(S) /\ Len(xy) = 2 /\ xy[1] = x /\ xy[2] = y
  OBVIOUS
<1> HIDE DEF xy
<1>2. xyz \in Seq(S) /\ Len(xyz) = 3 /\ xyz[1] = x /\ xyz[2] = y /\ xyz[3] = z
  <2> DEFINE last == <<z>>
  <2>1. last \in Seq(S) /\ Len(last) = 1 /\ last[1] = z
    OBVIOUS
  <2> HIDE DEF last, S
  <2>2. /\ xy \o last \in Seq(S) /\ Len(xy \o last) = Len(xy) + Len(last)
        /\ \A i \in 1..Len(xy) : (xy \o last)[i] = xy[i]
        /\ \A i \in (Len(xy) + 1)..(Len(xy) + Len(last)) : (xy \o last)[i] = last[i - Len(xy)]
    BY <1>1, <2>1
  <2> QED BY <1>1, <2>1, <2>2 DEF last
<1> HIDE DEF xyz
<1>3. all \in Seq(S) /\ Len(all) = 4 /\ all[1] = w /\ all[2] = x /\ all[3] = y /\ all[4] = z
  BY <1>2
<1> HIDE DEF all
<1>4. \A i \in 1..4 : all[i] = <<w, x, y, z>>[i]
  BY <1>3
<1>5. all = [i \in 1..4 |-> all[i]]
  BY <1>3
<1>6. <<w,x,y,z>> = [i \in 1..4 |-> <<w,x,y,z>>[i]]
  OBVIOUS
<1> QED BY <1>4, <1>5, <1>6 DEF all, xyz, xy

\* The four rows from the fetch of an operation on.
LEMMA OpRows ==
  ASSUME NEW op, NEW d \in {"H1", "H2", "H3", "stall"}
  PROVE  \E x, y, z :
           /\ PushPopOp(op, d) = <<BusRow(op[1]), x, y, z>>
           /\ {x, y, z} \subseteq {NoRow, BusRow(op[2]), BusRow(op[3])}
           /\ d = "H1" => x = NoRow /\ y = BusRow(op[2])
           /\ d = "H2" => x = BusRow(op[2]) /\ y = BusRow(op[2])
           /\ d = "H3" => x = BusRow(op[2]) /\ y = BusRow(op[3])
           /\ d = "stall" => x = BusRow(op[2]) /\ y = NoRow
<1> DEFINE r(x, y, z) == <<BusRow(op[1])>> \o (<<x>> \o <<y>> \o <<z>>)
<1>1. /\ d = "H1" => PushPopOp(op, d) = r(NoRow, BusRow(op[2]), BusRow(op[3]))
      /\ d = "H2" => PushPopOp(op, d) = r(BusRow(op[2]), BusRow(op[2]), BusRow(op[3]))
      /\ d = "H3" => PushPopOp(op, d) = r(BusRow(op[2]), BusRow(op[3]), NoRow)
      /\ d = "stall" => PushPopOp(op, d) = r(BusRow(op[2]), NoRow, BusRow(op[3]))
  BY DEF PushPopOp, R, Row, BusRow, NoRow
<1>2. \A x, y, z : r(x, y, z) = <<BusRow(op[1]), x, y, z>>
  BY Four
<1> HIDE DEF r
<1>3. /\ d = "H1" => PushPopOp(op, d) = <<BusRow(op[1]), NoRow, BusRow(op[2]), BusRow(op[3])>>
      /\ d = "H2" => PushPopOp(op, d) = <<BusRow(op[1]), BusRow(op[2]), BusRow(op[2]), BusRow(op[3])>>
      /\ d = "H3" => PushPopOp(op, d) = <<BusRow(op[1]), BusRow(op[2]), BusRow(op[3]), NoRow>>
      /\ d = "stall" => PushPopOp(op, d) = <<BusRow(op[1]), BusRow(op[2]), NoRow, BusRow(op[3])>>
  BY <1>1, <1>2
<1>4. d = "H1" \/ d = "H2" \/ d = "H3" \/ d = "stall"
  OBVIOUS
<1> QED BY <1>3, <1>4

\* The rows of the two operations of the PUSH/POP fixture.
LEMMA PushPopRows ==
  ASSUME NEW d \in {"H1", "H2", "H3", "stall"}
  PROVE  LET stream == PushPopStream(d) IN
         /\ \A i \in 1..8 : i \in DOMAIN stream
         /\ stream[1] = BusRow("push") /\ stream[5] = BusRow("pop")
         /\ d = "H1" => /\ stream[2] = NoRow /\ stream[3] = BusRow("push+1")
                        /\ stream[6] = NoRow /\ stream[7] = BusRow("pop+1")
         /\ d = "H2" => /\ stream[2] = BusRow("push+1") /\ stream[3] = BusRow("push+1")
                        /\ stream[6] = BusRow("pop+1") /\ stream[7] = BusRow("pop+1")
         /\ d = "H3" => /\ stream[2] = BusRow("push+1") /\ stream[3] = BusRow("push+2")
                        /\ stream[6] = BusRow("pop+1") /\ stream[7] = BusRow("pop+2")
         /\ d = "stall" => /\ stream[2] = BusRow("push+1") /\ stream[3] = NoRow
                           /\ stream[6] = BusRow("pop+1") /\ stream[7] = NoRow
<1> DEFINE S == [kind : {"read", "idle"},
                 val : {"push", "push+1", "push+2", "pop", "pop+1", "pop+2", "loop", "none"}]
           u == PushPopOp(Push, d)
           v == PushPopOp(Pop, d)
           w == Repeat(4, LAMBDA i : R("loop"))
<1>1. PushPopStream(d) = (u \o v) \o w
  BY DEF PushPopStream
<1>2. PICK x, y, z :
        /\ u = <<BusRow("push"), x, y, z>>
        /\ {x, y, z} \subseteq {NoRow, BusRow("push+1"), BusRow("push+2")}
        /\ d = "H1" => x = NoRow /\ y = BusRow("push+1")
        /\ d = "H2" => x = BusRow("push+1") /\ y = BusRow("push+1")
        /\ d = "H3" => x = BusRow("push+1") /\ y = BusRow("push+2")
        /\ d = "stall" => x = BusRow("push+1") /\ y = NoRow
  <2>1. Push[1] = "push" /\ Push[2] = "push+1" /\ Push[3] = "push+2"
    BY DEF Push
  <2>2. PICK x, y, z :
           /\ PushPopOp(Push, d) = <<BusRow(Push[1]), x, y, z>>
           /\ {x, y, z} \subseteq {NoRow, BusRow(Push[2]), BusRow(Push[3])}
           /\ d = "H1" => x = NoRow /\ y = BusRow(Push[2])
           /\ d = "H2" => x = BusRow(Push[2]) /\ y = BusRow(Push[2])
           /\ d = "H3" => x = BusRow(Push[2]) /\ y = BusRow(Push[3])
           /\ d = "stall" => x = BusRow(Push[2]) /\ y = NoRow
    BY OpRows
  <2> WITNESS x, y, z
  <2> QED BY <2>1, <2>2
<1>3. PICK a, b, c :
        /\ v = <<BusRow("pop"), a, b, c>>
        /\ {a, b, c} \subseteq {NoRow, BusRow("pop+1"), BusRow("pop+2")}
        /\ d = "H1" => a = NoRow /\ b = BusRow("pop+1")
        /\ d = "H2" => a = BusRow("pop+1") /\ b = BusRow("pop+1")
        /\ d = "H3" => a = BusRow("pop+1") /\ b = BusRow("pop+2")
        /\ d = "stall" => a = BusRow("pop+1") /\ b = NoRow
  <2>1. Pop[1] = "pop" /\ Pop[2] = "pop+1" /\ Pop[3] = "pop+2"
    BY DEF Pop
  <2>2. PICK a, b, c :
           /\ PushPopOp(Pop, d) = <<BusRow(Pop[1]), a, b, c>>
           /\ {a, b, c} \subseteq {NoRow, BusRow(Pop[2]), BusRow(Pop[3])}
           /\ d = "H1" => a = NoRow /\ b = BusRow(Pop[2])
           /\ d = "H2" => a = BusRow(Pop[2]) /\ b = BusRow(Pop[2])
           /\ d = "H3" => a = BusRow(Pop[2]) /\ b = BusRow(Pop[3])
           /\ d = "stall" => a = BusRow(Pop[2]) /\ b = NoRow
    BY OpRows
  <2> WITNESS a, b, c
  <2> QED BY <2>1, <2>2
<1>5. u \in Seq(S) /\ Len(u) = 4 /\ v \in Seq(S) /\ Len(v) = 4
  <2>1. /\ NoRow \in S /\ BusRow("push") \in S /\ BusRow("push+1") \in S /\ BusRow("push+2") \in S
        /\ BusRow("pop") \in S /\ BusRow("pop+1") \in S /\ BusRow("pop+2") \in S
    BY DEF BusRow, NoRow
  <2> HIDE DEF S, u, v
  <2> QED BY <1>2, <1>3, <2>1
<1>4. w \in Seq(S)
  BY DEF Repeat, R
<1> HIDE DEF S, u, v, w
<1>7. /\ u \o v \in Seq(S) /\ Len(u \o v) = 8
      /\ \A i \in 1..4 : (u \o v)[i] = u[i]
      /\ \A i \in 5..8 : (u \o v)[i] = v[i - 4]
  <2>1. /\ u \o v \in Seq(S) /\ Len(u \o v) = Len(u) + Len(v)
        /\ \A i \in 1..Len(u) : (u \o v)[i] = u[i]
        /\ \A i \in (Len(u) + 1)..(Len(u) + Len(v)) : (u \o v)[i] = v[i - Len(u)]
    BY <1>5, Joined
  <2> QED BY <1>5, <2>1
<1> DEFINE uv == u \o v
<1>8. /\ uv \in Seq(S) /\ Len(uv) = 8
      /\ uv[1] = u[1] /\ uv[2] = u[2] /\ uv[3] = u[3]
      /\ uv[5] = v[1] /\ uv[6] = v[2] /\ uv[7] = v[3]
  <2> HIDE DEF uv
  <2>1. /\ uv \in Seq(S) /\ Len(uv) = 8
        /\ \A i \in 1..4 : uv[i] = u[i]
        /\ \A i \in 5..8 : uv[i] = v[i - 4]
    BY <1>7 DEF uv
  <2>2. uv[1] = u[1] /\ uv[2] = u[2] /\ uv[3] = u[3]
    BY <2>1
  <2>3. uv[5] = v[5 - 4] /\ uv[6] = v[6 - 4] /\ uv[7] = v[7 - 4]
    BY <2>1
  <2> QED BY <2>1, <2>2, <2>3
<1> HIDE DEF uv
<1>9. /\ uv \o w \in Seq(S) /\ Len(uv \o w) = Len(uv) + Len(w)
      /\ \A i \in 1..Len(uv) : (uv \o w)[i] = uv[i]
  <2>1. uv \in Seq(S)
    BY <1>8
  <2> QED BY <1>4, <2>1, Joined
<1> DEFINE stream == uv \o w
<1>10. /\ \A i \in 1..8 : i \in DOMAIN stream
       /\ stream[1] = u[1] /\ stream[2] = u[2] /\ stream[3] = u[3]
       /\ stream[5] = v[1] /\ stream[6] = v[2] /\ stream[7] = v[3]
  <2>1. Len(uv) = 8 /\ Len(w) \in Nat
    BY <1>4, <1>8
  <2>2. DOMAIN stream = 1..Len(stream) /\ \A i \in 1..8 : stream[i] = uv[i]
    BY <1>9, <2>1
  <2>3. \A i \in 1..8 : i \in DOMAIN stream
    BY <1>9, <2>1, <2>2
  <2> QED BY <1>8, <2>2, <2>3
<1>11. PushPopStream(d) = stream
  BY <1>1 DEF uv
<1> HIDE DEF stream
<1> QED BY <1>2, <1>3, <1>10, <1>11

\* A single row of a fetch is the first row that is one.
LEMMA TheRead ==
  ASSUME NEW run, NEW w, IsFiniteSet(DOMAIN run), Cardinality(Reads(run, w)) = 1,
         NEW i \in Reads(run, w)
  PROVE  (CHOOSE j \in Reads(run, w) : TRUE) = i
<1>1. IsFiniteSet(Reads(run, w))
  BY FS_Subset DEF Reads
<1>2. \E x : Reads(run, w) = {x}
  BY <1>1, FS_Singleton
<1> QED BY <1>2

\* Without a missing row the two intervals after each operation are those of
\* the device.
LEMMA PushPopTrue ==
  ASSUME NEW run, NEW truth, FaithfulRun("push_pop", "push_pop", run, truth),
         IsFiniteSet(DOMAIN run), truth.dropped = {}, ~PushPopRun(run).error
  PROVE  PushPopRun(run).class = DeviceClass("push_pop", "push_pop", truth.device)
<1> DEFINE d == truth.device
           stream == PushPopStream(d)
           known == Behaviours("push_pop")[d]
           result == PushPopRun(run)
           Is(i, w) == run[i].kind = "read" /\ run[i].val = w
<1>1. d \in {"H1", "H2", "H3", "stall"}
  BY DEF FaithfulRun, Behaviours
<1>2. \A i \in DOMAIN stream : i \in DOMAIN run /\ run[i].kind = stream[i].kind
                               /\ run[i].val = stream[i].val
  BY DEF FaithfulRun, Stream
<1>3. /\ Cardinality(Reads(run, "push")) = 1 /\ Cardinality(Reads(run, "pop")) = 1
      /\ result.class = <<PushPopClass(run, Push), PushPopClass(run, Pop)>>
  <2>1. result # Rejected
    BY DEF Rejected
  <2>2. \A op \in {Push, Pop} : Cardinality(Reads(run, op[1])) = 1
    BY <2>1 DEF PushPopRun
  <2> QED BY <2>1, <2>2 DEF PushPopRun, Result, Push, Pop
<1>4. /\ 1 \in Reads(run, "push") /\ 5 \in Reads(run, "pop")
  BY <1>1, <1>2, PushPopRows DEF Reads, BusRow
<1>5. /\ (CHOOSE j \in Reads(run, "push") : TRUE) = 1
      /\ (CHOOSE j \in Reads(run, "pop") : TRUE) = 5
  BY <1>3, <1>4, TheRead
<1>6. /\ d = "H1" => run[2].kind = "idle" /\ Is(3, "push+1") /\ run[6].kind = "idle" /\ Is(7, "pop+1")
      /\ d = "H2" => Is(2, "push+1") /\ Is(3, "push+1") /\ Is(6, "pop+1") /\ Is(7, "pop+1")
      /\ d = "H3" => Is(2, "push+1") /\ Is(3, "push+2") /\ Is(6, "pop+1") /\ Is(7, "pop+2")
      /\ d = "stall" => Is(2, "push+1") /\ run[3].kind = "idle" /\ Is(6, "pop+1") /\ run[7].kind = "idle"
  BY <1>1, <1>2, PushPopRows DEF BusRow, NoRow
<1>7. /\ d = "H1" => known = "H1"
      /\ d = "H2" => known = "H2"
      /\ d = "H3" => known = "H3"
      /\ d = "stall" => known = "UNCLASSIFIED"
  BY DEF Behaviours
<1> HIDE DEF known, d
<1>8. PushPopClass(run, Push) = known
  <2>1. Push[1] = "push" /\ Push[2] = "push+1" /\ Push[3] = "push+2"
    BY DEF Push
  <2>2. PushPopClass(run, Push) =
          CASE run[1 + 1].kind = "idle" /\ Is(1 + 2, "push+1") -> "H1"
            [] Is(1 + 1, "push+1") /\ Is(1 + 2, "push+1") -> "H2"
            [] Is(1 + 1, "push+1") /\ Is(1 + 2, "push+2") -> "H3"
            [] OTHER -> "UNCLASSIFIED"
    BY <1>5, <2>1 DEF PushPopClass
  <2> QED BY <1>1, <1>6, <1>7, <2>2
<1>10. PushPopClass(run, Pop) = known
  <2>1. Pop[1] = "pop" /\ Pop[2] = "pop+1" /\ Pop[3] = "pop+2"
    BY DEF Pop
  <2>2. PushPopClass(run, Pop) =
          CASE run[5 + 1].kind = "idle" /\ Is(5 + 2, "pop+1") -> "H1"
            [] Is(5 + 1, "pop+1") /\ Is(5 + 2, "pop+1") -> "H2"
            [] Is(5 + 1, "pop+1") /\ Is(5 + 2, "pop+2") -> "H3"
            [] OTHER -> "UNCLASSIFIED"
    BY <1>5, <2>1 DEF PushPopClass
  <2> QED BY <1>1, <1>6, <1>7, <2>2
<1>9. DeviceClass("push_pop", "push_pop", d) = <<known, known>>
  BY DEF DeviceClass, known, d
<1> QED BY <1>3, <1>8, <1>9, <1>10 DEF d

\* A reset keeps a word of the bench's device or clears it.
LEMMA ResetDeviceClass ==
  ASSUME NEW s, NEW d
  PROVE  DeviceClass("reset", s, d) = [i \in {1, 2} |-> Seen(s, d, i)]
<1>1. \A i \in {1, 2} : After(s, d)[i] = Before(s)[i] \/ After(s, d)[i] = "0"
  BY DEF After
<1>2. \A i \in {1, 2} : Retention(Before(s)[i], After(s, d)[i]) =
        IF After(s, d)[i] = Before(s)[i] THEN "RETAINED" ELSE "FORCED_ZERO"
  BY <1>1 DEF Retention
<1>3. DOMAIN StateWords = {1, 2}
  BY DEF StateWords
<1> QED BY <1>2, <1>3 DEF DeviceClass, Seen

-----------------------------------------------------------------------------
(* The report. *)

(* A report that is ready for review names what the device did in every run   *)
(* of the rows it parsed (build_report of the capture tools), whatever        *)
(* sidecar was written and whoever replaced a file between two accesses; it   *)
(* says nothing of the bytes whose digest is printed.  The recorder is that   *)
(* of RecorderAssumption: it may lose any rows, but at most one output of the *)
(* interrupt fixture, and PUSH/POP is only claimed where it lost none.        *)
THEOREM ReportCorrect == CampaignSpec => []SoundReport
<1>1. CampaignInv => SoundReport
  <2> SUFFICES ASSUME CampaignInv, report # Absent, ~report.error, report.ready,
                      NEW s \in SidesOf(tool), tool = "push_pop" => Lossless(s),
                      NEW k \in Names(s)
               PROVE  report.class[s][k] = DeviceClass(tool, s, seen[s].truth[k].device)
    BY DEF SoundReport
  <2> DEFINE r == [x \in SidesOf(tool) |-> Analysis(tool, x, seen[x], meta[x])]
             results == Analysis(tool, s, seen[s], meta[s])
             rows == seen[s].rows
             truth == seen[s].truth[k]
  <2>1. /\ Accepted(tool, s, seen[s], meta[s]) /\ Ready(r) /\ r[s] = results
        /\ \A j \in DOMAIN results : report.class[s][j] = results[j].class
    BY FinishedReport
  <2>2. /\ k \in DOMAIN rows /\ FaithfulRun(tool, s, rows[k], truth)
        /\ \A j \in DOMAIN results : ~results[j].error
    BY <2>1 DEF Accepted, Faithful, Names
  <2>15. rows \in Seq(Seq([n : Nat, kind : STRING, val : STRING, pin : {0, 1}]))
    BY <2>1 DEF Accepted, Faithful
  <2> HIDE DEF r
  <2>16. 1 \in DOMAIN rows /\ IsFiniteSet(DOMAIN rows[k])
    <3> HIDE DEF rows
    <3>1. DOMAIN rows = 1..Len(rows) /\ Len(rows) \in Nat
      BY <2>15
    <3>2. 1 \in DOMAIN rows
      BY <2>2, <3>1
    <3>3. rows[k] \in Seq([n : Nat, kind : STRING, val : STRING, pin : {0, 1}])
      BY <2>2, <2>15
    <3>4. DOMAIN rows[k] = 1..Len(rows[k]) /\ Len(rows[k]) \in Nat
      BY <3>3
    <3>5. \A m \in Nat : IsFiniteSet(1..m)
      BY FS_Interval
    <3> QED BY <3>2, <3>4, <3>5
  <2>3. SUFFICES k \in DOMAIN results /\ results[k].class = DeviceClass(tool, s, truth.device)
    BY <2>1
  <2>4. tool \in Tools \ {"invalid_write", "boundary", "reset"} => s = tool
    BY Fixtures DEF SidesOf, ToSet
  <2>5. /\ tool = "invalid_write" => s \in {"ASCENDING", "DESCENDING"}
        /\ tool = "boundary" => s \in {"DMOV", "LTD"}
        /\ tool = "reset" => s \in {"SET", "CLEAR"}
    BY Fixtures DEF SidesOf, ToSet
  <2>6. CASE tool = "push_pop"
    <3>1. DOMAIN results = DOMAIN rows /\ results[k] = PushPopRun(rows[k])
      BY <2>2, <2>6 DEF Analysis
    <3>2. truth.dropped = {}
      BY <2>6 DEF Lossless
    <3>3. s = "push_pop"
      BY <2>4, <2>6 DEF Tools, Sides
    <3> HIDE DEF results, rows, truth
    <3>4. FaithfulRun("push_pop", "push_pop", rows[k], truth) /\ ~PushPopRun(rows[k]).error
      BY <2>2, <2>6, <3>1, <3>3
    <3>5. PushPopRun(rows[k]).class = DeviceClass("push_pop", "push_pop", truth.device)
      BY <2>16, <3>2, <3>4, PushPopTrue
    <3> QED BY <2>2, <2>6, <3>1, <3>3, <3>5
  <2>7. CASE tool = "simultaneous"
    <3>1. DOMAIN results = DOMAIN rows
          /\ \A j \in DOMAIN rows : results[j] = SimultaneousRun(rows[j])
      BY <2>2, <2>7 DEF Analysis
    <3>2. s = "simultaneous"
      BY <2>4, <2>7 DEF Tools, Sides
    <3>3. Same(r[s]) /\ r[s][1].resolved
      BY <2>1, <2>7, <3>2 DEF Ready, SimultaneousReady
    <3>4. 1 \in DOMAIN rows /\ results[k].class = results[1].class /\ results[1].resolved
      BY <2>1, <2>2, <2>16, <3>1, <3>3 DEF Same
    <3> HIDE DEF results, rows, truth
    <3>5. /\ results[1] = SimultaneousRun(rows[1]) /\ ~SimultaneousRun(rows[1]).error
          /\ results[k] = SimultaneousRun(rows[k]) /\ ~SimultaneousRun(rows[k]).error
      BY <2>2, <3>1, <3>4
    <3>6. SimultaneousRun(rows[k]).resolved
      BY <3>4, <3>5, SimultaneousResolved
    <3>7. FaithfulRun("simultaneous", "simultaneous", rows[k], truth)
      BY <2>2, <2>7, <3>2
    <3> QED BY <2>2, <2>7, <3>1, <3>2, <3>5, <3>6, <3>7, SimultaneousTrue
  <2>8. CASE tool = "lst_arp"
    <3>1. DOMAIN results = DOMAIN rows
          /\ \A j \in DOMAIN rows : results[j] = LstArpRun(rows[j])
      BY <2>2, <2>8 DEF Analysis
    <3>2. s = "lst_arp"
      BY <2>4, <2>8 DEF Tools, Sides
    <3>3. Same(r[s]) /\ r[s][1].resolved
      BY <2>1, <2>8, <3>2 DEF Ready, LstArpReady
    <3>4. 1 \in DOMAIN rows /\ results[k].class = results[1].class /\ results[1].resolved
      BY <2>1, <2>2, <2>16, <3>1, <3>3 DEF Same
    <3> HIDE DEF results, rows, truth
    <3>5. /\ results[1] = LstArpRun(rows[1]) /\ ~LstArpRun(rows[1]).error
          /\ results[k] = LstArpRun(rows[k]) /\ ~LstArpRun(rows[k]).error
      BY <2>2, <3>1, <3>4
    <3>6. LstArpRun(rows[k]).resolved
      BY <3>4, <3>5, LstArpResolved
    <3>7. FaithfulRun("lst_arp", "lst_arp", rows[k], truth)
      BY <2>2, <2>8, <3>2
    <3> QED BY <2>2, <2>8, <3>1, <3>2, <3>5, <3>6, <3>7, LstArpTrue
  <2>9. CASE tool = "dint"
    <3>1. DOMAIN results = DOMAIN rows
          /\ \A j \in DOMAIN rows : results[j] = DintRun(rows[j], seen[s].aux[j])
      BY <2>2, <2>9 DEF Analysis
    <3>2. s = "dint"
      BY <2>4, <2>9 DEF Tools, Sides
    <3>3. Same(r[s]) /\ r[s][1].resolved
      BY <2>1, <2>9, <3>2 DEF Ready, DintReady
    <3>4. 1 \in DOMAIN rows /\ results[k].class = results[1].class /\ results[1].resolved
      BY <2>1, <2>2, <2>16, <3>1, <3>3 DEF Same
    <3> HIDE DEF results, rows, truth
    <3> DEFINE first == DintRun(rows[1], seen[s].aux[1])
               run == DintRun(rows[k], seen[s].aux[k])
    <3>5. results[1] = first /\ ~first.error /\ results[k] = run /\ ~run.error
      BY <2>2, <3>1, <3>4
    <3>6. (first.resolved <=> first.class # "OTHER") /\ (run.resolved <=> run.class # "OTHER")
      BY <3>5, DintResolved
    <3>7. FaithfulRun("dint", "dint", rows[k], truth)
      BY <2>2, <2>9, <3>2
    <3>8. run.resolved
      BY <3>4, <3>5, <3>6
    <3>9. run.class = DeviceClass("dint", "dint", truth.device)
      BY <3>5, <3>7, <3>8, DintTrue
    <3> HIDE DEF first, run
    <3> QED BY <2>2, <2>9, <3>1, <3>2, <3>5, <3>9
  <2>10. CASE tool \in {"DEPENDENCY", "OVERFLOW"}
    <3>1. s = tool
      BY <2>4, <2>10 DEF Tools, Sides
    <3>2. DOMAIN results = DOMAIN rows /\ results[k] = SubcRun(rows[k], tool)
      BY <2>2, <2>10, <3>1 DEF Analysis
    <3> HIDE DEF results, rows, truth
    <3>3. FaithfulRun(tool, tool, rows[k], truth) /\ ~SubcRun(rows[k], tool).error
      BY <2>2, <3>1, <3>2
    <3>4. SubcRun(rows[k], tool).class = DeviceClass(tool, tool, truth.device)
      BY <2>10, <3>3, SubcTrue
    <3> QED BY <2>2, <3>1, <3>2, <3>4
  <2>11. CASE tool = "invalid_read"
    <3>1. DOMAIN results = DOMAIN rows /\ results[k] = InvalidReadRun(rows[k])
      BY <2>2, <2>11 DEF Analysis
    <3>2. s = "invalid_read"
      BY <2>4, <2>11 DEF Tools, Sides
    <3>3. Complete(r[s])
      BY <2>1, <2>11, <3>2 DEF Ready, InvalidReadReady
    <3>4. results[k].complete
      BY <2>1, <2>2, <3>1, <3>3 DEF Complete
    <3> HIDE DEF results, rows, truth
    <3>5. /\ FaithfulRun("invalid_read", "invalid_read", rows[k], truth)
          /\ ~InvalidReadRun(rows[k]).error /\ InvalidReadRun(rows[k]).complete
      BY <2>2, <2>11, <3>1, <3>2, <3>4
    <3>6. InvalidReadRun(rows[k]).class
            = DeviceClass("invalid_read", "invalid_read", truth.device)
      BY <3>5, InvalidReadTrue
    <3> QED BY <2>2, <2>11, <3>1, <3>2, <3>6
  <2>12. CASE tool = "invalid_write"
    <3>1. DOMAIN results = DOMAIN rows /\ results[k] = InvalidWriteRun(rows[k], s)
      BY <2>2, <2>12 DEF Analysis
    <3>2. Complete(r[s])
      BY <2>1, <2>12 DEF Ready, InvalidWriteReady
    <3>3. results[k].complete
      BY <2>1, <2>2, <3>1, <3>2 DEF Complete
    <3> HIDE DEF results, rows, truth
    <3>4. /\ FaithfulRun("invalid_write", s, rows[k], truth)
          /\ ~InvalidWriteRun(rows[k], s).error /\ InvalidWriteRun(rows[k], s).complete
      BY <2>2, <2>12, <3>1, <3>3
    <3>5. InvalidWriteRun(rows[k], s).class = DeviceClass("invalid_write", s, truth.device)
      BY <2>5, <2>12, <3>4, InvalidWriteTrue
    <3> QED BY <2>2, <2>12, <3>1, <3>5
  <2>13. CASE tool = "boundary"
    <3>1. DOMAIN results = DOMAIN rows /\ results[k] = BoundaryRun(rows[k])
      BY <2>2, <2>13 DEF Analysis
    <3>2. Complete(r[s])
      BY <2>1, <2>13 DEF Ready, BoundaryReady
    <3>3. results[k].complete
      BY <2>1, <2>2, <3>1, <3>2 DEF Complete
    <3> HIDE DEF results, rows, truth
    <3>4. /\ FaithfulRun("boundary", s, rows[k], truth)
          /\ ~BoundaryRun(rows[k]).error /\ BoundaryRun(rows[k]).complete
      BY <2>2, <2>13, <3>1, <3>3
    <3>5. BoundaryRun(rows[k]).class = DeviceClass("boundary", s, truth.device)
      BY <2>5, <2>13, <3>4, BoundaryTrue
    <3> QED BY <2>2, <2>13, <3>1, <3>5
  <2>14. CASE tool = "reset"
    <3>1. /\ Coverage(s, results) /\ Len(results) = Len(rows)
          /\ Complete(results) /\ Valid(results)
      BY <2>1, <2>14 DEF Ready, ResetReady
    <3>2. k \in DOMAIN results
          /\ results[k].class = [i \in {1, 2} |-> Seen(s, truth.device, i)]
      BY <2>1, <2>5, <2>14, <3>1, ResetSideTrue
    <3>3. DeviceClass("reset", s, truth.device) =
            [i \in {1, 2} |-> Seen(s, truth.device, i)]
      BY ResetDeviceClass
    <3> QED BY <2>14, <3>2, <3>3
  <2> QED BY <2>6, <2>7, <2>8, <2>9, <2>10, <2>11, <2>12, <2>13, <2>14 DEF CampaignInv, Tools, Sides
<1> QED BY <1>1, CampaignInvariant, PTL
=============================================================================
