----------------------------- MODULE References -----------------------------
(***************************************************************************)
(* The reference cache: scripts/fetch_references.py downloads the sources  *)
(* of the manifest, scripts/verify_reference_hashes.py compares the cached *)
(* files with the digests the manifest pins.  Several fetchers may run at  *)
(* once, each may be killed between two steps, the server may fail or send *)
(* something else, and a file on the disk may rot or be deleted.  A digest *)
(* is identified with the bytes it is the digest of.                       *)
(***************************************************************************)
EXTENDS Naturals, FiniteSets

CONSTANTS
  Sources,     \* the enabled sources of the manifest
  Pin,         \* Pin[s]: the bytes whose digest is recorded, or Nothing
  MayCommit,   \* the sources whose bytes may be committed
  Served,      \* what the server may answer: whole, truncated, other bytes
  Nothing,     \* no file, no digest
  Fetchers     \* concurrent runs of fetch_references.py

ASSUME ReferenceAssumption ==
  /\ Pin \in [Sources -> Served \cup {Nothing}]
  /\ MayCommit \subseteq Sources
  /\ Nothing \notin Served

VARIABLES
  cache,      \* destination of each source: bytes, or Nothing
  job,        \* each fetcher: what it is doing, on which source, its temporary
  rotten      \* sources whose file was damaged on the disk (history)

refVars == <<cache, job, rotten>>

Idle == [at |-> "idle", src |-> Nothing, temp |-> Nothing]

RefTypeOK ==
  /\ cache \in [Sources -> Served \cup {Nothing}]
  /\ job \in [Fetchers -> [at : {"idle", "absent", "downloaded"},
                           src : Sources \cup {Nothing},
                           temp : Served \cup {Nothing}]]
  /\ rotten \subseteq Sources

RefInit ==
  /\ cache = [s \in Sources |-> Nothing]
  /\ job = [f \in Fetchers |-> Idle]
  /\ rotten = {}

Matches(s, bytes) == Pin[s] = Nothing \/ bytes = Pin[s]

\* An existing destination is reported, verified or not, and never replaced:
\* only an absent one is fetched.
CheckDestination(f, s) ==
  /\ job[f] = Idle
  /\ job' = IF cache[s] = Nothing
              THEN [job EXCEPT ![f] = [@ EXCEPT !.at = "absent", !.src = s]]
              ELSE job
  /\ UNCHANGED <<cache, rotten>>

\* The answer goes to a temporary file beside the destination.
Download(f) ==
  /\ job[f].at = "absent"
  /\ \E bytes \in Served :
       job' = [job EXCEPT ![f].at = "downloaded", ![f].temp = bytes]
  /\ UNCHANGED <<cache, rotten>>

\* Timeout, redirection, content type or network error, or the process is
\* killed: the destination is untouched (a killed run leaves its temporary).
Abandon(f) ==
  /\ job[f].at # "idle"
  /\ job' = [job EXCEPT ![f] = Idle]
  /\ UNCHANGED <<cache, rotten>>

\* mutant: the temporary replaces the destination before its digest is checked
InstallUnchecked(f) ==
  /\ job[f].at = "downloaded"
  /\ cache' = [cache EXCEPT ![job[f].src] = job[f].temp]
  /\ job' = [job EXCEPT ![f] = Idle]
  /\ UNCHANGED rotten

\* The digest of the temporary is compared before it replaces the destination.
Install(f) ==
  /\ job[f].at = "downloaded"
  /\ cache' = IF Matches(job[f].src, job[f].temp)
                THEN [cache EXCEPT ![job[f].src] = job[f].temp]
                ELSE cache
  /\ job' = [job EXCEPT ![f] = Idle]
  /\ UNCHANGED rotten

\* The disk.
Damage(s) ==
  /\ cache[s] # Nothing
  /\ cache' \in {[cache EXCEPT ![s] = b] : b \in Served}
  /\ rotten' = rotten \cup {s}
  /\ UNCHANGED job

Delete(s) ==
  /\ cache[s] # Nothing
  /\ cache' = [cache EXCEPT ![s] = Nothing]
  /\ rotten' = rotten \ {s}
  /\ UNCHANGED job

RefNext ==
  \/ \E f \in Fetchers : \/ \E s \in Sources : CheckDestination(f, s)
                         \/ Download(f) \/ Abandon(f) \/ Install(f)
  \/ \E s \in Sources : Damage(s) \/ Delete(s)

RefSpec == RefInit /\ [][RefNext]_refVars

\* verify_reference_hashes.py: missing files count unless --allow-missing.
Verified(allowMissing) ==
  \A s \in Sources : Pin[s] # Nothing =>
    IF cache[s] = Nothing THEN allowMissing ELSE cache[s] = Pin[s]

-----------------------------------------------------------------------------
\* Whatever the server sends, the other fetchers do and when a run is killed,
\* a pinned source is absent or whole unless the disk damaged it; a damaged one
\* is not repaired behind the back of the verifier (download_one installs a
\* temporary only after its digest, and only where it found no file).  So
\* verify_reference_hashes.py --allow-missing only ever blames the disk.
CacheIntact ==
  /\ \A s \in Sources : Pin[s] # Nothing /\ s \notin rotten
                            => cache[s] \in {Nothing, Pin[s]}
  /\ rotten = {} => Verified(TRUE)
=============================================================================
