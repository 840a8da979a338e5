----------------------------- MODULE MCRelease -----------------------------
(* One small repository: a good tree, one whose checklist lags behind its    *)
(* inventory, one that holds a copy of a source that may not be committed.   *)
EXTENDS Release, TLC

MCPin == [manual |-> "manual", errata |-> "none"]
MCCommit == {"errata"}
MCArea == [LICENSE |-> "top", table |-> "generated", gen |-> "top",
           keep |-> "build", copy |-> "third_party", image |-> "top"]

Good ==
  [bytes |-> [LICENSE |-> "mit", table |-> "table", gen |-> "gen",
              keep |-> "empty", image |-> "image"],
   irregular |-> {}, license |-> "LICENSE",
   placeholders |-> {"keep"}, artifacts |-> {},
   external |-> [n \in {} |-> FALSE],
   generated |-> [table |-> [generator |-> "gen", inputs |-> {"LICENSE"},
                             marked |-> TRUE]],
   canonical |-> {}, binary |-> {"image"},
   binaries |-> [image |-> [approved |-> TRUE, sha |-> "image"]],
   criteria |-> [lint |-> [status |-> "PARTIAL", evidence |-> {"gen"},
                           commands |-> {"make lint"}, blockers |-> {"REL-001"}]],
   checklist |-> [lint |-> "PARTIAL"],
   targets |-> {"make lint"}, open |-> {"REL-001"}, ready |-> FALSE,
   backlog |-> TRUE, tracked |-> {"LICENSE", "table"}, documents |-> {},
   broken |-> {}]

Stale == [Good EXCEPT !.checklist = [lint |-> "RELEASE_QUALIFIED"],
                      !.ready = TRUE]
Copied == [Good EXCEPT !.bytes = ("copy" :> "manual") @@ Good.bytes]

MCTree == [k1 |-> Good, k2 |-> Stale]
MCEdits == {Good, Copied}

\* The cache and the receipts share no variable: they are explored one after
\* the other, never in their product.
MCInit == RefInit /\ ReleaseInit
MCNext ==
  \/ RefNext /\ head = "k1" /\ work = Good /\ dir = NoDir
       /\ (\A w \in Writers : writer[w] = Resting) /\ UNCHANGED releaseVars
  \/ ReleaseNext /\ (\A s \in Sources : cache[s] = Nothing)
       /\ (\A f \in Fetchers : job[f] = Idle) /\ UNCHANGED refVars
MCSpec == MCInit /\ [][MCNext]_<<refVars, releaseVars>>
=============================================================================
