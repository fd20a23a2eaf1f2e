------------------------------ MODULE Pipeline ------------------------------
(***************************************************************************)
(* From parts to releases.  The scanner inserts parts; yEnc verification   *)
(* finds out where a part without a segment counter belongs; the assembler *)
(* folds parts into binaries, settles collections that went quiet and ages *)
(* out what never completed; the builder turns complete binaries into      *)
(* releases and snapshots their segments; post-processing finishes them;   *)
(* retention prunes parts, and an administrator may have missing snapshots *)
(* taken again.  They are goroutines of one process that meet only in the  *)
(* database: an action is one transaction or one statement.                *)
(***************************************************************************)
EXTENDS Integers, FiniteSets, FiniteSetsExt

CONSTANTS Articles, Posts, NoPost,
          Post,            \* the post (group, subject or collection key, poster) of an article
          File,            \* the article's file_number in its post
          Collections,     \* posts of several files
          Declared,        \* parts of a single-file post, files of a collection; 0 unknown
          Hidden,          \* articles whose Subject carries no counter
          Name,            \* the cleaned name the builder gives a post
          SizeBucket(_),   \* sizeBucket of a number of parts
          RowCap,          \* rows of one post a fold takes
          KeyLimit,        \* posts of each kind a fold takes
          MaxBatches,      \* opts.MaxBatchesPerRun
          PruneLimit,      \* parts one prune statement deletes
          MaxYencAttempts, \* fetches before a part is left alone
          MaxInserts,      \* bound: parts inserted
          MaxRepairs,      \* bound: calls of BackfillReleaseSegments
          MaxFailures      \* bound: passes that fail

ASSUME PipelineAssumption ==
  /\ IsFiniteSet(Articles)
  /\ NoPost \notin Posts
  /\ Post \in [Articles -> Posts]
  /\ Collections \subseteq Posts
  /\ Declared \in [Posts -> Nat]
  /\ \A k \in Posts \ Collections : Declared[k] > 0
  /\ Hidden \subseteq Articles
  /\ {RowCap, KeyLimit, MaxBatches, PruneLimit, MaxYencAttempts} \subseteq Nat \ {0}
  /\ {MaxInserts, MaxRepairs, MaxFailures} \subseteq Nat

VARIABLES part,      \* the parts table: where each article's row is
          bin,       \* the binaries table, by post
          rel,       \* the releases table, by release_hash
          asm,       \* the assembler's position in Assemble
          build,     \* the builder's position in Build and what it holds
          repair,    \* the same of BackfillReleaseSegments
          snap,      \* snapshotReleaseSegments, as called by either
          refreshed, \* history: releases whose snapshot was written over
          inserts, repairs, failures

counters == <<inserts, repairs, failures>>
tables == <<part, bin, rel>>
vars == <<tables, asm, build, repair, snap, refreshed, counters>>

Of(k) == {a \in Articles : Post[a] = k}
Loose(k) == {a \in Of(k) : part[a].at = "loose"}
Linked(k) == {a \in Of(k) : part[a].at = "linked"}

\* Mutant: leaves a post alone that has more rows than a batch takes.
PendingSmall == {k \in Posts : Cardinality(Loose(k)) \in 1..RowCap}

\* The posts with rows for the assembler.
Pending == {k \in Posts : Loose(k) # {}}

\* The builder's ReleaseHash of a post of which n parts have been folded.
ReleaseHash(k, n) == <<Name[k], SizeBucket(n)>>
Hashes == {ReleaseHash(k, n) : k \in Posts, n \in 0..MaxInserts}

\* LIMIT: as many members of S as the limit lets through, in whatever order.
Take(limit, S) == kSubset(Min({limit, Cardinality(S)}), S)

PartRows == [at : {"absent", "hidden", "loose", "linked"}, attempts : 0..MaxYencAttempts]
NoPart == [at |-> "absent", attempts |-> 0]

\* age is the time since updated_at: 0 recent, 1 past SettleQuietAfter, 2 past
\* StaleAfter.
Binaries == [exists : BOOLEAN, collected : Nat, size : 0..MaxInserts,
             complete : BOOLEAN, released : BOOLEAN, age : 0..2]
NoBinary == [exists |-> FALSE, collected |-> 0, size |-> 0,
             complete |-> FALSE, released |-> FALSE, age |-> 0]

Releases == [post : Posts \cup {NoPost}, segs : SUBSET Articles, done : BOOLEAN]
NoRelease == [post |-> NoPost, segs |-> {}, done |-> FALSE]
Exists(h) == rel[h].post # NoPost

Snappers == {"build", "repair"}
NoHash == <<NoPost, 0>>
NoSnap == [at |-> "none", hash |-> NoHash, read |-> {}]
Idle == [at |-> "idle", todo |-> {}, released |-> {}]
Rest == [at |-> "idle", todo |-> {}]
FoldStart == [at |-> "fold", batches |-> 0]

Init == /\ part = [a \in Articles |-> NoPart]
        /\ bin = [k \in Posts |-> NoBinary]
        /\ rel = [h \in Hashes |-> NoRelease]
        /\ asm = FoldStart
        /\ build = Idle
        /\ repair = Rest
        /\ snap = [w \in Snappers |-> NoSnap]
        /\ refreshed = {}
        /\ inserts = 0 /\ repairs = 0 /\ failures = 0
-----------------------------------------------------------------------------
(* Scanner and yEnc verification *)

\* InsertParts skips articles that have a row; an article whose row was deleted
\* comes back when passes overlap or a batch is fetched again.
Insert(a) ==
  /\ part[a].at = "absent"
  /\ inserts < MaxInserts
  /\ part' = [part EXCEPT ![a].at = IF a \in Hidden THEN "hidden" ELSE "loose"]
  /\ inserts' = inserts + 1
  /\ UNCHANGED <<bin, rel, asm, build, repair, snap, refreshed, repairs, failures>>

NeedVerification == {a \in Articles : /\ part[a].at = "hidden"
                                      /\ part[a].attempts < MaxYencAttempts}

\* fetchHeaders: the parts whose article could be fetched, whatever it says.
FetchHeaders == SUBSET NeedVerification

\* ApplyYencVerification: a header tells where the part belongs, a failed fetch
\* costs an attempt.
Verified(row, ok) == IF ok THEN [row EXCEPT !.at = "loose"]
                           ELSE [row EXCEPT !.attempts = @ + 1]

\* Verifier.Run over a batch.  Nobody else writes such parts while it fetches.
Verify(read) ==
  /\ NeedVerification # {}
  /\ part' = [a \in Articles |-> IF a \in NeedVerification THEN Verified(part[a], a \in read)
                                                           ELSE part[a]]
  /\ UNCHANGED <<bin, rel, asm, build, repair, snap, refreshed, counters>>
-----------------------------------------------------------------------------
(* Assembler *)

\* The upsert's completeness rule for n collected parts or files.
Complete(k, n) == IF k \in Collections
                  THEN Declared[k] > 0 /\ n >= Declared[k]
                  ELSE Declared[k] = 0 \/ n >= Declared[k]

\* What one fold adds: rows of a single-file post, distinct files of a collection.
Collected(k, S) == IF k \in Collections THEN Cardinality({File[a] : a \in S})
                                        ELSE Cardinality(S)

\* INSERT ... ON CONFLICT DO UPDATE of one binary with the rows S.
Upsert(k, S) ==
  LET n == bin[k].collected + Collected(k, S)
  IN [bin[k] EXCEPT !.exists = TRUE, !.collected = n,
                    !.size = @ + Cardinality(S), !.complete = Complete(k, n), !.age = 0]

\* The rows a batch may select: some posts of each kind, some rows of each.
Selection(S) ==
  \E C \in Take(KeyLimit, Pending \cap Collections),
     D \in Take(KeyLimit, Pending \ Collections) :
    /\ {Post[a] : a \in S} = C \cup D
    /\ \A k \in C \cup D : S \cap Of(k) \in Take(RowCap, Loose(k))

\* AssembleBinaries: both statements of one transaction.
Fold(S) ==
  /\ asm.at = "fold"
  /\ Pending # {}
  /\ Selection(S)
  /\ part' = [a \in Articles |-> IF a \in S THEN [part[a] EXCEPT !.at = "linked"] ELSE part[a]]
  /\ bin' = [k \in Posts |-> IF S \cap Of(k) = {} THEN bin[k] ELSE Upsert(k, S \cap Of(k))]
  /\ asm' = IF asm.batches + 1 = MaxBatches
            THEN [at |-> "settle", batches |-> 0]
            ELSE [asm EXCEPT !.batches = @ + 1]
  /\ UNCHANGED <<rel, build, repair, snap, refreshed, counters>>

\* The batch that touches nothing ends the loop.
Drained ==
  /\ asm.at = "fold"
  /\ Pending = {}
  /\ asm' = [at |-> "settle", batches |-> 0]
  /\ UNCHANGED <<tables, build, repair, snap, refreshed, counters>>

Settle ==
  /\ asm.at = "settle"
  /\ bin' = [k \in Posts |->
               IF /\ bin[k].exists /\ ~bin[k].complete /\ ~bin[k].released
                  /\ k \in Collections /\ Declared[k] = 0 /\ bin[k].age > 0
               THEN [bin[k] EXCEPT !.complete = TRUE, !.age = 0]
               ELSE bin[k]]
  /\ asm' = [asm EXCEPT !.at = "age"]
  /\ UNCHANGED <<part, rel, build, repair, snap, refreshed, counters>>

Stale(k) == bin[k].exists /\ ~bin[k].complete /\ ~bin[k].released /\ bin[k].age = 2

\* AgeOutStaleBinaries deletes the stale binaries with their parts.
AgeOut ==
  /\ asm.at = "age"
  /\ part' = [a \in Articles |-> IF Stale(Post[a]) /\ part[a].at = "linked" THEN NoPart ELSE part[a]]
  /\ bin' = [k \in Posts |-> IF Stale(k) THEN NoBinary ELSE bin[k]]
  /\ asm' = FoldStart
  /\ UNCHANGED <<rel, build, repair, snap, refreshed, counters>>

\* Time passes without a write to the binary; nobody asks a released one its age.
Age(k) == /\ bin[k].exists /\ ~bin[k].released
          /\ bin[k].age < 2
          /\ bin' = [bin EXCEPT ![k].age = @ + 1]
          /\ UNCHANGED <<part, rel, asm, build, repair, snap, refreshed, counters>>

\* A database error or a crash ends the pass; a batch that failed left nothing.
AssembleFails ==
  /\ failures < MaxFailures
  /\ asm # FoldStart
  /\ asm' = FoldStart
  /\ failures' = failures + 1
  /\ UNCHANGED <<tables, build, repair, snap, refreshed, inserts, repairs>>
-----------------------------------------------------------------------------
(* Release builder *)

Unreleased == {k \in Posts : bin[k].complete /\ ~bin[k].released /\ Declared[k] > 0}

\* ListCompleteUnreleasedBinaries, read once; names and hashes follow from it.
ListComplete ==
  /\ build.at = "idle"
  /\ Unreleased # {}
  /\ build' = [at |-> "create", released |-> {},
               todo |-> {[post |-> k, hash |-> ReleaseHash(k, bin[k].size)] : k \in Unreleased}]
  /\ UNCHANGED <<tables, asm, repair, snap, refreshed, counters>>

\* Mutant: a duplicate is not remembered and will be listed again.
CreateReleaseOnly(b) ==
  /\ build.at = "create" /\ snap["build"].at = "none"
  /\ b \in build.todo
  /\ IF Exists(b.hash)
     THEN build' = [build EXCEPT !.todo = @ \ {b}] /\ UNCHANGED <<rel, snap>>
     ELSE /\ rel' = [rel EXCEPT ![b.hash] = [NoRelease EXCEPT !.post = b.post]]
          /\ snap' = [snap EXCEPT !["build"] = [NoSnap EXCEPT !.at = "read", !.hash = b.hash]]
          /\ build' = [build EXCEPT !.todo = @ \ {b}, !.released = @ \cup {b.post}]
  /\ UNCHANGED <<part, bin, asm, repair, refreshed, counters>>

\* CreateRelease: the insert, which a release of the same hash turns into a
\* duplicate; a new release goes on to its snapshot.
CreateRelease(b) ==
  /\ build.at = "create" /\ snap["build"].at = "none"
  /\ b \in build.todo
  /\ build' = [build EXCEPT !.todo = @ \ {b}, !.released = @ \cup {b.post}]
  /\ IF Exists(b.hash)
     THEN UNCHANGED <<rel, snap>>
     ELSE /\ rel' = [rel EXCEPT ![b.hash] = [NoRelease EXCEPT !.post = b.post]]
          /\ snap' = [snap EXCEPT !["build"] = [NoSnap EXCEPT !.at = "read", !.hash = b.hash]]
  /\ UNCHANGED <<part, bin, asm, repair, refreshed, counters>>

\* MarkBinariesReleased after the whole list.
MarkReleased ==
  /\ build.at = "create" /\ snap["build"].at = "none"
  /\ build.todo = {}
  /\ bin' = [k \in Posts |-> IF k \in build.released /\ bin[k].exists
                             THEN [bin[k] EXCEPT !.released = TRUE, !.age = 0]
                             ELSE bin[k]]
  /\ build' = Idle
  /\ UNCHANGED <<part, rel, asm, repair, snap, refreshed, counters>>

\* An error of CreateRelease or its snapshot, or a crash: nothing is marked.
BuildFails ==
  /\ failures < MaxFailures
  /\ build.at # "idle"
  /\ build' = Idle
  /\ snap' = [snap EXCEPT !["build"] = NoSnap]
  /\ failures' = failures + 1
  /\ UNCHANGED <<tables, asm, repair, refreshed, inserts, repairs>>
-----------------------------------------------------------------------------
(* Segment snapshots, taken by the builder and by BackfillReleaseSegments *)

\* releaseSegmentsFromParts
SegmentsFromParts(h) == Linked(rel[h].post)

SnapRead(w) ==
  /\ snap[w].at = "read"
  /\ snap' = [snap EXCEPT ![w].at = "write", ![w].read = SegmentsFromParts(snap[w].hash)]
  /\ UNCHANGED <<tables, asm, build, repair, refreshed, counters>>

SnapWrite(w) ==
  LET h == snap[w].hash
  IN /\ snap[w].at = "write"
     /\ rel' = [rel EXCEPT ![h].segs = snap[w].read]
     /\ refreshed' = IF rel[h].segs = {} THEN refreshed ELSE refreshed \cup {h}
     /\ snap' = [snap EXCEPT ![w] = NoSnap]
     /\ UNCHANGED <<part, bin, asm, build, repair, counters>>

RepairList ==
  /\ repair.at = "idle"
  /\ repairs < MaxRepairs
  /\ repairs' = repairs + 1
  /\ repair' = [at |-> "each", todo |-> {h \in Hashes : Exists(h) /\ rel[h].segs = {}}]
  /\ UNCHANGED <<tables, asm, build, snap, refreshed, inserts, failures>>

\* A release whose parts are gone is skipped, any other is snapshotted.
RepairCheck(h) ==
  /\ repair.at = "each" /\ snap["repair"].at = "none"
  /\ h \in repair.todo
  /\ repair' = [repair EXCEPT !.todo = @ \ {h}]
  /\ snap' = IF SegmentsFromParts(h) = {} THEN snap
             ELSE [snap EXCEPT !["repair"] = [NoSnap EXCEPT !.at = "read", !.hash = h]]
  /\ UNCHANGED <<tables, asm, build, refreshed, counters>>

RepairEnds ==
  /\ repair.at = "each" /\ snap["repair"].at = "none"
  /\ repair.todo = {}
  /\ repair' = Rest
  /\ UNCHANGED <<tables, asm, build, snap, refreshed, counters>>
-----------------------------------------------------------------------------
(* Post-processing and retention *)

\* ApplyPostProcessing, which may come as soon as the release's row exists.
PostProcessed(h) ==
  /\ Exists(h) /\ ~rel[h].done
  /\ rel' = [rel EXCEPT ![h].done = TRUE]
  /\ UNCHANGED <<part, bin, asm, build, repair, snap, refreshed, counters>>

\* Mutant: does not ask for durable segments.
CandidatesAnySegs ==
  UNION {Linked(rel[h].post) : h \in {g \in Hashes : Exists(g) /\ rel[g].done
                                                     /\ bin[rel[g].post].released}}

\* The parts retention may delete, once the release is old enough.
Candidates ==
  UNION {Linked(rel[h].post) : h \in {g \in Hashes : /\ Exists(g) /\ rel[g].done
                                                     /\ rel[g].segs # {}
                                                     /\ bin[rel[g].post].released}}

\* PruneRetainedParts, one bounded statement.
Prune(S) ==
  /\ S # {}
  /\ S \in Take(PruneLimit, Candidates)
  /\ part' = [a \in Articles |-> IF a \in S THEN NoPart ELSE part[a]]
  /\ UNCHANGED <<bin, rel, asm, build, repair, snap, refreshed, counters>>
-----------------------------------------------------------------------------
AssembleStep == (\E S \in SUBSET Articles : Fold(S)) \/ Drained \/ Settle \/ AgeOut
BuildStep == ListComplete \/ (\E b \in build.todo : CreateRelease(b)) \/ MarkReleased
             \/ SnapRead("build") \/ SnapWrite("build")
RepairStep == (\E h \in repair.todo : RepairCheck(h)) \/ RepairEnds
              \/ SnapRead("repair") \/ SnapWrite("repair")

Next == \/ \E a \in Articles : Insert(a)
        \/ \E read \in FetchHeaders : Verify(read)
        \/ AssembleStep
        \/ \E k \in Posts : Age(k)
        \/ AssembleFails
        \/ BuildStep
        \/ BuildFails
        \/ RepairList \/ RepairStep
        \/ \E h \in Hashes : PostProcessed(h)
        \/ \E S \in SUBSET Candidates : Prune(S)

Spec == Init /\ [][Next]_vars

\* The assemble and build loops come back on their tickers and the statements
\* of a pass return.
FairSpec == Spec /\ WF_vars(AssembleStep) /\ WF_vars(BuildStep)
-----------------------------------------------------------------------------
TypeOK == /\ part \in [Articles -> PartRows]
          /\ bin \in [Posts -> Binaries]
          /\ rel \in [Hashes -> Releases]
          /\ asm \in [at : {"fold", "settle", "age"}, batches : 0..MaxBatches - 1]
          /\ build \in [at : {"idle", "create"}, released : SUBSET Posts,
                        todo : SUBSET [post : Posts, hash : Hashes]]
          /\ repair \in [at : {"idle", "each"}, todo : SUBSET Hashes]
          /\ snap \in [Snappers -> [at : {"none", "read", "write"}, read : SUBSET Articles,
                                    hash : Hashes \cup {NoHash}]]
          /\ refreshed \subseteq Hashes
          /\ inserts \in 0..MaxInserts
          /\ repairs \in 0..MaxRepairs
          /\ failures \in 0..MaxFailures

\* GetReleaseSegments: the snapshot, or else what the parts table still has.
Segments(h) == IF rel[h].segs # {} THEN rel[h].segs ELSE SegmentsFromParts(h)

\* A single-file post no article of which was sent twice.
Plain(k) == k \notin Collections /\ Cardinality(Of(k)) = Declared[k]

\* The NZB of a single-file release holds the whole file from the moment the
\* release exists, through failed builds, post-processing and pruning, unless
\* its snapshot was written over (GetReleaseSegments, retention.go: "never
\* remove data still needed").
NzbWhole == \A h \in Hashes \ refreshed :
              Exists(h) /\ Plain(rel[h].post) => Of(rel[h].post) \subseteq Segments(h)

\* Every complete binary with a declared total is released in the end, also
\* the duplicates ("the binary is still marked released", Build).
CompleteIsReleased == \A k \in Posts : Declared[k] > 0 /\ bin[k].complete ~> bin[k].released

\* The backlog is drained again and again, however few rows and posts a batch
\* takes and batches a pass (Assemble: "a capped key simply finishes over
\* several batches").
BacklogDrains == []<>(\A a \in Articles : part[a].at # "loose")

\* "completeness is judged by how many distinct files are present versus the
\* declared file count" (assembleCollectionsBatch): a released collection has
\* that many files.
CollectionWhole == \A h \in Hashes :
                     Exists(h) /\ rel[h].post \in Collections
                       => Cardinality({File[a] : a \in Segments(h)}) >= Declared[rel[h].post]
=============================================================================
