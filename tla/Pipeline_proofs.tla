--------------------------- MODULE Pipeline_proofs ---------------------------
(***************************************************************************)
(* That the types of Pipeline hold and that the NZB of a single-file       *)
(* release is whole, for every set of articles and posts, every batch size *)
(* and every number of failures and repairs.                               *)
(*                                                                         *)
(* The counter of a binary says how many of its parts are linked only      *)
(* until retention may have deleted some, which takes a released binary    *)
(* and a release with segments.  Up to then a complete binary of a plain   *)
(* post has every article linked; from then on the snapshot has them,      *)
(* because it was read before.                                             *)
(***************************************************************************)
EXTENDS Pipeline, FiniteSetTheorems, TLAPS

\* The rows of a post that no fold has counted yet.
Unfolded(k) == {a \in Of(k) : part[a].at \in {"hidden", "loose"}}

\* A binary is never larger than the number of inserts: every part it counts
\* was inserted, and one that is deleted and comes again is inserted again.
SizeInv == \A k \in Posts : bin[k].size + Cardinality(Unfolded(k)) <= inserts

\* Retention cannot have touched the post: its binary is not released, or no
\* release of it has ever had segments.
Untouched(k) == \/ ~bin[k].released
                \/ \A h \in Hashes : rel[h].post = k => h \notin refreshed /\ rel[h].segs = {}

\* What the counters of a plain post's binary mean.
CountInv == \A k \in Posts : Plain(k) =>
              /\ Untouched(k) => /\ bin[k].collected = Cardinality(Linked(k))
                                 /\ bin[k].size = Cardinality(Linked(k))
              /\ bin[k].complete => bin[k].collected >= Declared[k]

\* The release of a plain post has the hash of all its parts, so there is only
\* one; its binary stays complete and its first snapshot is whole.
ReleaseInv == \A h \in Hashes : Exists(h) /\ Plain(rel[h].post) =>
                /\ h = ReleaseHash(rel[h].post, Cardinality(Of(rel[h].post)))
                /\ bin[rel[h].post].complete
                /\ h \notin refreshed /\ rel[h].segs # {} => Of(rel[h].post) \subseteq rel[h].segs

\* What the builder and the repair hold between their statements.
BuildInv == \A b \in build.todo : Plain(b.post) =>
              /\ b.hash = ReleaseHash(b.post, Cardinality(Of(b.post)))
              /\ bin[b.post].complete
RepairInv == \A h \in repair.todo : Exists(h)
SnapInv == \A w \in Snappers : snap[w].at # "none" =>
             /\ snap[w].hash \in Hashes
             /\ Exists(snap[w].hash)
             /\ (/\ snap[w].at = "write"
                 /\ snap[w].hash \notin refreshed
                 /\ rel[snap[w].hash].segs = {}
                 /\ Plain(rel[snap[w].hash].post))
                  => Of(rel[snap[w].hash].post) \subseteq snap[w].read

Inv == TypeOK /\ SizeInv /\ CountInv /\ ReleaseInv /\ BuildInv /\ RepairInv /\ SnapInv
-----------------------------------------------------------------------------
(* Sets of articles and rows *)

LEMMA OfPost ==
  ASSUME NEW k
  PROVE  /\ Of(k) \subseteq Articles /\ IsFiniteSet(Of(k)) /\ Cardinality(Of(k)) \in Nat
         /\ \A a \in Articles : a \in Of(Post[a]) /\ Post[a] \in Posts
         /\ \A a \in Of(k) : Post[a] = k
<1>1. Of(k) \in SUBSET Articles
  BY DEF Of
<1>2. IsFiniteSet(Of(k))
  BY <1>1, FS_Subset, PipelineAssumption
<1>3. QED BY <1>1, <1>2, FS_CardinalityType, PipelineAssumption DEF Of

LEMMA RowSets ==
  ASSUME NEW k, NEW T \in SUBSET Of(k)
  PROVE  IsFiniteSet(T) /\ Cardinality(T) \in Nat /\ Cardinality(T) <= Cardinality(Of(k))
BY OfPost, FS_Subset, FS_CardinalityType

\* A fold takes loose rows only.
LEMMA FoldFacts ==
  ASSUME NEW S \in SUBSET Articles, Selection(S), NEW k \in Posts
  PROVE  S \cap Of(k) \subseteq Loose(k)
<1>1. PICK C \in Take(KeyLimit, Pending \cap Collections), D \in Take(KeyLimit, Pending \ Collections) :
         /\ {Post[a] : a \in S} = C \cup D
         /\ \A j \in C \cup D : S \cap Of(j) \in Take(RowCap, Loose(j))
  BY DEF Selection
<1>2. SUFFICES ASSUME NEW a \in S \cap Of(k) PROVE a \in Loose(k)
  OBVIOUS
<1>3. k \in C \cup D
  BY <1>1, <1>2, OfPost
<1>4. S \cap Of(k) \in SUBSET Loose(k)
  BY <1>1, <1>3 DEF Take, kSubset
<1>5. QED BY <1>2, <1>4

\* What a fold adds to a binary's counter is a number, and for a single-file
\* post the number of rows.
LEMMA CollectedFacts ==
  ASSUME NEW k \in Posts, NEW T \in SUBSET Of(k)
  PROVE  Collected(k, T) \in Nat /\ (k \notin Collections => Collected(k, T) = Cardinality(T))
<1> DEFINE F == {File[a] : a \in T}
           f == [a \in T |-> File[a]]
<1>1. f \in Surjection(T, F)
  BY DEF Surjection
<1>2. IsFiniteSet(F)
  BY <1>1, RowSets, FS_Surjection
<1>3. QED BY <1>2, RowSets, FS_CardinalityType DEF Collected

\* Retention deletes linked rows of posts it may touch.
LEMMA PruneFacts ==
  ASSUME TypeOK, NEW a \in Candidates
  PROVE  a \in Articles /\ part[a].at = "linked" /\ ~Untouched(Post[a])
<1>1. PICK g \in Hashes : /\ Exists(g) /\ rel[g].done /\ rel[g].segs # {}
                          /\ bin[rel[g].post].released /\ a \in Linked(rel[g].post)
  BY DEF Candidates
<1>2. a \in Articles /\ Post[a] = rel[g].post /\ part[a].at = "linked"
  BY <1>1 DEF Linked, Of
<1>3. QED BY <1>1, <1>2 DEF Untouched

\* While retention has not touched a plain post, its complete binary has every
\* article linked.
LEMMA CompleteHolds ==
  ASSUME TypeOK, CountInv, NEW k \in Posts, Plain(k), bin[k].complete, Untouched(k)
  PROVE  Linked(k) = Of(k) /\ bin[k].size = Cardinality(Of(k))
<1>1. Linked(k) \in SUBSET Of(k)
  BY DEF Linked
<1>2. /\ Cardinality(Linked(k)) >= Cardinality(Of(k))
      /\ bin[k].size = Cardinality(Linked(k))
  BY DEF CountInv, Plain
<1>3. Cardinality(Linked(k)) = Cardinality(Of(k))
  BY <1>1, <1>2, RowSets, OfPost
<1>4. QED BY <1>1, <1>2, <1>3, OfPost, FS_Subset

\* A release of a plain post whose snapshot is still missing can be made from
\* the parts.
LEMMA PartsHold ==
  ASSUME TypeOK, CountInv, ReleaseInv, NEW h \in Hashes, h \notin refreshed,
         Exists(h), Plain(rel[h].post), rel[h].segs = {}
  PROVE  Linked(rel[h].post) = Of(rel[h].post)
<1> DEFINE k == rel[h].post
<1>1. k \in Posts
  BY DEF TypeOK, Releases, Exists
<1>2. Untouched(k)
  <2>1. ASSUME NEW g \in Hashes, rel[g].post = k PROVE g = h
    <3>1. Exists(g) /\ Plain(rel[g].post)
      BY <2>1 DEF Exists
    <3>2. g = ReleaseHash(k, Cardinality(Of(k)))
      BY <2>1, <3>1 DEF ReleaseInv
    <3>3. QED BY <3>2 DEF ReleaseInv
  <2>2. QED BY <2>1 DEF Untouched
<1>3. bin[k].complete
  BY DEF ReleaseInv
<1>4. QED BY <1>1, <1>2, <1>3, CompleteHolds
-----------------------------------------------------------------------------
(* Sizes and types *)

\* A step after which no binary is larger and no row unfolded that was not.
LEMMA SizeKept ==
  ASSUME TypeOK, SizeInv, inserts' = inserts,
         \A k \in Posts : bin'[k].size \in Nat /\ bin'[k].size <= bin[k].size,
         \A a \in Articles : part'[a].at \in {"hidden", "loose"} => part[a].at \in {"hidden", "loose"}
  PROVE  SizeInv'
<1>1. SUFFICES ASSUME NEW k \in Posts
               PROVE  bin'[k].size + Cardinality(Unfolded(k)') <= inserts'
  BY DEF SizeInv
<1>2. Unfolded(k)' \in SUBSET Unfolded(k) /\ Unfolded(k) \in SUBSET Of(k)
  BY DEF Unfolded, Of
<1>3. Cardinality(Unfolded(k)') <= Cardinality(Unfolded(k))
  BY <1>2, RowSets, FS_Subset
<1>4. Cardinality(Unfolded(k)') \in Nat /\ Cardinality(Unfolded(k)) \in Nat
  <2>1. Unfolded(k)' \in SUBSET Of(k)
    BY <1>2
  <2>2. QED BY <1>2, <2>1, RowSets
<1>5. bin[k].size \in Nat /\ inserts \in Nat
  BY DEF TypeOK, Binaries
<1>6. bin[k].size + Cardinality(Unfolded(k)) <= inserts
  BY DEF SizeInv
<1>7. QED BY <1>3, <1>4, <1>5, <1>6

LEMMA SizeInsert ==
  ASSUME TypeOK, SizeInv, NEW x \in Articles, Insert(x)
  PROVE  SizeInv'
<1>1. SUFFICES ASSUME NEW k \in Posts
               PROVE  bin'[k].size + Cardinality(Unfolded(k)') <= inserts'
  BY DEF SizeInv
<1>2. Unfolded(k)' \in SUBSET (Unfolded(k) \cup {x}) /\ Unfolded(k) \in SUBSET Of(k)
  BY DEF Unfolded, Of, Insert, TypeOK
<1>3. IsFiniteSet(Unfolded(k)) /\ Cardinality(Unfolded(k)) \in Nat
  BY <1>2, RowSets
<1>4. /\ IsFiniteSet(Unfolded(k) \cup {x})
      /\ Cardinality(Unfolded(k) \cup {x}) <= Cardinality(Unfolded(k)) + 1
  BY <1>3, FS_AddElement
<1>5. /\ Cardinality(Unfolded(k)') <= Cardinality(Unfolded(k) \cup {x})
      /\ IsFiniteSet(Unfolded(k)')
  BY <1>2, <1>4, FS_Subset
<1>6. Cardinality(Unfolded(k)') \in Nat /\ Cardinality(Unfolded(k) \cup {x}) \in Nat
  BY <1>4, <1>5, FS_CardinalityType
<1>7. bin[k].size \in Nat /\ inserts \in Nat /\ inserts' = inserts + 1 /\ bin' = bin
  BY DEF TypeOK, Binaries, Insert
<1>8. bin[k].size + Cardinality(Unfolded(k)) <= inserts
  BY DEF SizeInv
<1>9. QED BY <1>3, <1>4, <1>5, <1>6, <1>7, <1>8

\* What a fold does to a post it takes the rows T of.
LEMMA FoldBinary ==
  ASSUME TypeOK, NEW S \in SUBSET Articles, Fold(S), NEW k \in Posts
  PROVE  /\ bin'[k].size = bin[k].size + Cardinality(S \cap Of(k))
         /\ bin'[k].collected = bin[k].collected + Collected(k, S \cap Of(k))
         /\ bin'[k].collected \in Nat /\ bin'[k].size \in Nat
         /\ S \cap Of(k) # {} => bin'[k] = Upsert(k, S \cap Of(k))
         /\ S \cap Of(k) = {} => bin'[k] = bin[k]
         /\ bin'[k].released = bin[k].released
<1> DEFINE T == S \cap Of(k)
<1>1. T \in SUBSET Of(k)
  OBVIOUS
<1>2. Cardinality(T) \in Nat /\ Collected(k, T) \in Nat
  BY <1>1, RowSets, CollectedFacts
<1>3. /\ bin'[k] = IF T = {} THEN bin[k] ELSE Upsert(k, T)
      /\ bin[k] \in Binaries
  BY DEF Fold, TypeOK
<1>4. /\ bin[k].size \in Nat /\ bin[k].collected \in Nat
      /\ bin[k] = [exists |-> bin[k].exists, collected |-> bin[k].collected, size |-> bin[k].size,
                   complete |-> bin[k].complete, released |-> bin[k].released, age |-> bin[k].age]
  BY <1>3 DEF Binaries
<1>5. CASE T = {}
  <2>1. Cardinality(T) = 0 /\ Collected(k, T) = 0
    <3>1. {File[a] : a \in T} = {}
      BY <1>5
    <3>2. QED BY <1>5, <3>1, FS_EmptySet DEF Collected
  <2>2. QED BY <1>3, <1>4, <1>5, <2>1
<1>6. CASE T # {}
  <2>1. bin'[k] = Upsert(k, T)
    BY <1>3, <1>6
  <2>2. /\ bin'[k].size = bin[k].size + Cardinality(T)
        /\ bin'[k].collected = bin[k].collected + Collected(k, T)
        /\ bin'[k].released = bin[k].released
    <3> HIDE DEF T
    <3>1. QED BY <1>4, <2>1 DEF Upsert
  <2>3. QED BY <1>2, <1>4, <1>6, <2>1, <2>2
<1>7. QED BY <1>5, <1>6

LEMMA SizeFold ==
  ASSUME TypeOK, SizeInv, NEW S \in SUBSET Articles, Fold(S)
  PROVE  SizeInv'
<1>1. SUFFICES ASSUME NEW k \in Posts
               PROVE  bin'[k].size + Cardinality(Unfolded(k)') <= inserts'
  BY DEF SizeInv
<1> DEFINE T == S \cap Of(k)
<1>2. T \in SUBSET Loose(k)
  BY FoldFacts DEF Fold
<1>3. Unfolded(k) \in SUBSET Of(k) /\ T \in SUBSET Unfolded(k) /\ Unfolded(k)' = Unfolded(k) \ T
  BY <1>2 DEF Unfolded, Of, Fold, Loose, TypeOK
<1>4. IsFiniteSet(Unfolded(k))
  BY <1>3, RowSets
<1>5. /\ Cardinality(Unfolded(k)') = Cardinality(Unfolded(k)) - Cardinality(Unfolded(k) \cap T)
      /\ Cardinality(Unfolded(k) \cap T) = Cardinality(T)
  <2>1. Unfolded(k) \cap T = T
    BY <1>3
  <2>2. Cardinality(Unfolded(k) \ T) = Cardinality(Unfolded(k)) - Cardinality(Unfolded(k) \cap T)
    BY <1>4, FS_Difference
  <2> HIDE DEF T
  <2>3. QED BY <1>3, <2>1, <2>2
<1>6. Cardinality(Unfolded(k)) \in Nat /\ Cardinality(T) \in Nat
  BY <1>3, RowSets
<1>7. bin[k].size \in Nat /\ inserts \in Nat /\ inserts' = inserts
  BY DEF TypeOK, Binaries, Fold, counters
<1>8. bin[k].size + Cardinality(Unfolded(k)) <= inserts /\ bin'[k].size = bin[k].size + Cardinality(T)
  BY FoldBinary DEF SizeInv
<1> HIDE DEF T
<1>9. QED BY <1>5, <1>6, <1>7, <1>8

\* Every part a binary counts was inserted.
LEMMA SizeStep ==
  ASSUME TypeOK, SizeInv, Next
  PROVE  SizeInv'
<1>1. \A k \in Posts : bin[k].size \in Nat /\ bin[k] \in Binaries
  BY DEF TypeOK, Binaries
<1>2. ASSUME bin' = bin, part' = part, inserts' = inserts PROVE SizeInv'
  BY <1>1, <1>2, SizeKept
<1>3. ASSUME NEW x \in Articles, Insert(x) PROVE SizeInv'
  BY <1>3, SizeInsert
<1>4. ASSUME NEW read \in FetchHeaders, Verify(read) PROVE SizeInv'
  <2>1. /\ inserts' = inserts /\ bin' = bin
        /\ \A a \in Articles : part'[a] = IF a \in NeedVerification THEN Verified(part[a], a \in read)
                                                                    ELSE part[a]
    BY <1>4 DEF Verify, counters
  <2>2. \A a \in Articles : part'[a].at \in {"hidden", "loose"} => part[a].at \in {"hidden", "loose"}
    BY <2>1 DEF NeedVerification
  <2>3. QED BY <1>1, <2>1, <2>2, SizeKept
<1>5. ASSUME NEW S \in SUBSET Articles, Fold(S) PROVE SizeInv'
  BY <1>5, SizeFold
<1>6. CASE Settle
  <2>1. part' = part /\ inserts' = inserts /\ \A k \in Posts : bin'[k].size = bin[k].size
    BY <1>1, <1>6 DEF Settle, counters, Binaries
  <2>2. QED BY <1>1, <2>1, SizeKept
<1>7. CASE AgeOut
  <2>1. inserts' = inserts /\ \A k \in Posts : bin'[k].size = 0 \/ bin'[k].size = bin[k].size
    BY <1>7 DEF AgeOut, counters, NoBinary
  <2>2. \A a \in Articles : part'[a].at \in {"hidden", "loose"} => part[a].at \in {"hidden", "loose"}
    BY <1>7 DEF AgeOut, NoPart
  <2>3. QED BY <1>1, <2>1, <2>2, SizeKept
<1>8. ASSUME NEW j \in Posts, Age(j) PROVE SizeInv'
  <2>1. part' = part /\ inserts' = inserts /\ \A k \in Posts : bin'[k].size = bin[k].size
    BY <1>1, <1>8 DEF Age, counters, Binaries, TypeOK
  <2>2. QED BY <1>1, <2>1, SizeKept
<1>9. CASE MarkReleased
  <2>1. part' = part /\ inserts' = inserts /\ \A k \in Posts : bin'[k].size = bin[k].size
    BY <1>1, <1>9 DEF MarkReleased, counters, Binaries
  <2>2. QED BY <1>1, <2>1, SizeKept
<1>10. ASSUME NEW S \in SUBSET Candidates, Prune(S) PROVE SizeInv'
  <2>1. inserts' = inserts /\ bin' = bin
    BY <1>10 DEF Prune, counters
  <2>2. \A a \in Articles : part'[a].at \in {"hidden", "loose"} => part[a].at \in {"hidden", "loose"}
    BY <1>10 DEF Prune, NoPart
  <2>3. QED BY <1>1, <2>1, <2>2, SizeKept
<1>11. ASSUME Drained \/ AssembleFails \/ ListComplete \/ BuildFails \/ RepairList \/ RepairEnds
       PROVE  SizeInv'
  BY <1>2, <1>11 DEF Drained, AssembleFails, ListComplete, BuildFails, RepairList, RepairEnds,
                     tables, counters
<1>12. ASSUME NEW b \in build.todo, CreateRelease(b) PROVE SizeInv'
  BY <1>2, <1>12 DEF CreateRelease, counters
<1>13. ASSUME NEW w \in Snappers, SnapRead(w) \/ SnapWrite(w) PROVE SizeInv'
  BY <1>2, <1>13 DEF SnapRead, SnapWrite, tables, counters
<1>14. ASSUME NEW h \in repair.todo, RepairCheck(h) PROVE SizeInv'
  BY <1>2, <1>14 DEF RepairCheck, tables, counters
<1>15. ASSUME NEW h \in Hashes, PostProcessed(h) PROVE SizeInv'
  BY <1>2, <1>15 DEF PostProcessed, counters
<1>16. QED BY <1>3, <1>4, <1>5, <1>6, <1>7, <1>8, <1>9, <1>10, <1>11, <1>12, <1>13, <1>14, <1>15
           DEF Next, AssembleStep, BuildStep, RepairStep, Snappers

\* Which actions write which table, and which of them write none.
LEMMA PartWriters ==
  ASSUME Next
  PROVE  \/ part' = part
         \/ \E x \in Articles : Insert(x)
         \/ \E read \in FetchHeaders : Verify(read)
         \/ \E S \in SUBSET Articles : Fold(S)
         \/ AgeOut
         \/ \E S \in SUBSET Candidates : Prune(S)
BY Zenon DEF Next, AssembleStep, BuildStep, RepairStep, Snappers, tables, counters,
                  Insert, Verify, Fold, Drained, Settle, AgeOut, Age, AssembleFails, ListComplete,
                  CreateRelease, MarkReleased, BuildFails, SnapRead, SnapWrite, RepairList,
                  RepairCheck, RepairEnds, PostProcessed, Prune

LEMMA BinWriters ==
  ASSUME Next
  PROVE  \/ bin' = bin
         \/ \E S \in SUBSET Articles : Fold(S)
         \/ Settle
         \/ AgeOut
         \/ \E k \in Posts : Age(k)
         \/ MarkReleased
BY Zenon DEF Next, AssembleStep, BuildStep, RepairStep, Snappers, tables, counters,
                  Insert, Verify, Fold, Drained, Settle, AgeOut, Age, AssembleFails, ListComplete,
                  CreateRelease, MarkReleased, BuildFails, SnapRead, SnapWrite, RepairList,
                  RepairCheck, RepairEnds, PostProcessed, Prune

LEMMA RelWriters ==
  ASSUME Next
  PROVE  \/ rel' = rel /\ refreshed' = refreshed
         \/ \E b \in build.todo : CreateRelease(b)
         \/ \E w \in Snappers : SnapWrite(w)
         \/ \E h \in Hashes : PostProcessed(h)
BY Zenon DEF Next, AssembleStep, BuildStep, RepairStep, Snappers, tables, counters,
                  Insert, Verify, Fold, Drained, Settle, AgeOut, Age, AssembleFails, ListComplete,
                  CreateRelease, MarkReleased, BuildFails, SnapRead, SnapWrite, RepairList,
                  RepairCheck, RepairEnds, PostProcessed, Prune

LEMMA HeldWriters ==
  ASSUME Next
  PROVE  /\ \/ build' = build
            \/ ListComplete
            \/ \E b \in build.todo : CreateRelease(b)
            \/ build' = Idle
         /\ \/ repair' = repair
            \/ RepairList
            \/ \E h \in repair.todo : RepairCheck(h)
            \/ repair' = Rest
         /\ \/ snap' = snap
            \/ \E b \in build.todo : CreateRelease(b)
            \/ BuildFails
            \/ \E w \in Snappers : SnapRead(w) \/ SnapWrite(w)
            \/ \E h \in repair.todo : RepairCheck(h)
BY Zenon DEF Next, AssembleStep, BuildStep, RepairStep, Snappers, tables, counters,
                  Insert, Verify, Fold, Drained, Settle, AgeOut, Age, AssembleFails, ListComplete,
                  CreateRelease, MarkReleased, BuildFails, SnapRead, SnapWrite, RepairList,
                  RepairCheck, RepairEnds, PostProcessed, Prune

LEMMA CounterTypes ==
  ASSUME TypeOK, Next
  PROVE  inserts' \in 0..MaxInserts /\ repairs' \in 0..MaxRepairs /\ failures' \in 0..MaxFailures
<1>1. /\ inserts' = inserts \/ (inserts < MaxInserts /\ inserts' = inserts + 1)
      /\ repairs' = repairs \/ (repairs < MaxRepairs /\ repairs' = repairs + 1)
      /\ failures' = failures \/ (failures < MaxFailures /\ failures' = failures + 1)
  BY Zenon DEF Next, AssembleStep, BuildStep, RepairStep, Snappers, tables, counters,
                  Insert, Verify, Fold, Drained, Settle, AgeOut, Age, AssembleFails, ListComplete,
                  CreateRelease, MarkReleased, BuildFails, SnapRead, SnapWrite, RepairList,
                  RepairCheck, RepairEnds, PostProcessed, Prune
<1>2. QED BY <1>1, PipelineAssumption DEF TypeOK

LEMMA PartTypes ==
  ASSUME TypeOK, Next
  PROVE  part' \in [Articles -> PartRows]
<1>1. NoPart \in PartRows
  BY PipelineAssumption DEF NoPart, PartRows
<1>2. \A a \in Articles : part[a] \in PartRows
  BY DEF TypeOK
<1>3. \A r \in PartRows : \A x \in {"absent", "hidden", "loose", "linked"} :
        [r EXCEPT !.at = x] \in PartRows
  BY DEF PartRows
<1>4. ASSUME NEW x \in Articles, Insert(x) PROVE part' \in [Articles -> PartRows]
  BY <1>2, <1>3, <1>4 DEF Insert, TypeOK
<1>5. ASSUME NEW read \in FetchHeaders, Verify(read) PROVE part' \in [Articles -> PartRows]
  <2>1. ASSUME NEW a \in NeedVerification, NEW ok \in BOOLEAN PROVE Verified(part[a], ok) \in PartRows
    <3>1. a \in Articles /\ part[a].attempts < MaxYencAttempts /\ part[a] \in PartRows
      BY <1>2 DEF NeedVerification
    <3>2. [part[a] EXCEPT !.attempts = @ + 1] \in PartRows
      BY <3>1, PipelineAssumption DEF PartRows
    <3>3. QED BY <1>3, <3>1, <3>2 DEF Verified
  <2>2. part' = [a \in Articles |-> IF a \in NeedVerification THEN Verified(part[a], a \in read)
                                                               ELSE part[a]]
    BY <1>5 DEF Verify
  <2>3. ASSUME NEW a \in Articles
        PROVE  (IF a \in NeedVerification THEN Verified(part[a], a \in read) ELSE part[a]) \in PartRows
    <3>1. (a \in read) \in BOOLEAN
      OBVIOUS
    <3>2. QED BY <1>2, <2>1, <3>1
  <2>4. QED BY <2>2, <2>3
<1>6. ASSUME NEW S \in SUBSET Articles, Fold(S) PROVE part' \in [Articles -> PartRows]
  BY <1>2, <1>3, <1>6 DEF Fold
<1>7. CASE AgeOut
  BY <1>1, <1>2, <1>7 DEF AgeOut
<1>8. ASSUME NEW S \in SUBSET Candidates, Prune(S) PROVE part' \in [Articles -> PartRows]
  BY <1>1, <1>2, <1>8 DEF Prune
<1>9. QED BY <1>4, <1>5, <1>6, <1>7, <1>8, PartWriters DEF TypeOK

\* The size of a binary stays within its type because of SizeInv.
LEMMA BinTypes ==
  ASSUME TypeOK, SizeInv', Next
  PROVE  bin' \in [Posts -> Binaries]
<1>1. NoBinary \in Binaries /\ \A k \in Posts : bin[k] \in Binaries
  BY PipelineAssumption DEF NoBinary, Binaries, TypeOK
<1>2. \A r \in Binaries : \A x \in BOOLEAN : \A n \in 0..2 :
        /\ [r EXCEPT !.complete = x, !.age = n] \in Binaries
        /\ [r EXCEPT !.released = x, !.age = n] \in Binaries
        /\ [r EXCEPT !.age = n] \in Binaries
  BY DEF Binaries
<1>9. \A r \in Binaries : /\ [r EXCEPT !.complete = TRUE, !.age = 0] \in Binaries
                          /\ [r EXCEPT !.released = TRUE, !.age = 0] \in Binaries
  <2>1. TRUE \in BOOLEAN /\ 0 \in 0..2
    OBVIOUS
  <2>2. QED BY <1>2, <2>1, Zenon
<1>10. \A r \in Binaries : \A e, c \in BOOLEAN : \A n \in Nat : \A m \in 0..MaxInserts :
         /\ [r EXCEPT !.exists = e, !.collected = n] \in Binaries
         /\ [r EXCEPT !.size = m, !.complete = c] \in Binaries
  BY DEF Binaries
<1>3. ASSUME NEW S \in SUBSET Articles, Fold(S) PROVE bin' \in [Posts -> Binaries]
  <2>1. ASSUME NEW k \in Posts, S \cap Of(k) # {} PROVE Upsert(k, S \cap Of(k)) \in Binaries
    <3>1. /\ bin'[k].collected \in Nat /\ bin'[k].size \in Nat
          /\ bin'[k] = Upsert(k, S \cap Of(k))
          /\ bin'[k].size = bin[k].size + Cardinality(S \cap Of(k))
          /\ bin'[k].collected = bin[k].collected + Collected(k, S \cap Of(k))
      BY <1>3, <2>1, FoldBinary
    <3>2. Unfolded(k)' \in SUBSET Of(k)
      BY DEF Unfolded
    <3>3. Cardinality(Unfolded(k)') \in Nat /\ bin'[k].size + Cardinality(Unfolded(k)') <= inserts'
      BY <3>2, RowSets DEF SizeInv
    <3>4. bin'[k].size \in 0..MaxInserts
      BY <3>1, <3>3, CounterTypes, PipelineAssumption
    <3> DEFINE n == bin[k].collected + Collected(k, S \cap Of(k))
               m == bin[k].size + Cardinality(S \cap Of(k))
               c == Complete(k, n)
    <3>5. n \in Nat /\ m \in 0..MaxInserts
      BY <3>1, <3>4
    <3>6. c \in BOOLEAN
      BY DEF Complete
    <3>7. Upsert(k, S \cap Of(k)) = [bin[k] EXCEPT !.exists = TRUE, !.collected = n, !.size = m,
                                                   !.complete = c, !.age = 0]
      BY <1>1 DEF Upsert, Binaries
    <3> HIDE DEF n, m, c
    <3>8. TRUE \in BOOLEAN /\ 0 \in 0..2
      OBVIOUS
    <3>9. PICK r \in Binaries : r = [bin[k] EXCEPT !.exists = TRUE, !.collected = n]
      BY <1>1, <1>10, <3>5, <3>8, Zenon
    <3>10. PICK q \in Binaries : q = [r EXCEPT !.size = m, !.complete = c]
      BY <1>10, <3>5, <3>6, Zenon
    <3>11. Upsert(k, S \cap Of(k)) = [q EXCEPT !.age = 0]
      BY <1>1, <3>7, <3>9, <3>10 DEF Binaries
    <3>12. QED BY <1>2, <3>8, <3>11, Zenon
  <2>2. bin' = [k \in Posts |-> IF S \cap Of(k) = {} THEN bin[k] ELSE Upsert(k, S \cap Of(k))]
    BY <1>3 DEF Fold
  <2>3. QED BY <1>1, <2>1, <2>2
<1>4. CASE Settle
  BY <1>1, <1>9, <1>4, Zenon DEF Settle
<1>5. CASE AgeOut
  BY <1>1, <1>5 DEF AgeOut
<1>6. ASSUME NEW j \in Posts, Age(j) PROVE bin' \in [Posts -> Binaries]
  <2>1. bin[j].age + 1 \in 0..2
    BY <1>1, <1>6 DEF Age, Binaries
  <2>2. QED BY <1>1, <1>2, <1>6, <2>1 DEF Age, TypeOK
<1>7. CASE MarkReleased
  BY <1>1, <1>9, <1>7, Zenon DEF MarkReleased
<1>8. QED BY <1>3, <1>4, <1>5, <1>6, <1>7, BinWriters DEF TypeOK

LEMMA RelTypes ==
  ASSUME TypeOK, SnapInv, Next
  PROVE  rel' \in [Hashes -> Releases] /\ refreshed' \subseteq Hashes
<1>1. NoRelease \in Releases /\ \A h \in Hashes : rel[h] \in Releases
  BY DEF NoRelease, Releases, TypeOK
<1>2. ASSUME NEW b \in build.todo, CreateRelease(b)
      PROVE  rel' \in [Hashes -> Releases] /\ refreshed' \subseteq Hashes
  <2>1. b.post \in Posts
    BY DEF TypeOK
  <2>2. [NoRelease EXCEPT !.post = b.post] \in Releases
    BY <2>1 DEF NoRelease, Releases
  <2>3. QED BY <1>1, <1>2, <2>2 DEF CreateRelease, TypeOK
<1>3. ASSUME NEW w \in Snappers, SnapWrite(w)
      PROVE  rel' \in [Hashes -> Releases] /\ refreshed' \subseteq Hashes
  <2>1. PICK h \in Hashes, T \in SUBSET Articles : snap[w].hash = h /\ snap[w].read = T
    BY <1>3 DEF TypeOK, SnapInv, SnapWrite
  <2>2. rel' = [rel EXCEPT ![h].segs = T] /\ refreshed' \subseteq refreshed \cup {h}
    BY <1>3, <2>1 DEF SnapWrite
  <2>3. [rel[h] EXCEPT !.segs = T] \in Releases
    BY <1>1 DEF Releases
  <2>4. QED BY <1>1, <2>2, <2>3 DEF TypeOK
<1>4. ASSUME NEW h \in Hashes, PostProcessed(h)
      PROVE  rel' \in [Hashes -> Releases] /\ refreshed' \subseteq Hashes
  <2>1. [rel[h] EXCEPT !.done = TRUE] \in Releases
    BY <1>1 DEF Releases
  <2>2. QED BY <1>4, <2>1 DEF PostProcessed, TypeOK
<1>5. QED BY <1>2, <1>3, <1>4, RelWriters DEF TypeOK

LEMMA HeldTypes ==
  ASSUME TypeOK, Next
  PROVE  /\ build' \in [at : {"idle", "create"}, released : SUBSET Posts,
                        todo : SUBSET [post : Posts, hash : Hashes]]
         /\ repair' \in [at : {"idle", "each"}, todo : SUBSET Hashes]
<1>2. ASSUME NEW b \in build.todo, CreateRelease(b)
      PROVE  build' \in [at : {"idle", "create"}, released : SUBSET Posts,
                         todo : SUBSET [post : Posts, hash : Hashes]]
  BY <1>2 DEF CreateRelease, TypeOK
<1>3. CASE RepairList
  BY <1>3 DEF RepairList, TypeOK
<1>4. ASSUME NEW h \in repair.todo, RepairCheck(h)
      PROVE  repair' \in [at : {"idle", "each"}, todo : SUBSET Hashes]
  BY <1>4 DEF RepairCheck, TypeOK
<1>5. build' \in [at : {"idle", "create"}, released : SUBSET Posts,
                  todo : SUBSET [post : Posts, hash : Hashes]]
  <2>1. CASE build' = Idle
    BY <2>1 DEF Idle
  <2>2. CASE ListComplete
    <3> DEFINE T == {[post |-> k, hash |-> ReleaseHash(k, bin[k].size)] : k \in Unreleased}
    <3>1. \A k \in Unreleased : k \in Posts /\ ReleaseHash(k, bin[k].size) \in Hashes
      BY DEF Unreleased, Hashes, TypeOK, Binaries
    <3>2. T \in SUBSET [post : Posts, hash : Hashes]
      BY <3>1
    <3>3. build' = [at |-> "create", released |-> {}, todo |-> T]
      BY <2>2 DEF ListComplete
    <3> HIDE DEF T
    <3>4. QED BY <3>2, <3>3
  <2>3. QED BY <1>2, <2>1, <2>2, HeldWriters DEF TypeOK
<1>6. repair' \in [at : {"idle", "each"}, todo : SUBSET Hashes]
  <2>1. CASE repair' = Rest
    BY <2>1 DEF Rest
  <2>2. QED BY <1>3, <1>4, <2>1, HeldWriters DEF TypeOK
<1>7. QED BY <1>5, <1>6

LEMMA SnapTypes ==
  ASSUME TypeOK, Next
  PROVE  snap' \in [Snappers -> [at : {"none", "read", "write"}, read : SUBSET Articles,
                                 hash : Hashes \cup {NoHash}]]
<1> DEFINE Snaps == [at : {"none", "read", "write"}, read : SUBSET Articles,
                     hash : Hashes \cup {NoHash}]
<1>1. snap \in [Snappers -> Snaps] /\ NoSnap \in Snaps
  BY DEF TypeOK, NoSnap
<1>2. \A h \in Hashes : [NoSnap EXCEPT !.at = "read", !.hash = h] \in Snaps
  BY DEF NoSnap
<1>3. ASSUME NEW b \in build.todo, CreateRelease(b) PROVE snap' \in [Snappers -> Snaps]
  <2>1. PICK h \in Hashes : b.hash = h
    BY DEF TypeOK
  <2>2. snap' = snap \/ snap' = [snap EXCEPT !["build"] = [NoSnap EXCEPT !.at = "read", !.hash = h]]
    BY <1>3, <2>1 DEF CreateRelease
  <2> HIDE DEF Snaps
  <2>3. QED BY <1>1, <1>2, <2>2
<1>4. ASSUME BuildFails PROVE snap' \in [Snappers -> Snaps]
  <2> HIDE DEF Snaps
  <2>1. PICK x \in Snaps : snap' = [snap EXCEPT !["build"] = x]
    BY <1>1, <1>4 DEF BuildFails
  <2>2. QED BY <1>1, <2>1
<1>5. ASSUME NEW w \in Snappers, SnapRead(w) PROVE snap' \in [Snappers -> Snaps]
  <2>1. PICK T \in SUBSET Articles : T = SegmentsFromParts(snap[w].hash)
    BY DEF SegmentsFromParts, Linked, Of
  <2>2. [snap[w] EXCEPT !.at = "write", !.read = T] \in Snaps
    BY <1>1
  <2>3. snap' = [snap EXCEPT ![w] = [snap[w] EXCEPT !.at = "write", !.read = T]]
    BY <1>1, <1>5, <2>1 DEF SnapRead
  <2> HIDE DEF Snaps
  <2>4. QED BY <1>1, <2>2, <2>3
<1>6. ASSUME NEW w \in Snappers, SnapWrite(w) PROVE snap' \in [Snappers -> Snaps]
  <2> HIDE DEF Snaps
  <2>1. QED BY <1>1, <1>6 DEF SnapWrite
<1>7. ASSUME NEW h \in repair.todo, RepairCheck(h) PROVE snap' \in [Snappers -> Snaps]
  <2>1. h \in Hashes
    BY DEF TypeOK
  <2>2. snap' = snap \/ snap' = [snap EXCEPT !["repair"] = [NoSnap EXCEPT !.at = "read", !.hash = h]]
    BY <1>7 DEF RepairCheck
  <2> HIDE DEF Snaps
  <2>3. QED BY <1>1, <1>2, <2>1, <2>2
<1>8. QED BY <1>1, <1>3, <1>4, <1>5, <1>6, <1>7, HeldWriters, Zenon

LEMMA TypeStep ==
  ASSUME TypeOK, SizeInv, SnapInv, Next
  PROVE  TypeOK'
<1>1. asm' \in [at : {"fold", "settle", "age"}, batches : 0..MaxBatches - 1]
  <2>1. \/ asm' = asm
        \/ \E S \in SUBSET Articles : Fold(S)
        \/ Settle
        \/ asm' \in {FoldStart, [at |-> "settle", batches |-> 0]}
    BY Zenon DEF Next, AssembleStep, BuildStep, RepairStep, Snappers, tables, counters,
                  Insert, Verify, Fold, Drained, Settle, AgeOut, Age, AssembleFails, ListComplete,
                  CreateRelease, MarkReleased, BuildFails, SnapRead, SnapWrite, RepairList,
                  RepairCheck, RepairEnds, PostProcessed, Prune
  <2>2. CASE \E S \in SUBSET Articles : Fold(S)
    <3>1. /\ asm.batches \in 0..MaxBatches - 1 /\ asm.at \in {"fold", "settle", "age"} /\ MaxBatches \in Nat
          /\ asm = [at |-> asm.at, batches |-> asm.batches]
      BY PipelineAssumption DEF TypeOK
    <3> DEFINE n == asm.batches + 1
    <3>2. asm' = [at |-> "settle", batches |-> 0] \/ (n # MaxBatches /\ asm' = [at |-> asm.at, batches |-> n])
      BY <2>2, <3>1 DEF Fold
    <3>3. 0 \in 0..MaxBatches - 1 /\ (n # MaxBatches => n \in 0..MaxBatches - 1)
      BY <3>1
    <3> HIDE DEF n
    <3>4. QED BY <3>1, <3>2, <3>3
  <2>3. CASE Settle
    BY <2>3 DEF Settle, TypeOK
  <2>4. CASE asm' \in {FoldStart, [at |-> "settle", batches |-> 0]}
    <3>1. 0 \in 0..MaxBatches - 1
      BY PipelineAssumption
    <3>2. QED BY <2>4, <3>1 DEF FoldStart
  <2>5. QED BY <2>1, <2>2, <2>3, <2>4 DEF TypeOK
<1>2. QED BY <1>1, SizeStep, CounterTypes, PartTypes, BinTypes, RelTypes, HeldTypes, SnapTypes DEF TypeOK
-----------------------------------------------------------------------------
(* What the counters mean *)

\* A post that retention may have touched stays one: a binary stays released
\* and a release that had segments has them or is known as written over.
LEMMA TouchedStays ==
  ASSUME Inv, Next, NEW k \in Posts, Untouched(k)'
  PROVE  Untouched(k)
<1>1. SUFFICES ASSUME NEW h \in Hashes, bin[k].released, rel[h].post = k,
                      h \in refreshed \/ rel[h].segs # {}
               PROVE  /\ bin'[k].released
                      /\ rel'[h].post = k
                      /\ h \in refreshed' \/ rel'[h].segs # {}
  BY DEF Untouched
<1>2. bin[k] \in Binaries /\ rel[h] \in Releases /\ TypeOK
  BY DEF Inv, TypeOK
<1>3. bin'[k].released
  <2>1. ASSUME NEW S \in SUBSET Articles, Fold(S) PROVE bin'[k].released
    BY <1>1, <1>2, <2>1, FoldBinary
  <2>2. CASE Settle
    BY <1>1, <2>2 DEF Settle
  <2>3. CASE AgeOut
    BY <1>1, <2>3 DEF AgeOut, Stale
  <2>4. ASSUME NEW j \in Posts, Age(j) PROVE bin'[k].released
    BY <1>1, <1>2, <2>4 DEF Age, TypeOK
  <2>5. CASE MarkReleased
    BY <1>1, <1>2, <2>5 DEF MarkReleased, Binaries
  <2>6. QED BY <1>1, <2>1, <2>2, <2>3, <2>4, <2>5, BinWriters
<1>4. rel'[h].post = k /\ (h \in refreshed' \/ rel'[h].segs # {})
  <2>1. ASSUME NEW b \in build.todo, CreateRelease(b)
        PROVE  rel'[h].post = k /\ (h \in refreshed' \/ rel'[h].segs # {})
    <3>1. /\ refreshed' = refreshed
          /\ \/ rel' = rel
             \/ ~Exists(b.hash) /\ rel' = [rel EXCEPT ![b.hash] = [NoRelease EXCEPT !.post = b.post]]
      BY <2>1 DEF CreateRelease
    <3>2. Exists(h)
      BY <1>1, PipelineAssumption DEF Exists
    <3>3. rel'[h] = rel[h]
      BY <1>2, <3>1, <3>2 DEF TypeOK
    <3>4. QED BY <1>1, <3>1, <3>3
  <2>2. ASSUME NEW w \in Snappers, SnapWrite(w)
        PROVE  rel'[h].post = k /\ (h \in refreshed' \/ rel'[h].segs # {})
    <3>1. PICK g \in Hashes, T \in SUBSET Articles : snap[w].hash = g /\ snap[w].read = T
      BY <2>2 DEF Inv, TypeOK, SnapInv, SnapWrite
    <3>2. /\ rel' = [rel EXCEPT ![g].segs = T]
          /\ refreshed' = IF rel[g].segs = {} THEN refreshed ELSE refreshed \cup {g}
      BY <2>2, <3>1 DEF SnapWrite
    <3>3. CASE g = h
      BY <1>1, <1>2, <3>2, <3>3 DEF TypeOK, Releases
    <3>4. CASE g # h
      BY <1>1, <1>2, <3>2, <3>4 DEF TypeOK
    <3>5. QED BY <3>3, <3>4
  <2>3. ASSUME NEW g \in Hashes, PostProcessed(g)
        PROVE  rel'[h].post = k /\ (h \in refreshed' \/ rel'[h].segs # {})
    <3>1. rel' = [rel EXCEPT ![g].done = TRUE] /\ refreshed' = refreshed
      BY <2>3 DEF PostProcessed
    <3>2. rel'[h].post = rel[h].post /\ rel'[h].segs = rel[h].segs
      BY <1>2, <3>1 DEF TypeOK, Releases
    <3>3. QED BY <1>1, <3>1, <3>2
  <2>4. QED BY <1>1, <2>1, <2>2, <2>3, RelWriters
<1>5. QED BY <1>3, <1>4

\* The binary of a plain post keeps its counters but in a fold, where they
\* count what the fold links, and when it is aged out.
LEMMA CountStep ==
  ASSUME Inv, Next
  PROVE  CountInv'
<1>1. SUFFICES ASSUME NEW k \in Posts, Plain(k)
               PROVE  /\ Untouched(k)' => /\ bin'[k].collected = Cardinality(Linked(k)')
                                          /\ bin'[k].size = Cardinality(Linked(k)')
                      /\ bin'[k].complete => bin'[k].collected >= Declared[k]
  BY DEF CountInv, Plain, Of
<1>2. /\ TypeOK /\ bin[k] \in Binaries /\ k \notin Collections
      /\ Untouched(k) => /\ bin[k].collected = Cardinality(Linked(k))
                         /\ bin[k].size = Cardinality(Linked(k))
      /\ bin[k].complete => bin[k].collected >= Declared[k]
  BY <1>1 DEF Inv, TypeOK, CountInv, Plain
<1>3. Untouched(k)' => Untouched(k)
  BY TouchedStays
<1>4. \A a \in Articles : part[a] \in PartRows
  BY <1>2 DEF TypeOK
<1>5. ASSUME NEW S \in SUBSET Articles, Fold(S)
      PROVE  /\ Untouched(k)' => /\ bin'[k].collected = Cardinality(Linked(k)')
                                 /\ bin'[k].size = Cardinality(Linked(k)')
             /\ bin'[k].complete => bin'[k].collected >= Declared[k]
  <2> DEFINE T == S \cap Of(k)
  <2>1. T \in SUBSET Loose(k) /\ T \in SUBSET Of(k) /\ Linked(k) \in SUBSET Of(k)
    BY <1>5, FoldFacts DEF Fold, Linked
  <2>2. Linked(k)' = Linked(k) \cup T /\ Linked(k) \cap T = {}
    BY <1>4, <1>5, <2>1 DEF Fold, Linked, Loose, Of, PartRows
  <2>3. /\ Cardinality(T) \in Nat /\ Cardinality(Linked(k)) \in Nat
        /\ IsFiniteSet(T) /\ IsFiniteSet(Linked(k)) /\ Collected(k, T) = Cardinality(T)
    <3>1. Collected(k, T) = Cardinality(T)
      BY <1>2, <2>1, CollectedFacts
    <3>2. QED BY <2>1, <3>1, RowSets
  <2>4. Cardinality(Linked(k)') = Cardinality(Linked(k)) + Cardinality(T)
    <3>1. Cardinality(Linked(k) \cup T) = Cardinality(Linked(k)) + Cardinality(T)
      <4>1. Cardinality(Linked(k) \cup T) = Cardinality(Linked(k)) + Cardinality(T) - Cardinality({})
        BY <2>2, <2>3, FS_Union
      <4> HIDE DEF T
      <4>2. QED BY <2>3, <4>1, FS_EmptySet
    <3>2. QED BY <2>2, <3>1
  <2>5. /\ bin'[k].size = bin[k].size + Cardinality(T)
        /\ bin'[k].collected = bin[k].collected + Cardinality(T)
        /\ T # {} => bin'[k] = Upsert(k, T)
        /\ T = {} => bin'[k] = bin[k]
    BY <1>2, <1>5, <2>3, FoldBinary
  <2>6. bin'[k].complete => bin'[k].collected >= Declared[k]
    <3>1. CASE T = {}
      BY <1>2, <2>5, <3>1
    <3>2. CASE T # {}
      <4> DEFINE n == bin[k].collected + Collected(k, T)
      <4>1. bin'[k].collected = n /\ bin'[k] = Upsert(k, T)
        BY <2>3, <2>5, <3>2
      <4>2. bin'[k].complete = Complete(k, n)
        <5> HIDE DEF T
        <5>1. QED BY <1>2, <4>1 DEF Upsert, Binaries
      <4>3. Declared[k] > 0 /\ Declared[k] \in Nat
        BY <1>2, PipelineAssumption
      <4> HIDE DEF n
      <4>4. Complete(k, n) => n >= Declared[k]
        BY <1>2, <4>3 DEF Complete
      <4>5. QED BY <4>1, <4>2, <4>4, Zenon
    <3>3. QED BY <3>1, <3>2
  <2> HIDE DEF T
  <2>7. QED BY <1>2, <1>3, <2>3, <2>4, <2>5, <2>6
<1>6. CASE AgeOut
  <2>1. CASE Stale(k)
    <3>1. Linked(k)' = {}
      BY <1>6, <2>1, OfPost DEF AgeOut, Linked, NoPart, Of
    <3>2. bin'[k] = NoBinary
      BY <1>6, <2>1 DEF AgeOut
    <3>3. QED BY <3>1, <3>2, FS_EmptySet DEF NoBinary
  <2>2. CASE ~Stale(k)
    <3>1. Linked(k)' = Linked(k)
      BY <1>6, <2>2 DEF AgeOut, Linked, Of
    <3>2. bin'[k] = bin[k]
      BY <1>6, <2>2 DEF AgeOut
    <3>3. QED BY <1>2, <1>3, <3>1, <3>2
  <2>3. QED BY <2>1, <2>2
<1>7. ASSUME Settle \/ (\E j \in Posts : Age(j)) \/ MarkReleased \/ bin' = bin
      PROVE  /\ bin'[k].collected = bin[k].collected
             /\ bin'[k].size = bin[k].size
             /\ bin'[k].complete <=> bin[k].complete
  <2>1. CASE Settle
    BY <1>2, <2>1 DEF Settle
  <2>2. ASSUME NEW j \in Posts, Age(j)
        PROVE  bin'[k].collected = bin[k].collected /\ bin'[k].size = bin[k].size
               /\ (bin'[k].complete <=> bin[k].complete)
    BY <1>2, <2>2 DEF Age, TypeOK, Binaries
  <2>3. CASE MarkReleased
    BY <1>2, <2>3 DEF MarkReleased, Binaries
  <2>4. QED BY <1>7, <2>1, <2>2, <2>3
<1>8. ASSUME \A S \in SUBSET Articles : ~Fold(S), ~AgeOut, Untouched(k)'
      PROVE  Linked(k)' = Linked(k)
  <2>1. CASE part' = part
    BY <2>1 DEF Linked
  <2>2. ASSUME NEW x \in Articles, Insert(x) PROVE Linked(k)' = Linked(k)
    BY <1>2, <2>2 DEF Insert, Linked, Of, TypeOK, PartRows
  <2>3. ASSUME NEW read \in FetchHeaders, Verify(read) PROVE Linked(k)' = Linked(k)
    <3>1. \A a \in Articles : part'[a] = IF a \in NeedVerification THEN Verified(part[a], a \in read)
                                                                   ELSE part[a]
      BY <2>3 DEF Verify
    <3>2. \A a \in NeedVerification : a \in Articles /\ part[a].at = "hidden" /\ part[a] \in PartRows
      BY <1>4 DEF NeedVerification
    <3>3. ASSUME NEW a \in NeedVerification, NEW ok \in BOOLEAN
          PROVE  Verified(part[a], ok).at # "linked"
      BY <3>2 DEF Verified, PartRows
    <3>4. \A a \in Articles : part'[a].at = "linked" <=> part[a].at = "linked"
      <4>1. ASSUME NEW a \in Articles PROVE part'[a].at = "linked" <=> part[a].at = "linked"
        <5>1. (a \in read) \in BOOLEAN
          OBVIOUS
        <5>2. QED BY <3>1, <3>2, <3>3, <5>1
      <4>2. QED BY <4>1
    <3>5. QED BY <3>4 DEF Linked, Of
  <2>4. ASSUME NEW S \in SUBSET Candidates, Prune(S) PROVE Linked(k)' = Linked(k)
    <3>1. \A a \in S : Post[a] # k
      BY <1>2, <1>3, <1>8, PruneFacts
    <3>2. QED BY <2>4, <3>1 DEF Prune, Linked, Of
  <2>5. QED BY <1>8, <2>1, <2>2, <2>3, <2>4, PartWriters
<1>9. CASE \E S \in SUBSET Articles : Fold(S)
  BY <1>5, <1>9
<1>10. CASE ~AgeOut /\ \A S \in SUBSET Articles : ~Fold(S)
  <2>1. /\ bin'[k].collected = bin[k].collected /\ bin'[k].size = bin[k].size
        /\ bin'[k].complete <=> bin[k].complete
    BY <1>7, <1>10, BinWriters
  <2>2. QED BY <1>2, <1>3, <1>8, <1>10, <2>1
<1>11. QED BY <1>6, <1>9, <1>10
-----------------------------------------------------------------------------
(* Releases and what is held between statements *)

\* The binary of a plain post that is complete stays complete: a fold adds to
\* its counter and AgeOut leaves it alone.
LEMMA CompleteStays ==
  ASSUME Inv, Next, NEW k \in Posts, Plain(k), bin[k].complete
  PROVE  bin'[k].complete
<1>1. TypeOK /\ bin[k] \in Binaries /\ k \notin Collections /\ bin[k].collected >= Declared[k]
  BY DEF Inv, TypeOK, CountInv, Plain
<1>2. ASSUME NEW S \in SUBSET Articles, Fold(S) PROVE bin'[k].complete
  <2> DEFINE T == S \cap Of(k)
             n == bin[k].collected + Collected(k, T)
  <2>1. T \in SUBSET Of(k)
    OBVIOUS
  <2>2. Collected(k, T) \in Nat /\ bin[k].collected \in Nat /\ Declared[k] \in Nat
    BY <1>1, <2>1, CollectedFacts, PipelineAssumption DEF Binaries
  <2>3. n >= Declared[k]
    <3> HIDE DEF T
    <3>1. QED BY <1>1, <2>2
  <2>4. CASE T = {}
    BY <1>1, <1>2, <2>4, FoldBinary
  <2>5. CASE T # {}
    <3>1. bin'[k] = Upsert(k, T)
      BY <1>1, <1>2, <2>5, FoldBinary
    <3>2. bin'[k].complete = Complete(k, n)
      <4> HIDE DEF T
      <4>1. QED BY <1>1, <3>1 DEF Upsert, Binaries
    <3> HIDE DEF n
    <3>3. Complete(k, n)
      BY <1>1, <2>3 DEF Complete
    <3>4. QED BY <3>2, <3>3, Zenon
  <2>6. QED BY <2>4, <2>5
<1>3. CASE Settle
  BY <1>1, <1>3 DEF Settle
<1>4. CASE AgeOut
  BY <1>4 DEF AgeOut, Stale
<1>5. ASSUME NEW j \in Posts, Age(j) PROVE bin'[k].complete
  BY <1>1, <1>5 DEF Age, TypeOK
<1>6. CASE MarkReleased
  BY <1>1, <1>6 DEF MarkReleased, Binaries
<1>7. QED BY <1>2, <1>3, <1>4, <1>5, <1>6, BinWriters

\* A release keeps its post, and one without a snapshot that was never written
\* over had none before.
LEMMA ReleaseKept ==
  ASSUME Inv, Next, NEW h \in Hashes, Exists(h)
  PROVE  /\ rel'[h].post = rel[h].post
         /\ h \in refreshed => h \in refreshed'
         /\ h \notin refreshed' /\ rel[h].segs # {} => rel'[h].segs = rel[h].segs
         /\ rel'[h].segs = rel[h].segs
              \/ \E w \in Snappers : SnapWrite(w) /\ snap[w].hash = h /\ rel'[h].segs = snap[w].read
<1>1. TypeOK /\ rel[h] \in Releases
  BY DEF Inv, TypeOK
<1>2. ASSUME NEW b \in build.todo, CreateRelease(b) PROVE rel'[h] = rel[h] /\ refreshed' = refreshed
  <2>1. /\ refreshed' = refreshed
        /\ \/ rel' = rel
           \/ ~Exists(b.hash) /\ rel' = [rel EXCEPT ![b.hash] = [NoRelease EXCEPT !.post = b.post]]
    BY <1>2 DEF CreateRelease
  <2>2. QED BY <1>1, <2>1 DEF TypeOK
<1>3. ASSUME NEW w \in Snappers, SnapWrite(w)
      PROVE  /\ rel'[h].post = rel[h].post
             /\ h \in refreshed => h \in refreshed'
             /\ h \notin refreshed' /\ rel[h].segs # {} => rel'[h].segs = rel[h].segs
             /\ rel'[h].segs = rel[h].segs \/ (snap[w].hash = h /\ rel'[h].segs = snap[w].read)
  <2>1. PICK g \in Hashes, T \in SUBSET Articles : snap[w].hash = g /\ snap[w].read = T
    BY <1>3 DEF Inv, TypeOK, SnapInv, SnapWrite
  <2>2. /\ rel' = [rel EXCEPT ![g].segs = T]
        /\ refreshed' = IF rel[g].segs = {} THEN refreshed ELSE refreshed \cup {g}
    BY <1>3, <2>1 DEF SnapWrite
  <2>3. CASE g = h
    BY <1>1, <2>1, <2>2, <2>3 DEF TypeOK, Releases
  <2>4. CASE g # h
    BY <1>1, <2>2, <2>4 DEF TypeOK
  <2>5. QED BY <2>3, <2>4
<1>4. ASSUME NEW g \in Hashes, PostProcessed(g)
      PROVE  rel'[h].post = rel[h].post /\ rel'[h].segs = rel[h].segs /\ refreshed' = refreshed
  <2>1. rel' = [rel EXCEPT ![g].done = TRUE] /\ refreshed' = refreshed
    BY <1>4 DEF PostProcessed
  <2>2. QED BY <1>1, <2>1 DEF TypeOK, Releases
<1>5. QED BY <1>2, <1>3, <1>4, RelWriters

LEMMA ReleaseStep ==
  ASSUME Inv, Next
  PROVE  ReleaseInv'
<1>1. SUFFICES ASSUME NEW h \in Hashes, NEW k, rel'[h].post = k, k # NoPost, Plain(k)
               PROVE  /\ h = ReleaseHash(k, Cardinality(Of(k)))
                      /\ bin'[k].complete
                      /\ h \notin refreshed' /\ rel'[h].segs # {} => Of(k) \subseteq rel'[h].segs
  BY DEF ReleaseInv, Exists, Plain, Of, ReleaseHash
<1>2. CASE Exists(h)
  <2>1. rel[h].post = k /\ k \in Posts
    BY <1>1, <1>2, ReleaseKept DEF Inv, TypeOK, Releases, Exists
  <2>2. /\ h = ReleaseHash(k, Cardinality(Of(k))) /\ bin[k].complete
        /\ h \notin refreshed /\ rel[h].segs # {} => Of(k) \subseteq rel[h].segs
    BY <1>1, <1>2, <2>1 DEF Inv, ReleaseInv
  <2>3. bin'[k].complete
    BY <1>1, <2>1, <2>2, CompleteStays
  <2>4. ASSUME h \notin refreshed', rel'[h].segs # {} PROVE Of(k) \subseteq rel'[h].segs
    <3>1. h \notin refreshed
      BY <1>2, <2>4, ReleaseKept
    <3>2. CASE rel[h].segs # {}
      BY <1>2, <2>2, <2>4, <3>1, <3>2, ReleaseKept
    <3>3. CASE rel[h].segs = {}
      <4>1. PICK w \in Snappers : SnapWrite(w) /\ snap[w].hash = h /\ rel'[h].segs = snap[w].read
        BY <1>2, <2>4, <3>3, ReleaseKept
      <4>2. Of(k) \subseteq snap[w].read
        BY <1>1, <2>1, <3>1, <3>3, <4>1 DEF Inv, SnapInv, SnapWrite
      <4>3. QED BY <4>1, <4>2
    <3>4. QED BY <3>2, <3>3
  <2>5. QED BY <2>2, <2>3, <2>4
<1>3. CASE ~Exists(h)
  <2>1. TypeOK /\ rel[h].post = NoPost
    BY <1>3 DEF Inv, Exists
  <2>2. ~\E w \in Snappers : SnapWrite(w)
    <3>1. SUFFICES ASSUME NEW w \in Snappers, SnapWrite(w) PROVE rel'[h].post = NoPost
      BY <1>1
    <3>2. PICK T : rel' = [rel EXCEPT ![snap[w].hash].segs = T]
      BY <3>1 DEF SnapWrite
    <3>3. QED BY <2>1, <3>2 DEF TypeOK, Releases
  <2>3. ~\E g \in Hashes : PostProcessed(g)
    <3>1. SUFFICES ASSUME NEW g \in Hashes, PostProcessed(g) PROVE rel'[h].post = NoPost
      BY <1>1
    <3>2. rel' = [rel EXCEPT ![g].done = TRUE]
      BY <3>1 DEF PostProcessed
    <3>3. QED BY <2>1, <3>2 DEF TypeOK, Releases
  <2>4. PICK b \in build.todo : CreateRelease(b)
    BY <1>1, <2>1, <2>2, <2>3, RelWriters
  <2>5. /\ b.hash = h /\ b.post = k
        /\ rel'[h].segs = {}
    <3>1. b.hash \in Hashes /\ b.post \in Posts
      BY <2>1 DEF TypeOK
    <3>2. rel' = rel \/ rel' = [rel EXCEPT ![b.hash] = [NoRelease EXCEPT !.post = b.post]]
      BY <2>4 DEF CreateRelease
    <3>3. b.hash = h
      BY <1>1, <2>1, <3>1, <3>2 DEF TypeOK
    <3>4. rel'[h] = [NoRelease EXCEPT !.post = b.post]
      BY <1>1, <2>1, <3>2, <3>3 DEF TypeOK
    <3>5. QED BY <1>1, <3>3, <3>4 DEF NoRelease
  <2>6. h = ReleaseHash(k, Cardinality(Of(k))) /\ bin[k].complete /\ k \in Posts
    BY <1>1, <2>1, <2>4, <2>5 DEF Inv, BuildInv, TypeOK
  <2>7. bin'[k].complete
    BY <1>1, <2>6, CompleteStays
  <2>8. QED BY <2>5, <2>6, <2>7
<1>4. QED BY <1>2, <1>3

\* What the builder listed stays true of the binaries until it creates their
\* releases.
LEMMA HeldStep ==
  ASSUME Inv, Next
  PROVE  BuildInv' /\ RepairInv'
<1>1. TypeOK
  BY DEF Inv
<1>2. ASSUME NEW b \in build'.todo, Plain(b.post)
      PROVE  b.hash = ReleaseHash(b.post, Cardinality(Of(b.post))) /\ bin'[b.post].complete
  <2>1. CASE b \in build.todo
    <3>1. /\ b.hash = ReleaseHash(b.post, Cardinality(Of(b.post))) /\ bin[b.post].complete
          /\ b.post \in Posts
      BY <1>1, <1>2, <2>1 DEF Inv, BuildInv, TypeOK
    <3>2. QED BY <1>2, <3>1, CompleteStays
  <2>2. CASE b \notin build.todo
    <3>1. ListComplete
      <4>1. ASSUME NEW x \in build.todo, CreateRelease(x) PROVE build'.todo \subseteq build.todo
        BY <1>1, <4>1 DEF CreateRelease, TypeOK
      <4>2. build' # build /\ build' # Idle
        BY <1>2, <2>2 DEF Idle
      <4>3. QED BY <1>2, <2>2, <4>1, <4>2, HeldWriters
    <3>2. PICK k \in Unreleased : b = [post |-> k, hash |-> ReleaseHash(k, bin[k].size)]
      BY <1>2, <3>1 DEF ListComplete
    <3>3. k \in Posts /\ Plain(k) /\ bin[k].complete /\ Untouched(k) /\ b.post = k
      BY <1>2, <3>2 DEF Unreleased, Untouched
    <3>4. bin[k].size = Cardinality(Of(k))
      BY <1>1, <3>3, CompleteHolds DEF Inv
    <3>5. bin' = bin
      BY <3>1 DEF ListComplete, tables
    <3>6. QED BY <3>2, <3>3, <3>4, <3>5
  <2>3. QED BY <2>1, <2>2
<1>3. BuildInv'
  BY <1>2 DEF BuildInv, Plain, Of, ReleaseHash
<1>4. ASSUME NEW h \in repair'.todo PROVE rel'[h].post # NoPost
  <2>1. Exists(h) /\ h \in Hashes
    <3>1. CASE h \in repair.todo
      BY <1>1, <3>1 DEF Inv, RepairInv, TypeOK
    <3>2. CASE h \notin repair.todo
      <4>1. ASSUME NEW x \in repair.todo, RepairCheck(x) PROVE repair'.todo \subseteq repair.todo
        BY <1>1, <4>1 DEF RepairCheck, TypeOK
      <4>2. repair' # repair /\ repair' # Rest
        BY <1>4, <3>2 DEF Rest
      <4>3. RepairList
        BY <1>4, <3>2, <4>1, <4>2, HeldWriters
      <4>4. QED BY <1>4, <4>3 DEF RepairList
    <3>3. QED BY <3>1, <3>2
  <2>2. QED BY <2>1, ReleaseKept DEF Exists
<1>5. RepairInv'
  BY <1>4 DEF RepairInv, Exists
<1>6. QED BY <1>3, <1>5

\* A snapshot read while the release had none is whole.
LEMMA SnapStep ==
  ASSUME Inv, Next
  PROVE  SnapInv'
<1> DEFINE Good(w, h, T, at) ==
             /\ h \in Hashes
             /\ rel'[h].post # NoPost
             /\ at = "write" /\ h \notin refreshed' /\ rel'[h].segs = {} /\ Plain(rel'[h].post)
                  => Of(rel'[h].post) \subseteq T
<1>1. SUFFICES ASSUME NEW w \in Snappers, snap'[w].at # "none"
               PROVE  Good(w, snap'[w].hash, snap'[w].read, snap'[w].at)
  BY DEF SnapInv, Exists, Plain, Of
<1>2. TypeOK
  BY DEF Inv
<1>3. ASSUME snap'[w] = snap[w] PROVE Good(w, snap'[w].hash, snap'[w].read, snap'[w].at)
  <2>1. PICK h : h = snap[w].hash
    OBVIOUS
  <2>2. h \in Hashes /\ Exists(h)
    BY <1>1, <1>3, <2>1 DEF Inv, SnapInv
  <2>3. rel'[h].post = rel[h].post
    BY <2>2, ReleaseKept
  <2>4. ASSUME snap[w].at = "write", h \notin refreshed', rel'[h].segs = {}, Plain(rel[h].post)
        PROVE  Of(rel[h].post) \subseteq snap[w].read
    <3>1. h \notin refreshed /\ rel[h].segs = {}
      BY <2>2, <2>4, ReleaseKept
    <3>2. QED BY <1>1, <1>3, <2>1, <2>4, <3>1 DEF Inv, SnapInv
  <2>5. QED BY <1>3, <2>1, <2>2, <2>3, <2>4 DEF Exists
<1>4. ASSUME NEW h \in Hashes, snap'[w] = [NoSnap EXCEPT !.at = "read", !.hash = h],
             rel'[h].post # NoPost
      PROVE  Good(w, snap'[w].hash, snap'[w].read, snap'[w].at)
  BY <1>4 DEF NoSnap
<1>5. ASSUME NEW b \in build.todo, CreateRelease(b)
      PROVE  Good(w, snap'[w].hash, snap'[w].read, snap'[w].at)
  <2>1. b.hash \in Hashes /\ b.post \in Posts
    BY <1>2 DEF TypeOK
  <2>2. CASE snap' = snap
    BY <1>3, <2>2
  <2>3. CASE snap' # snap
    <3>1. /\ rel' = [rel EXCEPT ![b.hash] = [NoRelease EXCEPT !.post = b.post]]
          /\ snap' = [snap EXCEPT !["build"] = [NoSnap EXCEPT !.at = "read", !.hash = b.hash]]
      BY <1>5, <2>3 DEF CreateRelease
    <3>2. rel'[b.hash].post # NoPost
      BY <1>2, <2>1, <3>1, PipelineAssumption DEF TypeOK, NoRelease
    <3>3. CASE w = "build"
      BY <1>2, <1>4, <2>1, <3>1, <3>2, <3>3 DEF TypeOK
    <3>4. CASE w # "build"
      BY <1>2, <1>3, <3>1, <3>4 DEF TypeOK
    <3>5. QED BY <3>3, <3>4
  <2>4. QED BY <2>2, <2>3
<1>6. CASE BuildFails
  <2>1. snap' = [snap EXCEPT !["build"] = NoSnap]
    BY <1>6 DEF BuildFails
  <2>2. snap'[w] = snap[w]
    BY <1>1, <1>2, <2>1 DEF NoSnap, TypeOK
  <2>3. QED BY <1>3, <2>2
<1>7. ASSUME NEW v \in Snappers, SnapRead(v)
      PROVE  Good(w, snap'[w].hash, snap'[w].read, snap'[w].at)
  <2>1. PICK h : h = snap[v].hash
    OBVIOUS
  <2>2. h \in Hashes /\ Exists(h)
    BY <1>7, <2>1 DEF Inv, SnapInv, SnapRead
  <2>3. PICK T \in SUBSET Articles : T = Linked(rel[h].post)
    BY DEF Linked, Of
  <2>4. /\ snap' = [snap EXCEPT ![v].at = "write", ![v].read = T]
        /\ rel' = rel /\ refreshed' = refreshed
    BY <1>7, <2>1, <2>3 DEF SnapRead, SegmentsFromParts, tables
  <2>5. CASE w = v
    <3>1. snap'[w].hash = h /\ snap'[w].read = T
      BY <1>2, <2>1, <2>4, <2>5 DEF TypeOK
    <3>2. ASSUME h \notin refreshed, rel[h].segs = {}, Plain(rel[h].post)
          PROVE  Of(rel[h].post) \subseteq T
      BY <1>2, <2>2, <2>3, <3>2, PartsHold DEF Inv
    <3>3. QED BY <2>2, <2>4, <3>1, <3>2 DEF Exists
  <2>6. CASE w # v
    BY <1>2, <1>3, <2>4, <2>6 DEF TypeOK
  <2>7. QED BY <2>5, <2>6
<1>8. ASSUME NEW v \in Snappers, SnapWrite(v)
      PROVE  Good(w, snap'[w].hash, snap'[w].read, snap'[w].at)
  <2>1. snap' = [snap EXCEPT ![v] = NoSnap]
    BY <1>8 DEF SnapWrite
  <2>2. snap'[w] = snap[w]
    BY <1>1, <1>2, <2>1 DEF NoSnap, TypeOK
  <2>3. QED BY <1>3, <2>2
<1>9. ASSUME NEW h \in repair.todo, RepairCheck(h)
      PROVE  Good(w, snap'[w].hash, snap'[w].read, snap'[w].at)
  <2>1. h \in Hashes /\ Exists(h) /\ rel' = rel
    BY <1>2, <1>9 DEF Inv, RepairInv, TypeOK, RepairCheck, tables
  <2>2. CASE snap' = snap
    BY <1>3, <2>2
  <2>3. CASE snap' = [snap EXCEPT !["repair"] = [NoSnap EXCEPT !.at = "read", !.hash = h]]
    <3>1. CASE w = "repair"
      BY <1>2, <1>4, <2>1, <2>3, <3>1 DEF TypeOK, Exists
    <3>2. CASE w # "repair"
      BY <1>2, <1>3, <2>3, <3>2 DEF TypeOK
    <3>3. QED BY <3>1, <3>2
  <2>4. QED BY <1>9, <2>2, <2>3 DEF RepairCheck
<1>10. QED BY <1>3, <1>5, <1>6, <1>7, <1>8, <1>9, HeldWriters
-----------------------------------------------------------------------------
(* Theorems *)

LEMMA InvInit == Init => Inv
<1> SUFFICES ASSUME Init PROVE Inv
  OBVIOUS
<1>1. /\ \A a \in Articles : part[a] = NoPart
      /\ \A k \in Posts : bin[k] = NoBinary
      /\ \A h \in Hashes : rel[h] = NoRelease
      /\ \A w \in Snappers : snap[w] = NoSnap
  BY DEF Init
<1>2. TypeOK
  <2>1. NoPart \in PartRows /\ NoBinary \in Binaries /\ NoRelease \in Releases
    BY PipelineAssumption DEF NoPart, PartRows, NoBinary, Binaries, NoRelease, Releases
  <2>2. 0 \in 0..MaxBatches - 1 /\ 0 \in 0..MaxInserts /\ 0 \in 0..MaxRepairs /\ 0 \in 0..MaxFailures
    BY PipelineAssumption
  <2>3. /\ asm \in [at : {"fold", "settle", "age"}, batches : 0..MaxBatches - 1]
        /\ build \in [at : {"idle", "create"}, released : SUBSET Posts,
                      todo : SUBSET [post : Posts, hash : Hashes]]
        /\ repair \in [at : {"idle", "each"}, todo : SUBSET Hashes]
    BY <2>2 DEF Init, FoldStart, Idle, Rest
  <2>4. snap \in [Snappers -> [at : {"none", "read", "write"}, read : SUBSET Articles,
                               hash : Hashes \cup {NoHash}]]
    BY DEF Init, NoSnap
  <2>5. QED BY <2>1, <2>2, <2>3, <2>4 DEF Init, TypeOK
<1>3. SizeInv
  <2>1. \A k \in Posts : Unfolded(k) = {}
    BY <1>1 DEF Unfolded, Of, NoPart
  <2>2. QED BY <1>1, <2>1, FS_EmptySet DEF SizeInv, NoBinary, Init
<1>4. CountInv
  <2>1. \A k \in Posts : Linked(k) = {}
    BY <1>1 DEF Linked, Of, NoPart
  <2>2. QED BY <1>1, <2>1, FS_EmptySet DEF CountInv, NoBinary
<1>5. ReleaseInv /\ BuildInv /\ RepairInv /\ SnapInv
  BY <1>1 DEF ReleaseInv, BuildInv, RepairInv, SnapInv, Exists, NoRelease, Init, Idle, Rest, NoSnap
<1>6. QED BY <1>2, <1>3, <1>4, <1>5 DEF Inv

LEMMA InvStep == Inv /\ [Next]_vars => Inv'
<1>1. ASSUME Inv, Next PROVE Inv'
  <2>1. TypeOK' /\ SizeInv'
    BY <1>1, TypeStep, SizeStep DEF Inv
  <2>2. QED BY <1>1, <2>1, CountStep, ReleaseStep, HeldStep, SnapStep DEF Inv
<1>2. ASSUME Inv, UNCHANGED vars PROVE Inv'
  BY <1>2 DEF Inv, vars, tables, counters, TypeOK, SizeInv, Unfolded, CountInv, Untouched, Linked,
              ReleaseInv, Exists, BuildInv, RepairInv, SnapInv
<1>3. QED BY <1>1, <1>2

\* The variables keep their types; the size of a binary, which the builder
\* hashes, stays within the inserts (Build, assembleSinglesBatch).
THEOREM TypeCorrect == Spec => []TypeOK
<1>1. Inv => TypeOK
  BY DEF Inv
<1>2. QED BY <1>1, InvInit, InvStep, PTL DEF Spec

\* The NZB of a single-file release holds the whole file from the moment the
\* release exists, through failed builds, post-processing and pruning, unless
\* its snapshot was written over (CreateRelease, snapshotReleaseSegments,
\* PruneRetainedParts).
THEOREM NzbIsWhole == Spec => []NzbWhole
<1>1. Inv => NzbWhole
  <2> SUFFICES ASSUME Inv, NEW h \in Hashes \ refreshed, Exists(h), Plain(rel[h].post)
               PROVE  Of(rel[h].post) \subseteq Segments(h)
    BY DEF NzbWhole
  <2>1. CASE rel[h].segs # {}
    BY <2>1 DEF Inv, ReleaseInv, Segments
  <2>2. CASE rel[h].segs = {}
    BY <2>2, PartsHold DEF Inv, Segments, SegmentsFromParts
  <2>3. QED BY <2>1, <2>2
<1>2. QED BY <1>1, InvInit, InvStep, PTL DEF Spec
=============================================================================
