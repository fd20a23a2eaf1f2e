-------------------------- MODULE Reassembly_proofs --------------------------
(***************************************************************************)
(* Reassembly repairs without losing anything, for any parts, groupings,   *)
(* stubs, batch sizes and failures: the cursor skips no part, a torn-down  *)
(* binary leaves nothing behind, and a finished release survives.          *)
(***************************************************************************)
EXTENDS Reassembly, FiniteSetTheorems, TLAPS

\* A batch in hand is not empty, a transaction is of the batch in hand, and a
\* repair in hand is of a binary.
InHand == /\ run.at \in {"apply", "save"} => run.parts # {}
          /\ tx.at # "none" => run.at = "apply"
          /\ repair.at = "fetch" => repair.bin \in Bins

TypeInv == TypeOK /\ InHand

\* The run is where the persisted cursor is, and its batch is the next one.
AtCursor == run.at # "idle" => run.cursor = cursor
BatchWhole == run.at \in {"apply", "save"} =>
                \A p \in Parts, q \in run.parts : p <= q => p <= cursor \/ p \in run.parts
BatchDone == run.at = "save" => run.parts \subseteq planned

CursorInv == TypeInv /\ AtCursor /\ BatchWhole /\ BatchDone /\ NoPartSkipped

\* A grouping has one binary at a time, its latest; nothing refers to a binary
\* that is still to be made.
OneBinary == \A b \in bins : b[2] = gen[b[1]]
NoneAhead == \A b \in Bins : b \in run.dirty \/ (\E p \in Parts : part[p].bin = b) => b[2] <= gen[b[1]]

\* What the transaction has changed by its position, and only of what it tears
\* down; what it tears down and nobody raced for is in its sets completely.
Untouched ==
  /\ tx.at \in {"none", "begun", "protected", "regrouped"} => tx.detached = {}
  /\ tx.at \in {"none", "begun", "protected", "regrouped", "detached"} => tx.releases = {}
  /\ tx.at # "deleted" => tx.binaries = {}
OnlyTorn == tx.releases \subseteq Teardown /\ tx.binaries \subseteq Teardown
DoneKnown == tx.at \notin {"none", "begun"} =>
               \A b \in Teardown : rel[b] = "done" => b \in raced
PartsTaken == tx.at \in {"detached", "unreleased", "deleted"} =>
                \A p \in Parts : part[p].bin \in Teardown \ raced => p \in tx.detached
ReleasesTaken == tx.at \in {"unreleased", "deleted"} =>
                   \A b \in Teardown \ raced : rel[b] # "none" => b \in tx.releases
BinariesTaken == tx.at = "deleted" => Teardown \cap bins \subseteq tx.binaries

\* The repair has listed every part of its binary that has not joined since.
RepairWhole == repair.at = "fetch" =>
                 \A p \in Parts : part[p].bin = repair.bin => p \in repair.parts \/ repair.bin \in joined

TearInv == /\ TypeInv /\ OneBinary /\ NoneAhead /\ Untouched /\ OnlyTorn /\ DoneKnown
           /\ PartsTaken /\ ReleasesTaken /\ BinariesTaken /\ RepairWhole /\ TornDownWhole
-----------------------------------------------------------------------------
(* The batches *)

\* A finite set of numbers that is not empty has a greatest element, and Max is it.
LEMMA MaxIsGreatest ==
  ASSUME NEW S \in SUBSET Nat, IsFiniteSet(S), S # {}
  PROVE  Max(S) \in S /\ \A y \in S : y <= Max(S)
<1> DEFINE above(x) == {y \in S : y > x}
           T == {above(x) : x \in S}
<1>1. T \subseteq FiniteSubsetsOf(S) /\ T # {}
  <2>1. \A x \in S : above(x) \in SUBSET S
    OBVIOUS
  <2>2. \A x \in S : IsFiniteSet(above(x))
    BY <2>1, FS_Subset
  <2>3. QED BY <2>1, <2>2 DEF FiniteSubsetsOf
<1>2. PICK X \in T : \A Y \in T : <<Y, X>> \notin StrictSubsetOrdering(S)
  <2> HIDE DEF T
  <2>1. QED BY <1>1, FS_StrictSubsetOrderingWellFounded, WFMin
<1>3. PICK m \in S : X = above(m)
  BY <1>2
<1>4. ASSUME NEW y \in S PROVE y <= m
  <2>1. y \in Nat /\ m \in Nat /\ S \subseteq Nat
    OBVIOUS
  <2>2. CASE y > m
    <3>1. above(y) \in SUBSET above(m) /\ above(y) # above(m)
      <4> HIDE DEF T
      <4>1. \A z \in S : z > y => z > m
        BY <2>1, <2>2
      <4>2. y \in above(m) /\ y \notin above(y)
        BY <2>1, <2>2
      <4>3. QED BY <4>1, <4>2
    <3>2. <<above(y), above(m)>> \in StrictSubsetOrdering(S)
      BY <3>1 DEF StrictSubsetOrdering
    <3>3. QED BY <3>2, <1>2, <1>3
  <2> HIDE DEF T
  <2>3. QED BY <2>1, <2>2
<1>5. \E x \in S : \A y \in S : x >= y
  BY <1>4
<1>6. QED BY <1>5 DEF Max

\* A batch leaves no part out: whatever lies between the cursor and one of its
\* parts is in it.
LEMMA BatchClosed ==
  ASSUME NEW after \in Nat
  PROVE  LET S == ListPartsForReparse(after)
         IN /\ S \in SUBSET Parts
            /\ \A p \in Parts, q \in S : p <= q => p <= after \/ p \in S
<1> DEFINE rest == {p \in Parts : p > after}
           before(p) == {r \in rest : r < p}
           S == ListPartsForReparse(after)
<1>1. S = {p \in rest : Cardinality(before(p)) < BatchSize}
  BY DEF ListPartsForReparse
<1>2. ASSUME NEW p \in Parts, NEW q \in S, p <= q, p > after
      PROVE  p \in S
  <2>1. p \in rest /\ q \in rest
    BY <1>1, <1>2
  <2>2. before(q) \in SUBSET Parts /\ before(p) \in SUBSET before(q)
    <3>1. rest \subseteq Nat /\ rest \subseteq Parts
      BY ReassemblyAssumption
    <3> HIDE DEF rest
    <3>2. \A r \in before(p) : r < q
      BY <3>1, <2>1, <1>2
    <3>3. QED BY <3>1, <3>2
  <2>3. IsFiniteSet(before(q))
    BY <2>2, ReassemblyAssumption, FS_Subset
  <2>4. /\ Cardinality(before(p)) <= Cardinality(before(q))
        /\ Cardinality(before(p)) \in Nat /\ Cardinality(before(q)) \in Nat
    BY <2>2, <2>3, FS_Subset, FS_CardinalityType
  <2>5. Cardinality(before(q)) < BatchSize
    BY <1>1
  <2> HIDE DEF before, rest, S
  <2>6. QED BY <1>1, <2>1, <2>4, <2>5, ReassemblyAssumption
<1>3. \A p \in Parts : p \in Nat
  BY ReassemblyAssumption
<1>4. QED BY <1>1, <1>2, <1>3
-----------------------------------------------------------------------------
(* Type correctness *)

LEMMA NoBinIsNone == NoBin \notin Bins
BY DEF NoBin, Bins

\* A binary is the pair of its grouping and its generation.
LEMMA BinParts ==
  ASSUME NEW b \in Bins
  PROVE  b = <<b[1], b[2]>> /\ b[1] \in Keys /\ b[2] \in 1..MaxGen /\ b[2] \in Nat
BY ReassemblyAssumption DEF Bins

\* A run about to list a batch.
Listing(c, n) == [NoRun EXCEPT !.at = "list", !.cursor = c, !.batches = n]

LEMMA ListingTyped ==
  ASSUME NEW c \in Nat, NEW n \in Nat
  PROVE  /\ Listing(c, n) \in Runs
         /\ Listing(c, n).at = "list" /\ Listing(c, n).cursor = c /\ Listing(c, n).dirty = {}
BY DEF Listing, NoRun, Runs

LEMMA InitTyped == Init => TypeInv
<1> SUFFICES ASSUME Init PROVE TypeInv
  OBVIOUS
<1> USE DEF Init
<1>1. ASSUME NEW p \in Parts PROVE <<Stored[p], 1>> \in Bins
  <2>1. Stored[p] \in Keys
    BY ReassemblyAssumption
  <2>2. 1 \in 1..MaxGen
    BY ReassemblyAssumption
  <2>3. QED BY <2>1, <2>2 DEF Bins
<1>2. part \in [Parts -> [key : Keys, bin : Bins \cup {NoBin}]]
  <2> HIDE DEF Bins, NoBin
  <2>1. QED BY <1>1, ReassemblyAssumption
<1>3. bins \subseteq Bins
  BY <1>1, ReassemblyAssumption
<1>4. gen \in [Keys -> 0..MaxGen]
  BY ReassemblyAssumption
<1>5. run \in Runs
  BY DEF Runs, NoRun
<1>6. tx \in Txs
  BY DEF Txs, NoTx
<1>7. QED BY <1>2, <1>3, <1>4, <1>5, <1>6 DEF TypeInv, TypeOK, InHand, NoRun, NoTx, NoRepair

\* The binary the parts of a grouping are folded into: the one it has, or its next.
FoldInto(k) == LET old == {b \in bins : KeyOf(b) = k}
               IN IF old # {} THEN CHOOSE o \in old : TRUE ELSE <<k, gen[k] + 1>>

LEMMA FoldTarget ==
  ASSUME TypeOK, NEW k \in Keys, Fold(k)
  PROVE  /\ FoldInto(k) \in Bins /\ KeyOf(FoldInto(k)) = k
         /\ \/ FoldInto(k) \in bins \ tx.binaries
            \/ FoldInto(k)[2] = gen[k] + 1 /\ \A b \in bins : KeyOf(b) # k
         /\ part' = [p \in Parts |-> IF p \in Loose(k) THEN [part[p] EXCEPT !.bin = FoldInto(k)]
                                     ELSE part[p]]
         /\ bins' = bins \cup {FoldInto(k)}
         /\ gen' = [gen EXCEPT ![k] = FoldInto(k)[2]]
         /\ raced' = raced \cup {c \in {FoldInto(k)} : Tearing(c) /\ tx.at \in {"detached", "unreleased"}}
         /\ joined' = joined \cup {c \in {FoldInto(k)} : repair.bin = c}
         /\ UNCHANGED <<rel, verified, cursor, run, tx, repair, planned, failures>>
<1> DEFINE old == {b \in bins : KeyOf(b) = k}
<1>1. CASE old # {}
  <2>1. FoldInto(k) \in old
    BY <1>1 DEF FoldInto
  <2>2. old \cap tx.binaries = {}
    BY DEF Fold
  <2>3. FoldInto(k) \in Bins /\ KeyOf(FoldInto(k)) = k /\ FoldInto(k) \in bins \ tx.binaries
    BY <2>1, <2>2 DEF TypeOK
  <2>4. QED BY <2>3 DEF Fold, FoldInto
<1>2. CASE old = {}
  <2>1. FoldInto(k) = <<k, gen[k] + 1>>
    BY <1>2 DEF FoldInto
  <2>2. gen[k] \in 0..MaxGen /\ gen[k] < MaxGen
    BY <1>2 DEF Fold, TypeOK
  <2>3. FoldInto(k) \in Bins /\ KeyOf(FoldInto(k)) = k /\ FoldInto(k)[2] = gen[k] + 1
    BY <2>1, <2>2, ReassemblyAssumption DEF Bins, KeyOf
  <2>4. QED BY <1>2, <2>3 DEF Fold, FoldInto
<1>3. QED BY <1>1, <1>2

\* Every step keeps the types.
LEMMA StepTyped == TypeInv /\ [Next]_vars => TypeOK'
<1> SUFFICES ASSUME TypeOK, InHand, [Next]_vars PROVE TypeOK'
  BY DEF TypeInv
<1>a. /\ part \in [Parts -> [key : Keys, bin : Bins \cup {NoBin}]]
      /\ bins \subseteq Bins /\ gen \in [Keys -> 0..MaxGen]
      /\ rel \in [Bins -> {"none", "pending", "done"}] /\ verified \subseteq Bins
      /\ cursor \in Parts \cup {0} /\ run \in Runs /\ tx \in Txs
      /\ repair \in [at : {"idle", "fetch"}, bin : Bins \cup {NoBin}, parts : SUBSET Parts]
  BY DEF TypeOK
<1>b. Parts \subseteq Nat /\ IsFiniteSet(Parts) /\ cursor \in Nat
  BY <1>a, ReassemblyAssumption
<1>1. ASSUME NEW k \in Keys, Fold(k) PROVE TypeOK'
  <2>1. FoldInto(k) \in Bins
    BY <1>1, FoldTarget
  <2>2. part' \in [Parts -> [key : Keys, bin : Bins \cup {NoBin}]]
    BY <1>1, <1>a, <2>1, FoldTarget
  <2>3. FoldInto(k)[2] \in 0..MaxGen
    BY <2>1, BinParts, ReassemblyAssumption
  <2>4. gen' \in [Keys -> 0..MaxGen] /\ bins' \subseteq Bins
    BY <1>1, <1>a, <2>1, <2>3, FoldTarget
  <2>5. UNCHANGED <<rel, verified, cursor, run, tx, repair>>
    BY <1>1, FoldTarget
  <2>6. QED BY <1>a, <2>2, <2>4, <2>5 DEF TypeOK
<1>2. ASSUME NEW b \in Bins, CreateRelease(b) \/ Finish(b) PROVE TypeOK'
  BY <1>2, <1>a DEF CreateRelease, Finish, TypeOK
<1>3. ASSUME NEW p \in Parts, Verify(p) PROVE TypeOK'
  <2>1. part' \in [Parts -> [key : Keys, bin : Bins \cup {NoBin}]]
    BY <1>3, <1>a, ReassemblyAssumption DEF Verify
  <2>2. QED BY <1>3, <1>a, <2>1 DEF Verify, TypeOK
<1>4. CASE RunStarts \/ RunReturns
  <2>1. run' \in Runs
    <3>1. NoRun \in Runs
      BY DEF Runs, NoRun
    <3>2. CASE RunStarts
      BY <3>1, <3>2, <1>b DEF RunStarts, Runs
    <3>3. QED BY <1>4, <3>1, <3>2 DEF RunReturns
  <2>2. QED BY <1>4, <1>a, <2>1 DEF RunStarts, RunReturns, TypeOK, tables
<1>5. CASE Plan
  <2> DEFINE S == ListPartsForReparse(run.cursor)
  <2>1. S \in SUBSET Parts
    BY DEF ListPartsForReparse
  <2>2. Updates(S) \in SUBSET Parts /\ Dirty(S) \in SUBSET Bins
    BY <2>1, <1>a DEF Updates, Dirty
  <2>3. run' \in Runs
    <3> HIDE DEF S
    <3>1. run' = [run EXCEPT !.parts = S, !.updates = Updates(S), !.dirty = Dirty(S),
                             !.attempt = 0,
                             !.at = IF Updates(S) = {} THEN "save" ELSE "apply"]
      BY <1>5 DEF Plan, S
    <3>2. QED BY <1>a, <2>1, <2>2, <3>1 DEF Runs
  <2>4. QED BY <1>5, <1>a, <2>3 DEF Plan, TypeOK, tables
<1>6. CASE SaveCursor
  <2>1. run.parts \in SUBSET Parts /\ run.parts # {} /\ run.batches \in Nat
    BY <1>6, <1>a DEF Runs, SaveCursor, InHand
  <2>2. cursor' = Max(run.parts)
    BY <1>6 DEF SaveCursor
  <2>3. IsFiniteSet(run.parts) /\ run.parts \in SUBSET Nat
    BY <2>1, <1>b, FS_Subset
  <2>4. cursor' \in Parts /\ cursor' \in Nat
    BY <2>1, <2>2, <2>3, <1>b, MaxIsGreatest
  <2>5. run' \in Runs
    <3>1. run' = Listing(cursor', run.batches + 1)
      BY <1>6 DEF SaveCursor, Listing
    <3>2. run.batches + 1 \in Nat
      BY <2>1
    <3>3. QED BY <2>4, <3>1, <3>2, ListingTyped, Zenon
  <2>6. QED BY <1>6, <1>a, <2>4, <2>5 DEF SaveCursor, TypeOK, tables
<1>7. CASE ApplyReparse /\ ~Commit
  <2>1. run.dirty \in SUBSET Bins /\ run.updates \in SUBSET Parts
    BY <1>a DEF Runs
  <2>2. Finished \in SUBSET Bins /\ Teardown \in SUBSET Bins /\ Detached \in SUBSET Parts
    BY <2>1 DEF Finished, Teardown, Detached
  <2>3. tx' \in Txs
    <3>1. NoTx \in Txs
      BY DEF Txs, NoTx
    <3>2. CASE Begin
      BY <3>1, <3>2 DEF Begin, Txs
    <3>3. CASE Protect
      BY <3>3, <1>a, <2>2 DEF Protect, Txs
    <3>4. CASE Regroup
      BY <3>4, <1>a, <2>1 DEF Regroup, Txs
    <3>5. CASE Detach
      BY <3>5, <1>a, <2>2 DEF Detach, Txs
    <3>6. CASE DeleteReleases
      BY <3>6, <1>a, <2>2 DEF DeleteReleases, Txs
    <3>7. CASE DeleteBinaries
      BY <3>7, <1>a, <2>2 DEF DeleteBinaries, Txs
    <3>8. QED BY <1>7, <3>2, <3>3, <3>4, <3>5, <3>6, <3>7 DEF ApplyReparse
  <2>4. UNCHANGED <<tables, cursor, run, repair>>
    BY <1>7 DEF ApplyReparse, Begin, Protect, Regroup, Detach, DeleteReleases, DeleteBinaries
  <2>5. QED BY <1>a, <2>3, <2>4 DEF TypeOK, tables
<1>15. CASE Commit
  <2>1. part' \in [Parts -> [key : Keys, bin : Bins \cup {NoBin}]]
    BY <1>15, <1>a, ReassemblyAssumption DEF Commit
  <2>2. rel' \in [Bins -> {"none", "pending", "done"}] /\ bins' \subseteq Bins
    BY <1>15, <1>a DEF Commit
  <2>3. run' \in Runs
    BY <1>15, <1>a DEF Commit, Runs
  <2>4. tx' \in Txs
    BY <1>15 DEF Commit, NoTx, Txs
  <2>5. QED BY <1>15, <1>a, <2>1, <2>2, <2>3, <2>4 DEF Commit, TypeOK
<1>8. CASE Deadlock \/ RunFails
  <2>1. run' \in Runs
    BY <1>8, <1>a DEF Deadlock, RunFails, AfterDeadlock, Runs, NoRun
  <2>2. tx' \in Txs
    BY <1>8 DEF Deadlock, RunFails, Fails, Txs, NoTx
  <2>3. QED BY <1>8, <1>a, <2>1, <2>2 DEF Deadlock, RunFails, Fails, TypeOK, tables
<1>9. ASSUME NEW b \in Bins, RepairList(b) PROVE TypeOK'
  BY <1>9, <1>a DEF RepairList, TypeOK, tables
<1>10. CASE RepairFailed
  BY <1>10, <1>a DEF RepairFailed, NoRepair, TypeOK, tables
<1>11. CASE RepairStandalone
  BY <1>11, <1>a DEF RepairStandalone, InHand, NoRepair, TypeOK
<1>12. CASE discardStubRelease
  <2>1. part' \in [Parts -> [key : Keys, bin : Bins \cup {NoBin}]]
    BY <1>12, <1>a, ReassemblyAssumption DEF discardStubRelease
  <2>2. rel' \in [Bins -> {"none", "pending", "done"}] /\ bins' \subseteq Bins
    BY <1>12, <1>a DEF discardStubRelease
  <2>3. QED BY <1>12, <1>a, <2>1, <2>2 DEF discardStubRelease, NoRepair, TypeOK
<1>13. CASE UNCHANGED vars
  BY <1>13, <1>a DEF vars, tables, TypeOK
<1>14. QED
  BY <1>1, <1>2, <1>3, <1>4, <1>5, <1>6, <1>7, <1>8, <1>9, <1>10, <1>11, <1>12, <1>13, <1>15
     DEF Next, RunStep, RunRepair

\* The run and the repair have something in hand when they say so.
LEMMA StepInHand == TypeInv /\ [Next]_vars => InHand'
<1> SUFFICES ASSUME TypeOK, InHand, [Next]_vars PROVE InHand'
  BY DEF TypeInv
<1>1. CASE UNCHANGED <<run, repair, tx>>
  BY <1>1 DEF InHand
<1>2. CASE Plan
  BY <1>2 DEF Plan, InHand, TypeOK, Runs
<1>3. CASE RunStarts \/ RunReturns \/ SaveCursor
  <2>1. run.at # "apply" /\ tx.at = "none" /\ tx' = tx /\ run'.at \in {"idle", "list"}
    <3>1. CASE SaveCursor
      <4>1. PICK c, n : run' = [NoRun EXCEPT !.at = "list", !.cursor = c, !.batches = n]
        BY <3>1, Zenon DEF SaveCursor
      <4>2. QED BY <3>1, <4>1 DEF SaveCursor, NoRun, InHand
    <3>2. CASE RunStarts
      BY <3>2 DEF RunStarts, NoRun, InHand
    <3>3. CASE RunReturns
      BY <3>3 DEF RunReturns, NoRun, InHand
    <3>4. QED BY <1>3, <3>1, <3>2, <3>3
  <2>2. UNCHANGED repair
    BY <1>3 DEF RunStarts, RunReturns, SaveCursor
  <2>3. QED BY <2>1, <2>2 DEF InHand
<1>4. CASE Commit
  BY <1>4 DEF Commit, NoTx, InHand, TypeOK, Runs
<1>5. CASE Deadlock \/ RunFails
  BY <1>5 DEF Deadlock, RunFails, Fails, AfterDeadlock, NoRun, NoTx, InHand, TypeOK, Runs
<1>9. CASE ApplyReparse /\ ~Commit
  <2>1. run.at = "apply" /\ UNCHANGED <<run, repair>>
    BY <1>9 DEF ApplyReparse, Begin, Protect, Regroup, Detach, DeleteReleases, DeleteBinaries, InHand
  <2>2. QED BY <2>1 DEF InHand
<1>6. ASSUME NEW b \in Bins, RepairList(b) PROVE InHand'
  BY <1>6 DEF RepairList, InHand
<1>7. CASE RepairFailed \/ RepairStandalone \/ discardStubRelease
  BY <1>7 DEF RepairFailed, RepairStandalone, discardStubRelease, NoRepair, InHand
<1>8. QED
  BY <1>1, <1>2, <1>3, <1>4, <1>5, <1>6, <1>7, <1>9
     DEF Next, RunStep, RunRepair, Fold, CreateRelease, Finish, Verify, vars

\* The parts table refers to binaries or nothing, run and transaction are what
\* their types say, through every crash and whatever the pipeline does.
THEOREM TypeCorrect == Spec => []TypeOK
<1>1. TypeInv /\ [Next]_vars => TypeInv'
  BY StepTyped, StepInHand DEF TypeInv
<1>2. TypeInv => TypeOK
  BY DEF TypeInv
<1>3. QED BY InitTyped, <1>1, <1>2, PTL DEF Spec
-----------------------------------------------------------------------------
(* The cursor *)

LEMMA CursorInit == Init => CursorInv
<1> SUFFICES ASSUME Init PROVE CursorInv
  OBVIOUS
<1>1. NoPartSkipped
  BY ReassemblyAssumption DEF Init, NoPartSkipped
<1>2. QED BY <1>1, InitTyped DEF Init, CursorInv, AtCursor, BatchWhole, BatchDone, NoRun

LEMMA CursorStep == CursorInv /\ [Next]_vars => CursorInv'
<1> SUFFICES ASSUME CursorInv, [Next]_vars PROVE CursorInv'
  OBVIOUS
<1>a. TypeInv /\ TypeOK /\ InHand /\ AtCursor /\ BatchWhole /\ BatchDone /\ NoPartSkipped
  BY DEF CursorInv, TypeInv
<1>b. TypeInv'
  BY <1>a, StepTyped, StepInHand DEF TypeInv
<1>c. Parts \subseteq Nat /\ IsFiniteSet(Parts) /\ cursor \in Nat /\ run \in Runs
  BY <1>a, ReassemblyAssumption DEF TypeOK
<1> USE DEF CursorInv
<1>1. CASE UNCHANGED <<run, cursor, planned>>
  BY <1>a, <1>b, <1>1 DEF AtCursor, BatchWhole, BatchDone, NoPartSkipped
<1>2. CASE RunStarts \/ RunReturns
  <2>1. UNCHANGED <<cursor, planned>> /\ run'.at \in {"list", "idle"}
        /\ (run'.at = "list" => run'.cursor = cursor)
    <3>1. CASE RunStarts
      BY <3>1 DEF RunStarts, NoRun
    <3>2. CASE RunReturns
      BY <3>2 DEF RunReturns, NoRun
    <3>3. QED BY <1>2, <3>1, <3>2
  <2>2. QED BY <1>a, <1>b, <2>1 DEF AtCursor, BatchWhole, BatchDone, NoPartSkipped
<1>3. CASE Plan
  <2> DEFINE S == ListPartsForReparse(run.cursor)
  <2>1. run.cursor = cursor
    BY <1>3, <1>a DEF AtCursor, Plan
  <2>2. S \in SUBSET Parts /\ \A p \in Parts, q \in S : p <= q => p <= cursor \/ p \in S
    BY <1>c, <2>1, BatchClosed
  <2>3. /\ run'.parts = S /\ run'.cursor = run.cursor /\ run'.at \in {"save", "apply"}
        /\ run'.at = "save" => planned' = planned \cup S
        /\ planned \subseteq planned'
        /\ UNCHANGED cursor
    BY <1>3, <1>c DEF Plan, Runs
  <2> HIDE DEF S
  <2>4. QED BY <1>a, <1>b, <2>1, <2>2, <2>3 DEF AtCursor, BatchWhole, BatchDone, NoPartSkipped
<1>4. CASE SaveCursor
  <2>1. run.at = "save" /\ cursor' = Max(run.parts) /\ UNCHANGED planned
    BY <1>4 DEF SaveCursor
  <2>2. run.parts \in SUBSET Parts /\ run.parts # {} /\ run.batches \in Nat
    BY <1>a, <1>c, <2>1 DEF InHand, Runs
  <2>3. run.parts \in SUBSET Nat /\ IsFiniteSet(run.parts)
    BY <2>2, <1>c, FS_Subset
  <2>4. cursor' \in run.parts /\ cursor' \in Nat
    BY <2>1, <2>2, <2>3, MaxIsGreatest
  <2>5. \A p \in Parts : p <= cursor' => p <= cursor \/ p \in run.parts
    BY <1>a, <2>1, <2>4 DEF BatchWhole
  <2>6. NoPartSkipped'
    BY <1>a, <2>1, <2>5 DEF NoPartSkipped, BatchDone
  <2>7. run'.at = "list" /\ run'.cursor = cursor'
    <3>1. run' = Listing(cursor', run.batches + 1)
      BY <1>4 DEF SaveCursor, Listing
    <3>2. run.batches + 1 \in Nat
      BY <2>2
    <3>3. PICK n \in Nat : run' = Listing(cursor', n)
      BY <3>1, <3>2, Zenon
    <3>4. QED BY <2>4, <3>3, ListingTyped
  <2>8. QED BY <1>b, <2>6, <2>7 DEF AtCursor, BatchWhole, BatchDone
<1>5. CASE Commit
  <2>1. /\ run'.parts = run.parts /\ run'.cursor = run.cursor /\ run'.at = "save"
        /\ planned' = planned \cup run.parts /\ UNCHANGED cursor
    BY <1>5, <1>c DEF Commit, Runs
  <2>2. run.at = "apply"
    BY <1>5, <1>a DEF Commit, InHand
  <2>3. QED BY <1>a, <1>b, <2>1, <2>2 DEF AtCursor, BatchWhole, BatchDone, NoPartSkipped
<1>6. CASE Deadlock \/ RunFails
  <2>1. UNCHANGED <<cursor, planned>>
    BY <1>6 DEF Deadlock, RunFails, Fails
  <2>2. run'.at = "idle" \/ (run.at = "apply" /\ run'.at = "apply" /\ run'.parts = run.parts
                                              /\ run'.cursor = run.cursor)
    <3>1. CASE run' = NoRun
      BY <3>1 DEF NoRun
    <3>2. CASE run' = [run EXCEPT !.attempt = @ + 1] /\ tx.at # "none"
      BY <3>2, <1>a, <1>c DEF InHand, Runs
    <3>3. QED BY <1>6, <3>1, <3>2 DEF Deadlock, RunFails, AfterDeadlock
  <2>3. QED BY <1>a, <1>b, <2>1, <2>2 DEF AtCursor, BatchWhole, BatchDone, NoPartSkipped
<1>7. QED
  BY <1>1, <1>2, <1>3, <1>4, <1>5, <1>6
     DEF Next, RunStep, RunRepair, ApplyReparse, Fold, CreateRelease, Finish, Verify,
         Begin, Protect, Regroup, Detach, DeleteReleases, DeleteBinaries,
         RepairList, RepairFailed, RepairStandalone, discardStubRelease, vars

\* Reassembler.Run never skips a range of parts: whatever the persisted cursor has
\* passed was in a batch that needed nothing or was committed, through deadlocks,
\* failed statements and restarts.
THEOREM CursorSkipsNothing == Spec => []NoPartSkipped
<1>1. CursorInv => NoPartSkipped
  BY DEF CursorInv
<1>2. QED BY CursorInit, CursorStep, <1>1, PTL DEF Spec
-----------------------------------------------------------------------------
(* Tearing down *)

LEMMA TearInit == Init => TearInv
<1> SUFFICES ASSUME Init PROVE TearInv
  OBVIOUS
<1>1. TypeInv /\ TypeOK
  BY InitTyped DEF TypeInv
<1>2. OneBinary
  BY ReassemblyAssumption DEF Init, OneBinary
<1>3. NoneAhead
  <2>1. \A p \in Parts : part[p].bin # NoBin => part[p].bin \in bins
    BY DEF Init
  <2>2. \A b \in bins : b[2] = gen[b[1]] /\ b[2] \in Nat
    BY <1>1, <1>2, BinParts DEF OneBinary, TypeOK
  <2>3. run.dirty = {}
    BY DEF Init, NoRun
  <2>4. QED BY <2>1, <2>2, <2>3, NoBinIsNone DEF NoneAhead
<1>4. TornDownWhole
  BY NoBinIsNone DEF Init, TornDownWhole
<1>5. QED
  BY <1>1, <1>2, <1>3, <1>4
     DEF TearInv, Init, Untouched, OnlyTorn, DoneKnown, PartsTaken, ReleasesTaken, BinariesTaken,
         RepairWhole, NoTx, NoRepair

\* A step that leaves alone what TearInv is about, or only forgets the transaction.
LEMMA TearKept ==
  ASSUME TearInv, TypeInv', UNCHANGED <<part, bins, gen, rel, raced, joined>>,
         \/ UNCHANGED <<run, tx>>
         \/ tx' = NoTx /\ run'.dirty \subseteq run.dirty
         \/ tx.at = "none" /\ tx' = tx /\ run'.dirty \subseteq run.dirty,
         \/ UNCHANGED repair
         \/ repair'.at # "fetch"
  PROVE  TearInv'
<1> USE DEF TearInv
<1>1. /\ OneBinary' /\ NoneAhead' /\ TornDownWhole' /\ RepairWhole'
  BY DEF OneBinary, NoneAhead, TornDownWhole, RepairWhole
<1>2. CASE UNCHANGED <<run, tx>>
  BY <1>1, <1>2 DEF Untouched, OnlyTorn, DoneKnown, PartsTaken, ReleasesTaken, BinariesTaken, Teardown
<1>3. CASE tx'.at = "none" /\ tx'.detached = {} /\ tx'.releases = {} /\ tx'.binaries = {}
  BY <1>1, <1>3 DEF Untouched, OnlyTorn, DoneKnown, PartsTaken, ReleasesTaken, BinariesTaken
<1>4. QED BY <1>2, <1>3 DEF NoTx, Untouched

LEMMA TearStep == TearInv /\ [Next]_vars => TearInv'
<1> SUFFICES ASSUME TearInv, [Next]_vars PROVE TearInv'
  OBVIOUS
<1>a. /\ TypeInv /\ TypeOK /\ InHand /\ OneBinary /\ NoneAhead /\ Untouched /\ OnlyTorn /\ DoneKnown
      /\ PartsTaken /\ ReleasesTaken /\ BinariesTaken /\ RepairWhole /\ TornDownWhole
  BY DEF TearInv, TypeInv
<1>b. TypeInv'
  BY <1>a, StepTyped, StepInHand DEF TypeInv
<1>c. /\ part \in [Parts -> [key : Keys, bin : Bins \cup {NoBin}]]
      /\ bins \subseteq Bins /\ gen \in [Keys -> 0..MaxGen]
      /\ rel \in [Bins -> {"none", "pending", "done"}] /\ run \in Runs /\ tx \in Txs
      /\ run.dirty \subseteq Bins
  BY <1>a DEF TypeOK, Runs
<1>1. ASSUME NEW k \in Keys, Fold(k) PROVE TearInv'
  <2> DEFINE f == FoldInto(k)
  <2>1. /\ f \in Bins /\ f[1] = k
        /\ f \in bins \ tx.binaries \/ (f[2] = gen[k] + 1 /\ \A b \in bins : b[1] # k)
        /\ bins' = bins \cup {f} /\ gen' = [gen EXCEPT ![k] = f[2]]
        /\ UNCHANGED <<rel, run, tx, repair>>
        /\ raced \subseteq raced' /\ joined \subseteq joined'
        /\ f \in Teardown /\ tx.at \in {"detached", "unreleased"} => f \in raced'
        /\ repair.bin = f => f \in joined'
    BY <1>1, <1>a, FoldTarget DEF KeyOf, Tearing, Teardown
  <2>2. \A p \in Parts : part'[p].bin = f \/ part'[p].bin = part[p].bin
    BY <1>1, <1>a, <1>c, FoldTarget
  <2> HIDE DEF f
  <2>3. gen[k] \in Nat /\ f[2] \in Nat /\ f = <<k, f[2]>>
    BY <1>c, <2>1, BinParts, ReassemblyAssumption
  <2>4. \A b \in Bins : b[1] = k /\ b[2] = f[2] => b = f
    BY <2>3, BinParts
  <2>5. gen[k] <= f[2] /\ (f \in bins => f[2] = gen[k]) /\ gen'[k] = f[2]
    BY <1>a, <1>c, <2>1, <2>3 DEF OneBinary
  <2>6. OneBinary'
    BY <1>a, <1>c, <2>1, <2>5, BinParts DEF OneBinary
  <2>7. NoneAhead'
    <3> SUFFICES ASSUME NEW b \in Bins, b \in run.dirty \/ \E p \in Parts : part'[p].bin = b
                 PROVE  b[2] <= gen'[b[1]]
      BY <2>1 DEF NoneAhead
    <3>1. CASE b = f
      BY <3>1, <2>1, <2>3, <2>5
    <3>2. CASE b # f
      <4>1. b[2] <= gen[b[1]] /\ b[2] \in Nat /\ b[1] \in Keys
        BY <3>2, <1>a, <2>2, BinParts DEF NoneAhead
      <4>2. CASE b[1] = k
        BY <4>1, <4>2, <2>3, <2>5
      <4>3. CASE b[1] # k
        BY <4>1, <4>3, <2>1, <1>c
      <4>4. QED BY <4>2, <4>3
    <3>3. QED BY <3>1, <3>2
  <2>8. f \in Teardown => f \in bins
    <3>1. f \in run.dirty => f[2] <= gen[k]
      BY <1>a, <2>1 DEF NoneAhead
    <3>2. QED BY <3>1, <2>1, <2>3 DEF Teardown
  <2>9. tx.at = "deleted" => f \notin Teardown
    BY <1>a, <2>1, <2>3, <2>5, <2>8 DEF BinariesTaken
  <2>10. Untouched' /\ OnlyTorn' /\ Teardown' = Teardown
    BY <1>a, <2>1 DEF Untouched, OnlyTorn, Teardown
  <2>11. DoneKnown' /\ ReleasesTaken' /\ BinariesTaken'
    BY <1>a, <2>1, <2>8, <2>9, <2>10 DEF DoneKnown, ReleasesTaken, BinariesTaken
  <2>12. PartsTaken'
    BY <1>a, <2>1, <2>2, <2>9, <2>10 DEF PartsTaken
  <2>13. RepairWhole'
    BY <1>a, <2>1, <2>2 DEF RepairWhole
  <2>14. TornDownWhole'
    BY <1>a, <2>1, <2>2 DEF TornDownWhole
  <2>15. QED BY <1>b, <2>6, <2>7, <2>10, <2>11, <2>12, <2>13, <2>14 DEF TearInv
<1>2. ASSUME NEW b \in Bins, CreateRelease(b) PROVE TearInv'
  <2>1. /\ b \in bins \ tx.binaries /\ rel' = [rel EXCEPT ![b] = "pending"]
        /\ raced \subseteq raced' /\ (b \in Teardown /\ tx.at = "unreleased" => b \in raced')
        /\ UNCHANGED <<part, bins, gen, run, tx, repair, joined>>
    BY <1>2 DEF CreateRelease, Tearing, Teardown
  <2>2. tx.at = "deleted" => b \notin Teardown
    BY <1>a, <2>1 DEF BinariesTaken
  <2>3. Teardown' = Teardown
    BY <2>1 DEF Teardown
  <2>4. OneBinary' /\ NoneAhead' /\ Untouched' /\ OnlyTorn' /\ BinariesTaken' /\ RepairWhole'
    BY <1>a, <2>1, <2>3
       DEF OneBinary, NoneAhead, Untouched, OnlyTorn, BinariesTaken, RepairWhole
  <2>5. DoneKnown' /\ PartsTaken'
    BY <1>a, <1>c, <2>1, <2>3 DEF DoneKnown, PartsTaken, Teardown
  <2>6. ReleasesTaken'
    BY <1>a, <1>c, <2>1, <2>2, <2>3 DEF ReleasesTaken, Teardown
  <2>7. TornDownWhole'
    BY <1>a, <1>c, <2>1 DEF TornDownWhole
  <2>8. QED BY <1>b, <2>4, <2>5, <2>6, <2>7 DEF TearInv
<1>3. ASSUME NEW b \in Bins, Finish(b) PROVE TearInv'
  <2>1. /\ rel[b] = "pending" /\ b \notin tx.releases /\ rel' = [rel EXCEPT ![b] = "done"]
        /\ raced \subseteq raced'
        /\ b \in Teardown /\ tx.at \in {"protected", "regrouped", "detached"} => b \in raced'
        /\ UNCHANGED <<part, bins, gen, run, tx, repair, joined>>
    BY <1>3 DEF Finish, Tearing, Teardown
  <2>2. tx.at \in {"unreleased", "deleted"} => b \notin Teardown \ raced
    BY <1>a, <2>1 DEF ReleasesTaken
  <2>3. Teardown' = Teardown
    BY <2>1 DEF Teardown
  <2>4. OneBinary' /\ NoneAhead' /\ Untouched' /\ OnlyTorn' /\ BinariesTaken' /\ RepairWhole'
    BY <1>a, <2>1, <2>3
       DEF OneBinary, NoneAhead, Untouched, OnlyTorn, BinariesTaken, RepairWhole
  <2>5. tx.at \in {"none", "begun", "protected", "regrouped", "detached", "unreleased", "deleted"}
    BY <1>c DEF Txs
  <2>6. DoneKnown'
    BY <1>a, <1>c, <2>1, <2>2, <2>3, <2>5 DEF DoneKnown, Teardown
  <2>7. PartsTaken' /\ ReleasesTaken'
    BY <1>a, <1>c, <2>1, <2>2, <2>3 DEF PartsTaken, ReleasesTaken, Teardown
  <2>8. TornDownWhole'
    BY <1>a, <1>c, <2>1 DEF TornDownWhole
  <2>9. QED BY <1>b, <2>4, <2>6, <2>7, <2>8 DEF TearInv
<1>4. ASSUME NEW p \in Parts, Verify(p) PROVE TearInv'
  <2>1. \A q \in Parts : part'[q].bin = part[q].bin
    BY <1>4, <1>c DEF Verify
  <2>2. UNCHANGED <<bins, gen, rel, run, tx, repair, raced, joined>> /\ Teardown' = Teardown
    BY <1>4 DEF Verify, Teardown
  <2>3. OneBinary' /\ NoneAhead' /\ Untouched' /\ OnlyTorn' /\ DoneKnown'
    BY <1>a, <2>1, <2>2 DEF OneBinary, NoneAhead, Untouched, OnlyTorn, DoneKnown
  <2>4. PartsTaken' /\ ReleasesTaken' /\ BinariesTaken' /\ RepairWhole' /\ TornDownWhole'
    BY <1>a, <2>1, <2>2 DEF PartsTaken, ReleasesTaken, BinariesTaken, RepairWhole, TornDownWhole
  <2>5. QED BY <1>b, <2>3, <2>4 DEF TearInv
<1>5. CASE RunStarts \/ RunReturns
  <2>1. run'.dirty = {} /\ tx.at = "none" /\ UNCHANGED <<tx, repair, raced, joined>>
    <3>1. CASE RunStarts
      BY <3>1, <1>a DEF RunStarts, NoRun, InHand
    <3>2. CASE RunReturns
      BY <3>2, <1>a DEF RunReturns, NoRun, InHand
    <3>3. QED BY <1>5, <3>1, <3>2
  <2>2. UNCHANGED <<part, bins, gen, rel>>
    BY <1>5 DEF RunStarts, RunReturns, tables
  <2>3. QED BY <1>b, <2>1, <2>2, TearKept
<1>6. CASE SaveCursor
  <2>1. PICK c, n : run' = [NoRun EXCEPT !.at = "list", !.cursor = c, !.batches = n]
    BY <1>6, Zenon DEF SaveCursor
  <2>2. run'.dirty = {} /\ tx.at = "none" /\ UNCHANGED <<part, bins, gen, rel, tx, repair, raced, joined>>
    BY <1>6, <1>a, <2>1 DEF SaveCursor, NoRun, InHand, tables
  <2>3. QED BY <1>b, <2>2, TearKept
<1>7. CASE Plan
  <2>1. PICK S \in SUBSET Parts : run'.dirty = Dirty(S)
    <3>1. ListPartsForReparse(run.cursor) \in SUBSET Parts
      BY DEF ListPartsForReparse
    <3>2. run'.dirty = Dirty(ListPartsForReparse(run.cursor))
      BY <1>7, <1>c DEF Plan, Runs
    <3>3. QED BY <3>1, <3>2
  <2>2. tx.at = "none" /\ UNCHANGED <<part, bins, gen, rel, tx, repair, raced, joined>>
    BY <1>7, <1>a DEF Plan, InHand, tables
  <2>3. NoneAhead'
    BY <1>a, <2>1, <2>2 DEF NoneAhead, Dirty, Updates
  <2>4. tx.detached = {} /\ tx.releases = {} /\ tx.binaries = {}
    BY <1>a, <2>2 DEF Untouched
  <2>5. OneBinary' /\ RepairWhole' /\ TornDownWhole'
    BY <1>a, <2>2 DEF OneBinary, RepairWhole, TornDownWhole
  <2>6. Untouched' /\ OnlyTorn' /\ DoneKnown' /\ PartsTaken' /\ ReleasesTaken' /\ BinariesTaken'
    BY <2>2, <2>4 DEF Untouched, OnlyTorn, DoneKnown, PartsTaken, ReleasesTaken, BinariesTaken
  <2>7. QED BY <1>b, <2>3, <2>5, <2>6 DEF TearInv
<1>8. CASE Begin
  <2>1. tx' = [NoTx EXCEPT !.at = "begun"]
        /\ UNCHANGED <<part, bins, gen, rel, run, repair, raced, joined>>
    BY <1>8, <1>c DEF Begin, Txs, tables
  <2>2. OneBinary' /\ NoneAhead' /\ RepairWhole' /\ TornDownWhole'
    BY <1>a, <2>1 DEF OneBinary, NoneAhead, RepairWhole, TornDownWhole
  <2>3. /\ tx'.at = "begun" /\ tx'.detached = {} /\ tx'.releases = {} /\ tx'.binaries = {}
    BY <2>1 DEF NoTx
  <2>4. Untouched' /\ OnlyTorn' /\ DoneKnown' /\ PartsTaken' /\ ReleasesTaken' /\ BinariesTaken'
    BY <2>3 DEF Untouched, OnlyTorn, DoneKnown, PartsTaken, ReleasesTaken, BinariesTaken
  <2>5. QED BY <1>b, <2>2, <2>4 DEF TearInv
<1>9. CASE Protect
  <2>1. /\ tx.at = "begun" /\ tx'.at = "protected" /\ tx'.protected = Finished
        /\ tx'.detached = tx.detached /\ tx'.releases = tx.releases /\ tx'.binaries = tx.binaries
        /\ UNCHANGED <<part, bins, gen, rel, run, repair, raced, joined>>
    BY <1>9, <1>c DEF Protect, Txs, tables
  <2>2. OneBinary' /\ NoneAhead' /\ RepairWhole' /\ TornDownWhole'
    BY <1>a, <2>1 DEF OneBinary, NoneAhead, RepairWhole, TornDownWhole
  <2>3. tx'.detached = {} /\ tx'.releases = {} /\ tx'.binaries = {}
    BY <1>a, <2>1 DEF Untouched
  <2>4. DoneKnown'
    BY <2>1 DEF DoneKnown, Teardown, Finished
  <2>5. Untouched' /\ OnlyTorn' /\ PartsTaken' /\ ReleasesTaken' /\ BinariesTaken'
    BY <2>1, <2>3 DEF Untouched, OnlyTorn, PartsTaken, ReleasesTaken, BinariesTaken
  <2>6. QED BY <1>b, <2>2, <2>4, <2>5 DEF TearInv
<1>10. CASE Regroup
  <2>1. /\ tx.at = "protected" /\ tx'.at = "regrouped" /\ tx'.protected = tx.protected
        /\ tx'.detached = tx.detached /\ tx'.releases = tx.releases /\ tx'.binaries = tx.binaries
        /\ UNCHANGED <<part, bins, gen, rel, run, repair, raced, joined>>
    BY <1>10, <1>c DEF Regroup, Txs, tables
  <2>2. OneBinary' /\ NoneAhead' /\ RepairWhole' /\ TornDownWhole'
    BY <1>a, <2>1 DEF OneBinary, NoneAhead, RepairWhole, TornDownWhole
  <2>3. Untouched' /\ OnlyTorn' /\ DoneKnown' /\ PartsTaken' /\ ReleasesTaken' /\ BinariesTaken'
    BY <1>a, <2>1
       DEF Untouched, OnlyTorn, DoneKnown, PartsTaken, ReleasesTaken, BinariesTaken, Teardown
  <2>4. QED BY <1>b, <2>2, <2>3 DEF TearInv
<1>11. CASE Detach
  <2>1. /\ tx.at = "regrouped" /\ tx'.at = "detached" /\ tx'.protected = tx.protected
        /\ tx'.detached = Detached /\ tx'.releases = tx.releases /\ tx'.binaries = tx.binaries
        /\ UNCHANGED <<part, bins, gen, rel, run, repair, raced, joined>>
    BY <1>11, <1>c DEF Detach, Txs, tables
  <2>2. OneBinary' /\ NoneAhead' /\ RepairWhole' /\ TornDownWhole'
    BY <1>a, <2>1 DEF OneBinary, NoneAhead, RepairWhole, TornDownWhole
  <2>3. PartsTaken'
    BY <2>1 DEF PartsTaken, Detached, Teardown
  <2>4. Untouched' /\ OnlyTorn' /\ DoneKnown' /\ ReleasesTaken' /\ BinariesTaken'
    BY <1>a, <2>1 DEF Untouched, OnlyTorn, DoneKnown, ReleasesTaken, BinariesTaken, Teardown
  <2>5. QED BY <1>b, <2>2, <2>3, <2>4 DEF TearInv
<1>12. CASE DeleteReleases
  <2>1. /\ tx.at = "detached" /\ tx'.at = "unreleased" /\ tx'.protected = tx.protected
        /\ tx'.detached = tx.detached /\ tx'.releases = {b \in Teardown : rel[b] # "none"}
        /\ tx'.binaries = tx.binaries
        /\ UNCHANGED <<part, bins, gen, rel, run, repair, raced, joined>>
    BY <1>12, <1>c DEF DeleteReleases, Txs, tables
  <2>2. OneBinary' /\ NoneAhead' /\ RepairWhole' /\ TornDownWhole'
    BY <1>a, <2>1 DEF OneBinary, NoneAhead, RepairWhole, TornDownWhole
  <2>3. ReleasesTaken'
    BY <2>1 DEF ReleasesTaken, Teardown
  <2>4. Untouched' /\ OnlyTorn' /\ DoneKnown' /\ PartsTaken' /\ BinariesTaken'
    BY <1>a, <2>1 DEF Untouched, OnlyTorn, DoneKnown, PartsTaken, BinariesTaken, Teardown
  <2>5. QED BY <1>b, <2>2, <2>3, <2>4 DEF TearInv
<1>13. CASE DeleteBinaries
  <2>1. /\ tx.at = "unreleased" /\ tx'.at = "deleted" /\ tx'.protected = tx.protected
        /\ tx'.detached = tx.detached /\ tx'.releases = tx.releases
        /\ tx'.binaries = Teardown \cap bins
        /\ UNCHANGED <<part, bins, gen, rel, run, repair, raced, joined>>
    BY <1>13, <1>c DEF DeleteBinaries, Txs, tables
  <2>2. OneBinary' /\ NoneAhead' /\ RepairWhole' /\ TornDownWhole'
    BY <1>a, <2>1 DEF OneBinary, NoneAhead, RepairWhole, TornDownWhole
  <2>3. BinariesTaken'
    BY <2>1 DEF BinariesTaken, Teardown
  <2>4. Untouched' /\ OnlyTorn' /\ DoneKnown' /\ PartsTaken' /\ ReleasesTaken'
    BY <1>a, <2>1 DEF Untouched, OnlyTorn, DoneKnown, PartsTaken, ReleasesTaken, Teardown
  <2>5. QED BY <1>b, <2>2, <2>3, <2>4 DEF TearInv
<1>14. CASE Commit
  <2>1. /\ tx.at = "deleted" \/ tx.at = "regrouped"
        /\ tx' = NoTx /\ bins' = bins \ tx.binaries
        /\ rel' = [b \in Bins |-> IF b \in tx.releases THEN "none" ELSE rel[b]]
        /\ run'.dirty = run.dirty
        /\ UNCHANGED <<gen, repair, raced, joined>>
    BY <1>14, <1>c DEF Commit, Runs
  <2>2. \A p \in Parts : IF p \in tx.detached THEN part'[p].bin = NoBin
                                              ELSE part'[p].bin = part[p].bin
    BY <1>14 DEF Commit
  <2>3. tx'.at = "none" /\ tx'.detached = {} /\ tx'.releases = {} /\ tx'.binaries = {}
    BY <2>1 DEF NoTx
  <2>4. Untouched' /\ OnlyTorn' /\ DoneKnown' /\ PartsTaken' /\ ReleasesTaken' /\ BinariesTaken'
    BY <2>3 DEF Untouched, OnlyTorn, DoneKnown, PartsTaken, ReleasesTaken, BinariesTaken
  <2>5. OneBinary' /\ NoneAhead'
    BY <1>a, <2>1, <2>2, NoBinIsNone DEF OneBinary, NoneAhead
  <2>6. RepairWhole'
    BY <1>a, <2>1, <2>2, NoBinIsNone DEF RepairWhole, InHand
  <2>7. ASSUME NEW b \in Bins \ (bins' \cup raced \cup joined)
        PROVE  rel'[b] = "none" /\ \A p \in Parts : part'[p].bin # b
    <3>1. CASE b \notin bins
      BY <3>1, <1>a, <2>1, <2>2, NoBinIsNone DEF TornDownWhole
    <3>2. CASE b \in tx.binaries
      <4>1. tx.at = "deleted" /\ b \in Teardown \ raced
        BY <3>2, <1>a, <2>1 DEF Untouched, OnlyTorn
      <4>2. rel[b] # "none" => b \in tx.releases
        BY <4>1, <1>a DEF ReleasesTaken
      <4>3. \A p \in Parts : part[p].bin = b => p \in tx.detached
        BY <4>1, <1>a DEF PartsTaken
      <4>4. QED BY <4>2, <4>3, <2>1, <2>2, NoBinIsNone
    <3>3. QED BY <3>1, <3>2, <2>1
  <2>8. TornDownWhole'
    BY <2>1, <2>7 DEF TornDownWhole
  <2>9. QED BY <1>b, <2>4, <2>5, <2>6, <2>8 DEF TearInv
<1>15. CASE Deadlock \/ RunFails
  <2>1. tx' = NoTx /\ UNCHANGED <<part, bins, gen, rel, repair, raced, joined>>
    BY <1>15 DEF Deadlock, RunFails, Fails, tables
  <2>2. run'.dirty \subseteq run.dirty
    <3>1. CASE run' = NoRun
      BY <3>1 DEF NoRun
    <3>2. CASE run' = [run EXCEPT !.attempt = @ + 1]
      BY <3>2, <1>c DEF Runs
    <3>3. QED BY <1>15, <3>1, <3>2 DEF Deadlock, RunFails, AfterDeadlock
  <2>3. QED BY <1>b, <2>1, <2>2, TearKept
<1>16. ASSUME NEW b \in Bins, RepairList(b) PROVE TearInv'
  <2>1. /\ repair' = [at |-> "fetch", bin |-> b, parts |-> {p \in Parts : part[p].bin = b}]
        /\ UNCHANGED <<part, bins, gen, rel, run, tx, raced, joined>>
    BY <1>16 DEF RepairList, tables
  <2>2. RepairWhole'
    BY <2>1 DEF RepairWhole
  <2>3. OneBinary' /\ NoneAhead' /\ Untouched' /\ OnlyTorn' /\ DoneKnown' /\ Teardown' = Teardown
    BY <1>a, <2>1 DEF OneBinary, NoneAhead, Untouched, OnlyTorn, DoneKnown, Teardown
  <2>4. PartsTaken' /\ ReleasesTaken' /\ BinariesTaken' /\ TornDownWhole'
    BY <1>a, <2>1, <2>3 DEF PartsTaken, ReleasesTaken, BinariesTaken, TornDownWhole
  <2>5. QED BY <1>b, <2>2, <2>3, <2>4 DEF TearInv
<1>17. CASE RepairFailed \/ RepairStandalone
  <2>1. UNCHANGED <<part, bins, gen, rel, run, tx, raced, joined>> /\ repair'.at = "idle"
    BY <1>17 DEF RepairFailed, RepairStandalone, tables, NoRepair
  <2>2. QED BY <1>b, <2>1, TearKept
<1>18. CASE discardStubRelease
  <2>1. /\ repair.at = "fetch" /\ repair'.at = "idle" /\ repair.bin \in Bins
        /\ rel' = [rel EXCEPT ![repair.bin] = "none"] /\ bins' = bins \ {repair.bin}
        /\ UNCHANGED <<gen, run, tx, raced, joined>>
    BY <1>18, <1>a DEF discardStubRelease, NoRepair, InHand
  <2>2. \A p \in Parts : IF p \in repair.parts THEN part'[p].bin = NoBin
                                               ELSE part'[p].bin = part[p].bin
    BY <1>18 DEF discardStubRelease
  <2>3. Teardown' = Teardown /\ Teardown \subseteq Bins
    BY <1>c, <2>1 DEF Teardown
  <2>4. OneBinary' /\ NoneAhead' /\ Untouched' /\ OnlyTorn' /\ RepairWhole'
    BY <1>a, <2>1, <2>2, <2>3, NoBinIsNone DEF OneBinary, NoneAhead, Untouched, OnlyTorn, RepairWhole
  <2>5. DoneKnown' /\ ReleasesTaken' /\ BinariesTaken'
    BY <1>a, <1>c, <2>1, <2>3 DEF DoneKnown, ReleasesTaken, BinariesTaken
  <2>6. PartsTaken'
    BY <1>a, <2>1, <2>2, <2>3, NoBinIsNone DEF PartsTaken
  <2>7. TornDownWhole'
    BY <1>a, <1>c, <2>1, <2>2, NoBinIsNone DEF TornDownWhole, RepairWhole
  <2>8. QED BY <1>b, <2>4, <2>5, <2>6, <2>7 DEF TearInv
<1>19. CASE UNCHANGED vars
  <2>1. QED BY <1>19, <1>b, TearKept DEF vars, tables
<1>20. QED
  BY <1>1, <1>2, <1>3, <1>4, <1>5, <1>6, <1>7, <1>8, <1>9, <1>10, <1>11, <1>12, <1>13, <1>14,
     <1>15, <1>16, <1>17, <1>18, <1>19
     DEF Next, RunStep, RunRepair, ApplyReparse

\* ApplyReparse and the yEnc repair leave nothing of a binary behind: no part and
\* no release refers to one that is gone, unless somebody used it in the middle.
THEOREM TeardownIsWhole == Spec => []TornDownWhole
<1>1. TearInv => TornDownWhole
  BY DEF TearInv
<1>2. QED BY TearInit, TearStep, <1>1, PTL DEF Spec

\* A release that is finished when ApplyReparse reads which ones are, survives it.
THEOREM FinishedSurvives == Spec => ProtectedSurvives
<1>1. TearInv /\ [Next]_vars
        => [\A b \in Bins : rel[b] = "done" /\ rel'[b] # "done"
                              => b \in raced \/ (repair.at = "fetch" /\ repair.bin = b)]_vars
  <2> SUFFICES ASSUME TearInv, Next, NEW b \in Bins, rel[b] = "done", rel'[b] # "done"
               PROVE  b \in raced \/ (repair.at = "fetch" /\ repair.bin = b)
    OBVIOUS
  <2>1. TypeOK /\ OnlyTorn /\ DoneKnown /\ Untouched
    BY DEF TearInv, TypeInv
  <2>2. rel \in [Bins -> {"none", "pending", "done"}]
    BY <2>1 DEF TypeOK
  <2>3. CASE Commit
    <3>1. b \in tx.releases /\ tx.at # "none" /\ tx.at # "begun"
      BY <2>3 DEF Commit
    <3>2. QED BY <3>1, <2>1 DEF OnlyTorn, DoneKnown
  <2>4. CASE discardStubRelease
    BY <2>2, <2>4 DEF discardStubRelease
  <2>5. ASSUME NEW c \in Bins, CreateRelease(c) \/ Finish(c) PROVE FALSE
    BY <2>2, <2>5 DEF CreateRelease, Finish
  <2>6. rel' # rel
    OBVIOUS
  <2>7. QED
    BY <2>3, <2>4, <2>5, <2>6
       DEF Next, RunStep, RunRepair, ApplyReparse, Fold, Verify, RunStarts, RunReturns, Plan, SaveCursor,
           Begin, Protect, Regroup, Detach, DeleteReleases, DeleteBinaries, Deadlock, RunFails, Fails,
           RepairList, RepairFailed, RepairStandalone, tables
<1>2. QED BY TearInit, TearStep, <1>1, PTL DEF Spec, ProtectedSurvives
=============================================================================
