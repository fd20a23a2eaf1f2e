----------------------------- MODULE Reassembly -----------------------------
(***************************************************************************)
(* Repairing the grouping of old parts.  The reassembler walks the parts   *)
(* behind a persisted cursor: it lists a batch, plans what a fresh parse   *)
(* of the subjects would change, and in one transaction regroups parts and *)
(* tears their binaries and releases down, so that the assembler groups    *)
(* them again.  The yEnc repair takes back releases that were made of one  *)
(* segment of a larger post.  The assembler, the builder and post-         *)
(* processing run meanwhile.  A transaction is READ COMMITTED: each of its *)
(* statements sees what is committed by then, what it changes is visible   *)
(* after COMMIT, and the rows it changed are locked until then.            *)
(***************************************************************************)
EXTENDS Integers, FiniteSets, FiniteSetsExt

CONSTANTS Parts,            \* part ids
          Keys,             \* groupings: collection_key, file numbers, norm_subject
          Stored,           \* the grouping a part was inserted with
          Parsed,           \* ParseSubject of its subject today
          YencKey,          \* the grouping of the yEnc header of a stub's article
          Stubs,            \* parts released alone although their subject has no counter
          BatchSize,        \* opts.BatchSize
          MaxBatchesPerRun, \* opts.MaxBatchesPerRun
          MaxDeadlockRetries,
          MaxGen,           \* bound: binaries made of one grouping
          MaxFailures       \* bound: deadlocks, failed statements and crashes

ASSUME ReassemblyAssumption ==
  /\ IsFiniteSet(Parts) /\ Parts \subseteq Nat \ {0}
  /\ Stored \in [Parts -> Keys] /\ Parsed \in [Parts -> Keys]
  /\ YencKey \in Keys
  /\ Stubs \subseteq Parts /\ \A p \in Stubs : Parsed[p] = Stored[p] /\ Stored[p] # YencKey
  /\ {BatchSize, MaxBatchesPerRun} \subseteq Nat \ {0}
  /\ MaxGen \in Nat \ {0} /\ {MaxDeadlockRetries, MaxFailures} \subseteq Nat

VARIABLES part,     \* the parts table: grouping and binary_id
          bins,     \* the ids in the binaries table
          gen,      \* how many binaries a grouping has had
          rel,      \* the status of the release of a binary
          verified, \* releases with yenc_verified
          cursor,   \* the setting the reassembler keeps its place in
          run,      \* Reassembler.Run
          tx,       \* the transaction of ApplyReparse: what it has read and changed
          repair,   \* RunRepair between its list and its transaction
          planned,  \* history: parts whose batch needed nothing or was committed
          raced,    \* history: binaries somebody used while they were torn down
          joined,   \* history: binaries a part joined while their repair was under way
          failures

tables == <<part, bins, gen, rel, verified>>
vars == <<tables, cursor, run, tx, repair, planned, raced, joined, failures>>

Bins == Keys \X (1..MaxGen)
NoBin == <<>>
KeyOf(b) == b[1]

Runs == [at : {"idle", "list", "apply", "save"}, cursor : Nat, batches : Nat,
         parts : SUBSET Parts, updates : SUBSET Parts, dirty : SUBSET Bins, attempt : Nat]
NoRun == [at |-> "idle", cursor |-> 0, batches |-> 0,
          parts |-> {}, updates |-> {}, dirty |-> {}, attempt |-> 0]

Txs == [at : {"none", "begun", "protected", "regrouped", "detached", "unreleased", "deleted"},
        protected : SUBSET Bins, regrouped : SUBSET Parts, detached : SUBSET Parts,
        releases : SUBSET Bins, binaries : SUBSET Bins]
NoTx == [at |-> "none", protected |-> {}, regrouped |-> {}, detached |-> {},
         releases |-> {}, binaries |-> {}]

NoRepair == [at |-> "idle", bin |-> NoBin, parts |-> {}]

\* A stub is a binary of its own with a finished release, made before
\* verification existed.
Init == /\ part = [p \in Parts |->
                     [key |-> Stored[p], bin |-> IF p \in Stubs THEN <<Stored[p], 1>> ELSE NoBin]]
        /\ bins = {<<Stored[p], 1>> : p \in Stubs}
        /\ gen = [k \in Keys |-> IF \E p \in Stubs : Stored[p] = k THEN 1 ELSE 0]
        /\ rel = [b \in Bins |-> IF b \in bins THEN "done" ELSE "none"]
        /\ verified = {}
        /\ cursor = 0
        /\ run = NoRun /\ tx = NoTx /\ repair = NoRepair
        /\ planned = {} /\ raced = {} /\ joined = {} /\ failures = 0
-----------------------------------------------------------------------------
(* The pipeline.  A row the transaction has changed is locked.               *)

\* Rows the open transaction holds a lock on.
LockedParts == tx.regrouped \cup tx.detached

\* Who uses binary b while the transaction that tears it down has passed the
\* statement at which it would have noticed.
Tearing(b) == b \in run.dirty /\ b \notin tx.protected

Loose(k) == {p \in Parts : /\ part[p].bin = NoBin /\ part[p].key = k
                           /\ ~(p \in Stubs /\ k = Stored[p])}

\* The assembler folds the parts of a grouping into its binary.
Fold(k) ==
  LET old == {b \in bins : KeyOf(b) = k}
      b == IF old # {} THEN CHOOSE o \in old : TRUE ELSE <<k, gen[k] + 1>>
  IN /\ Loose(k) # {} /\ Loose(k) \cap LockedParts = {}
     /\ old \cap tx.binaries = {}
     /\ old = {} => gen[k] < MaxGen
     /\ part' = [p \in Parts |-> IF p \in Loose(k) THEN [part[p] EXCEPT !.bin = b] ELSE part[p]]
     /\ bins' = bins \cup {b}
     /\ gen' = [gen EXCEPT ![k] = b[2]]
     /\ raced' = raced \cup {c \in {b} : Tearing(c) /\ tx.at \in {"detached", "unreleased"}}
     /\ joined' = joined \cup {c \in {b} : repair.bin = c}
     /\ UNCHANGED <<rel, verified, cursor, run, tx, repair, planned, failures>>

\* The builder gives a complete binary its release.
CreateRelease(b) ==
  /\ b \in bins \ tx.binaries
  /\ rel[b] = "none"
  /\ rel' = [rel EXCEPT ![b] = "pending"]
  /\ raced' = raced \cup {c \in {b} : Tearing(c) /\ tx.at = "unreleased"}
  /\ UNCHANGED <<part, bins, gen, verified, cursor, run, tx, repair, planned, joined, failures>>

\* Post-processing finishes a release.
Finish(b) ==
  /\ rel[b] = "pending" /\ b \notin tx.releases
  /\ rel' = [rel EXCEPT ![b] = "done"]
  /\ raced' = raced \cup {c \in {b} : Tearing(c) /\ tx.at \in {"protected", "regrouped", "detached"}}
  /\ UNCHANGED <<part, bins, gen, verified, cursor, run, tx, repair, planned, joined, failures>>

\* yEnc verification finds out that a part is a segment of a larger post.
Verify(p) ==
  /\ p \in Stubs \ LockedParts
  /\ part[p] = [key |-> Stored[p], bin |-> NoBin]
  /\ part' = [part EXCEPT ![p].key = YencKey]
  /\ UNCHANGED <<bins, gen, rel, verified, cursor, run, tx, repair, planned, raced, joined, failures>>
-----------------------------------------------------------------------------
(* Reassembler.Run *)

\* Run reads the cursor.
RunStarts ==
  /\ run.at = "idle"
  /\ run' = [NoRun EXCEPT !.at = "list", !.cursor = cursor]
  /\ UNCHANGED <<tables, cursor, tx, repair, planned, raced, joined, failures>>

\* ListPartsForReparse: the next parts in id order.
ListPartsForReparse(after) ==
  LET rest == {p \in Parts : p > after}
  IN {p \in rest : Cardinality({q \in rest : q < p}) < BatchSize}

\* Plan: the parts whose grouping a fresh parse changes, and their binaries.
Updates(S) == {p \in S : part[p].key # Parsed[p]}
Dirty(S) == {part[p].bin : p \in Updates(S)} \ {NoBin}

Plan ==
  LET S == ListPartsForReparse(run.cursor)
  IN /\ run.at = "list"
     /\ run.batches < MaxBatchesPerRun
     /\ S # {}
     /\ run' = [run EXCEPT !.parts = S, !.updates = Updates(S), !.dirty = Dirty(S),
                           !.attempt = 0,
                           !.at = IF Updates(S) = {} THEN "save" ELSE "apply"]
     /\ planned' = IF Updates(S) = {} THEN planned \cup S ELSE planned
     /\ UNCHANGED <<tables, cursor, tx, repair, raced, joined, failures>>

\* No part is left, the batches or the time of the run are used up.
RunReturns ==
  /\ run.at = "list"
  /\ run' = NoRun
  /\ UNCHANGED <<tables, cursor, tx, repair, planned, raced, joined, failures>>

\* SetSetting of the cursor, after the batch was applied.
SaveCursor ==
  /\ run.at = "save"
  /\ cursor' = Max(run.parts)
  /\ run' = [NoRun EXCEPT !.at = "list", !.cursor = cursor', !.batches = run.batches + 1]
  /\ UNCHANGED <<tables, tx, repair, planned, raced, joined, failures>>
-----------------------------------------------------------------------------
(* ApplyReparse *)

Begin ==
  /\ run.at = "apply" /\ tx.at = "none"
  /\ tx' = [NoTx EXCEPT !.at = "begun"]
  /\ UNCHANGED <<tables, cursor, run, repair, planned, raced, joined, failures>>

\* Mutant: only what is finished and verified is protected.
FinishedVerified == {b \in run.dirty : rel[b] = "done" /\ b \in verified}

\* SELECT ... pp_status = 'done'.
Finished == {b \in run.dirty : rel[b] = "done"}

Protect ==
  /\ tx.at = "begun"
  /\ tx' = [tx EXCEPT !.at = "protected", !.protected = Finished]
  /\ UNCHANGED <<tables, cursor, run, repair, planned, raced, joined, failures>>

\* p.binary_id IS NULL OR p.binary_id <> ALL(protected).  The slice is nil when
\* nothing is protected, which the driver sends as NULL: the comparison is then
\* NULL and a part with a binary is not updated.
Regroupable(p) == \/ part[p].bin = NoBin
                  \/ tx.protected # {} /\ part[p].bin \notin tx.protected

Teardown == run.dirty \ tx.protected

Regroup ==
  /\ tx.at = "protected"
  /\ tx' = [tx EXCEPT !.at = "regrouped",
                      !.regrouped = {p \in run.updates : Regroupable(p)}]
  /\ UNCHANGED <<tables, cursor, run, repair, planned, raced, joined, failures>>

\* Mutant: detaches the parts of the batch only.
DetachedBatch == {p \in run.updates : part[p].bin \in Teardown}

\* UPDATE parts SET binary_id = NULL WHERE binary_id = ANY(teardown).
Detached == {p \in Parts : part[p].bin \in Teardown}

Detach ==
  /\ tx.at = "regrouped" /\ Teardown # {}
  /\ tx' = [tx EXCEPT !.at = "detached", !.detached = Detached]
  /\ UNCHANGED <<tables, cursor, run, repair, planned, raced, joined, failures>>

DeleteReleases ==
  /\ tx.at = "detached"
  /\ tx' = [tx EXCEPT !.at = "unreleased", !.releases = {b \in Teardown : rel[b] # "none"}]
  /\ UNCHANGED <<tables, cursor, run, repair, planned, raced, joined, failures>>

DeleteBinaries ==
  /\ tx.at = "unreleased"
  /\ tx' = [tx EXCEPT !.at = "deleted", !.binaries = Teardown \cap bins]
  /\ UNCHANGED <<tables, cursor, run, repair, planned, raced, joined, failures>>

\* COMMIT: the changes become visible together.
Commit ==
  /\ tx.at = "deleted" \/ (tx.at = "regrouped" /\ Teardown = {})
  /\ part' = [p \in Parts |->
                [key |-> IF p \in tx.regrouped THEN Parsed[p] ELSE part[p].key,
                 bin |-> IF p \in tx.detached THEN NoBin ELSE part[p].bin]]
  /\ rel' = [b \in Bins |-> IF b \in tx.releases THEN "none" ELSE rel[b]]
  /\ bins' = bins \ tx.binaries
  /\ tx' = NoTx
  /\ run' = [run EXCEPT !.at = "save"]
  /\ planned' = planned \cup run.parts
  /\ UNCHANGED <<gen, verified, cursor, repair, raced, joined, failures>>

\* Mutant: a batch that deadlocks too often is taken for done.
GivesUpSilently == IF run.attempt < MaxDeadlockRetries
                   THEN [run EXCEPT !.attempt = @ + 1] ELSE [run EXCEPT !.at = "save"]

\* applyWithRetry: a deadlock is retried with the same plan, a few times.
AfterDeadlock == IF run.attempt < MaxDeadlockRetries
                 THEN [run EXCEPT !.attempt = @ + 1] ELSE NoRun

Fails == /\ failures < MaxFailures
         /\ failures' = failures + 1
         /\ tx' = NoTx
         /\ UNCHANGED <<tables, cursor, repair, planned, raced, joined>>

Deadlock == tx.at # "none" /\ Fails /\ run' = AfterDeadlock

\* A statement or the process fails: the transaction is rolled back, the run ends.
RunFails == run.at # "idle" /\ Fails /\ run' = NoRun
-----------------------------------------------------------------------------
(* yEnc repair *)

\* ListReleasesNeedingYencRepair, with the parts the release's binary has.
RepairList(b) ==
  /\ repair.at = "idle"
  /\ rel[b] = "done" /\ b \notin verified
  /\ \E p \in Stubs : KeyOf(b) = Stored[p]
  /\ repair' = [at |-> "fetch", bin |-> b, parts |-> {p \in Parts : part[p].bin = b}]
  /\ UNCHANGED <<tables, cursor, run, tx, planned, raced, joined, failures>>

\* ApplyYencRepair after the fetch: it failed; the article stands alone; or it is
\* a fragment, and discardStubRelease takes release, binary and part back.
RepairFailed ==
  /\ repair.at = "fetch"
  /\ repair' = NoRepair
  /\ UNCHANGED <<tables, cursor, run, tx, planned, raced, joined, failures>>

RepairStandalone ==
  /\ repair.at = "fetch"
  /\ verified' = verified \cup {repair.bin}
  /\ repair' = NoRepair
  /\ UNCHANGED <<part, bins, gen, rel, cursor, run, tx, planned, raced, joined, failures>>

discardStubRelease ==
  /\ repair.at = "fetch"
  /\ repair.parts \cap LockedParts = {}
  /\ repair.bin \notin tx.releases \cup tx.binaries
  /\ rel' = [rel EXCEPT ![repair.bin] = "none"]
  /\ bins' = bins \ {repair.bin}
  /\ part' = [p \in Parts |-> IF p \in repair.parts THEN [key |-> YencKey, bin |-> NoBin]
                                                    ELSE part[p]]
  /\ repair' = NoRepair
  /\ UNCHANGED <<gen, verified, cursor, run, tx, planned, raced, joined, failures>>
-----------------------------------------------------------------------------
RunStep == RunStarts \/ Plan \/ RunReturns \/ SaveCursor
ApplyReparse == Begin \/ Protect \/ Regroup \/ Detach \/ DeleteReleases \/ DeleteBinaries \/ Commit
RunRepair == (\E b \in Bins : RepairList(b)) \/ RepairFailed \/ RepairStandalone \/ discardStubRelease

Next == \/ \E k \in Keys : Fold(k)
        \/ \E b \in Bins : CreateRelease(b) \/ Finish(b)
        \/ \E p \in Parts : Verify(p)
        \/ RunStep \/ ApplyReparse \/ Deadlock \/ RunFails
        \/ RunRepair

Spec == Init /\ [][Next]_vars
-----------------------------------------------------------------------------
(* Properties *)

\* The type invariant.
TypeOK ==
  /\ part \in [Parts -> [key : Keys, bin : Bins \cup {NoBin}]]
  /\ bins \subseteq Bins
  /\ gen \in [Keys -> 0..MaxGen]
  /\ rel \in [Bins -> {"none", "pending", "done"}]
  /\ verified \subseteq Bins
  /\ cursor \in Parts \cup {0}
  /\ run \in Runs /\ tx \in Txs
  /\ repair \in [at : {"idle", "fetch"}, bin : Bins \cup {NoBin}, parts : SUBSET Parts]

\* No range is skipped: the persisted cursor passes a part only when its batch was
\* committed, through deadlocks, failed statements and restarts.
NoPartSkipped == \A p \in Parts : p <= cursor => p \in planned

\* A finished release is never removed by reassembly, unless it was finished while
\* the transaction was already past reading which ones are; only the yEnc repair
\* takes a finished stub back.
ProtectedSurvives ==
  [][\A b \in Bins : rel[b] = "done" /\ rel'[b] # "done"
                       => b \in raced \/ (repair.at = "fetch" /\ repair.bin = b)]_vars

\* A binary that is torn down leaves nothing behind: no part refers to it and no
\* release either, unless somebody used it in the middle of the transaction, or a
\* part joined it after the repair had listed the parts it takes back.
TornDownWhole ==
  \A b \in Bins \ (bins \cup raced \cup joined) : /\ rel[b] = "none"
                                      /\ \A p \in Parts : part[p].bin # b

\* Once the cursor has passed it, a part that is in no binary has the grouping of
\* a fresh parse.
Regrouped == \A p \in planned \ Stubs : part[p].bin = NoBin => part[p].key = Parsed[p]
=============================================================================
