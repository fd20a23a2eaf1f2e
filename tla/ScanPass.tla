------------------------------ MODULE ScanPass ------------------------------
(***************************************************************************)
(* One scan or backfill pass of the worker over many groups.  runScan      *)
(* hands the groups to a few goroutines over an unbuffered channel; each   *)
(* scans its group, records the outcome in the group's row and takes the   *)
(* next.  The pass's context may be cancelled at any moment, and an        *)
(* administrator adds, switches off and deletes groups meanwhile.  What a  *)
(* scan of one group does is in Scanner.                                   *)
(***************************************************************************)
EXTENDS Naturals, Sequences, FiniteSets, SequencesExt

CONSTANTS GroupNames, ScanWorkers, \* as many goroutines as any opts.ScanConcurrency asks for
          MaxPasses,               \* bound: passes
          MaxGroupId               \* bound: rows ever inserted

ASSUME ScanPassAssumption ==
  /\ IsFiniteSet(GroupNames) /\ IsFiniteSet(ScanWorkers)
  /\ MaxPasses \in Nat /\ MaxGroupId \in Nat

VARIABLES groupRow,  \* the groups table by name
          scanRun,   \* runScan
          scanning,  \* its goroutines
          progress,  \* Worker.scanInFlight, scanCompleted, scanTotal, scanBackfill
          groupIds,  \* ids handed out
          passNo     \* history: passes begun

passVars == <<groupRow, scanRun, scanning, progress, groupIds, passNo>>

\* by, born (history): the pass that recorded the row's outcome, and the passes
\* begun before the row was inserted.
NoGroupRow == [id |-> 0, active |-> FALSE, failures |-> 0, err |-> "", backfill |-> FALSE,
               by |-> 0, born |-> 0]
NoPassRun == [at |-> "idle", todo |-> <<>>, backfill |-> FALSE, done |-> FALSE]
NoScan == [at |-> "off", name |-> "", id |-> 0, err |-> ""]
NoProgress == [inFlight |-> {}, completed |-> 0, total |-> 0, backfill |-> FALSE]

PassInit == /\ groupRow = [g \in GroupNames |-> NoGroupRow]
            /\ scanRun = NoPassRun
            /\ scanning = [w \in ScanWorkers |-> NoScan]
            /\ progress = NoProgress
            /\ groupIds = 0 /\ passNo = 0
-----------------------------------------------------------------------------
(* The administrator's groups *)

\* UpsertGroup: an existing row keeps its state.
UpsertGroup(g) ==
  /\ groupRow[g].id = 0 /\ groupIds < MaxGroupId
  /\ groupIds' = groupIds + 1
  /\ groupRow' = [groupRow EXCEPT ![g] = [NoGroupRow EXCEPT !.id = groupIds', !.active = TRUE,
                                                            !.born = passNo]]
  /\ UNCHANGED <<scanRun, scanning, progress, passNo>>

SetGroupActive(g) ==
  /\ groupRow[g].id # 0
  /\ groupRow' = [groupRow EXCEPT ![g].active = ~@]
  /\ UNCHANGED <<scanRun, scanning, progress, groupIds, passNo>>

DeleteGroup(g) ==
  /\ groupRow[g].id # 0
  /\ groupRow' = [groupRow EXCEPT ![g] = NoGroupRow]
  /\ UNCHANGED <<scanRun, scanning, progress, groupIds, passNo>>
-----------------------------------------------------------------------------
(* runScan *)

\* targetGroups: all active groups, or a named one of which nothing but the name
\* is known: its id is 0.
Listed == {g \in GroupNames : groupRow[g].active}
Targets == {SetToSeq({[name |-> g, id |-> groupRow[g].id] : g \in Listed})} \cup
           {<<[name |-> g, id |-> 0]>> : g \in GroupNames}

\* opts.ScanConcurrency goroutines, at most one for each group.
ScanConcurrency(concurrency, n) == IF concurrency > n THEN n ELSE concurrency

BeginScan(backfill) ==
  /\ scanRun.at = "idle" /\ passNo < MaxPasses
  /\ passNo' = passNo + 1
  /\ \E todo \in Targets \ {<<>>} :
       /\ scanRun' = [at |-> "dispatch", todo |-> todo, backfill |-> backfill, done |-> FALSE]
       /\ progress' = [NoProgress EXCEPT !.total = Len(todo), !.backfill = backfill]
       /\ \E S \in SUBSET ScanWorkers, concurrency \in 1..Cardinality(ScanWorkers) :
            /\ Cardinality(S) = ScanConcurrency(concurrency, Len(todo))
            /\ scanning' = [w \in ScanWorkers |->
                              IF w \in S THEN [NoScan EXCEPT !.at = "receive"] ELSE NoScan]
  /\ UNCHANGED <<groupRow, groupIds>>

\* The job is cancelled or the process is shutting down.
CancelPass ==
  /\ scanRun.at # "idle" /\ ~scanRun.done
  /\ scanRun' = [scanRun EXCEPT !.done = TRUE]
  /\ UNCHANGED <<groupRow, scanning, progress, groupIds, passNo>>

\* jobs <- g meets a goroutine that receives.  It returns with the group in hand
\* when it finds the context done, and begins the group (scanGroupBegin) if not.
HandOut(w) ==
  LET g == Head(scanRun.todo)
  IN /\ scanRun.at = "dispatch" /\ scanRun.todo # <<>>
     /\ scanning[w].at = "receive"
     /\ scanRun' = [scanRun EXCEPT !.todo = Tail(@)]
     /\ \/ scanRun.done /\ scanning' = [scanning EXCEPT ![w] = NoScan] /\ UNCHANGED progress
        \/ /\ ~scanRun.done
           /\ scanning' = [scanning EXCEPT ![w] = [at |-> "scan", name |-> g.name, id |-> g.id, err |-> ""]]
           /\ progress' = [progress EXCEPT !.inFlight = @ \cup {g.name}]
     /\ UNCHANGED <<groupRow, groupIds, passNo>>

\* Mutant: the dispatcher does not watch the context.
StopsDispatchAtEnd == scanRun.todo = <<>>

\* The dispatcher has handed everything out, or sees that the context is done.
StopsDispatch == scanRun.todo = <<>> \/ scanRun.done

CloseScanJobs ==
  /\ scanRun.at = "dispatch" /\ StopsDispatch
  /\ scanRun' = [scanRun EXCEPT !.at = "closed"]
  /\ UNCHANGED <<groupRow, scanning, progress, groupIds, passNo>>

\* The channel is closed: the goroutine's range ends.
ScannerEnds(w) ==
  /\ scanRun.at = "closed" /\ scanning[w].at = "receive"
  /\ scanning' = [scanning EXCEPT ![w] = NoScan]
  /\ UNCHANGED <<groupRow, scanRun, progress, groupIds, passNo>>

\* ScanForward or ScanBackfill returns; with the context done it may return that.
ScanGroup(w) ==
  /\ scanning[w].at = "scan"
  /\ \E err \in {"", "failed"} \cup (IF scanRun.done THEN {"cancelled"} ELSE {}) :
       scanning' = [scanning EXCEPT ![w].at = "record", ![w].err = err]
  /\ UNCHANGED <<groupRow, scanRun, progress, groupIds, passNo>>

\* Mutant: the outcome goes to the row of that name.
RecordByName(row, s) ==
  IF row.id = 0 THEN row
  ELSE [row EXCEPT !.err = s.err, !.backfill = progress.backfill, !.by = passNo,
                   !.failures = IF s.err = "" THEN 0 ELSE @ + 1]

\* RecordGroupScan: the row with that id, if it is still there.
RecordGroupScan(row, s) ==
  IF row.id # s.id \/ row.id = 0 THEN row
  ELSE [row EXCEPT !.err = s.err, !.backfill = progress.backfill, !.by = passNo,
                   !.failures = IF s.err = "" THEN 0 ELSE @ + 1]

\* Mutant: what a cancelled pass returned is recorded too.
RecordsAlways == TRUE

\* recordGroupScan: not when the context is done.
Records == ~scanRun.done

recordGroupScan(w) ==
  LET s == scanning[w]
  IN /\ s.at = "record"
     /\ \/ /\ Records
           /\ groupRow' = [groupRow EXCEPT ![s.name] = RecordGroupScan(@, s)]
        \/ UNCHANGED groupRow \* the context is done, or the database refuses
     /\ scanning' = [scanning EXCEPT ![w].at = "end"]
     /\ UNCHANGED <<scanRun, progress, groupIds, passNo>>

scanGroupEnd(w) ==
  /\ scanning[w].at = "end"
  /\ progress' = [progress EXCEPT !.inFlight = @ \ {scanning[w].name}, !.completed = @ + 1]
  /\ scanning' = [scanning EXCEPT ![w] = [NoScan EXCEPT !.at = "receive"]]
  /\ UNCHANGED <<groupRow, scanRun, groupIds, passNo>>

\* wg.Wait, then scanPassEnd.
ScanReturns ==
  /\ scanRun.at = "closed"
  /\ \A w \in ScanWorkers : scanning[w].at = "off"
  /\ scanRun' = NoPassRun
  /\ progress' = NoProgress
  /\ UNCHANGED <<groupRow, scanning, groupIds, passNo>>

ScannerStep(w) == \/ HandOut(w) \/ ScannerEnds(w) \/ ScanGroup(w)
                  \/ recordGroupScan(w) \/ scanGroupEnd(w)
ScanPassStep == CloseScanJobs \/ ScanReturns \/ \E w \in ScanWorkers : ScannerStep(w)

\* Nobody begins another pass.
PassRests == passNo = MaxPasses /\ scanRun.at = "idle" /\ UNCHANGED passVars

ScanPassNext == \/ \E g \in GroupNames : UpsertGroup(g) \/ SetGroupActive(g) \/ DeleteGroup(g)
                \/ \E backfill \in BOOLEAN : BeginScan(backfill)
                \/ CancelPass \/ ScanPassStep \/ PassRests

ScanPassSpec == PassInit /\ [][ScanPassNext]_passVars
-----------------------------------------------------------------------------
\* What a group's row says of its last pass is about that group and that pass: no
\* row takes the outcome of a pass that began before it was inserted, a cancelled
\* pass is no failure of the group, and while goroutines work the progress shows
\* exactly the groups in their hands and never more than the pass has.
GroupRowsTrue ==
  /\ \A g \in GroupNames : groupRow[g].by # 0 => /\ groupRow[g].by > groupRow[g].born
                                                 /\ groupRow[g].err # "cancelled"
  /\ progress.inFlight = {scanning[w].name : w \in {v \in ScanWorkers :
                                                      scanning[v].at \in {"scan", "record", "end"}}}
  /\ progress.completed + Cardinality(progress.inFlight) <= progress.total

\* A pass returns, cancelled or not: the dispatcher never waits for goroutines
\* that have left, nor they for it.
PassReturns == scanRun.at # "idle" ~> scanRun.at = "idle"
=============================================================================
