------------------------------- MODULE Scanner -------------------------------
(***************************************************************************)
(* One newsgroup and the passes internal/scanner/scanner.go runs over it:  *)
(* ScanForward pulls new articles up from the forward watermark and        *)
(* ScanBackfill walks down from the backfill watermark.  Each batch is     *)
(* fetched and inserted in one transaction and only then is the watermark  *)
(* saved, so a pass may fail or the process crash between the two.  The    *)
(* news server posts and expires articles, and administrators edit the     *)
(* group's row, while a pass runs.  Passes over one group never overlap    *)
(* (worker.go runs them under scanMu).                                     *)
(***************************************************************************)
EXTENDS Integers, FiniteSets

CONSTANTS MaxArticle,  \* bound: article numbers the server hands out
          BatchSize,   \* opts.BatchSize
          Caps,        \* per-pass article caps a group may have, 0 for none
          Old,         \* articles posted before the date cutoff
          MaxFailures, \* bound: passes that fail
          MaxEdits     \* bound: edits of the group's row

ASSUME ScannerAssumption == /\ MaxArticle \in Nat
                            /\ BatchSize \in Nat \ {0}
                            /\ Caps \subseteq Nat
                            /\ Old \subseteq 1..MaxArticle
                            /\ MaxFailures \in Nat
                            /\ MaxEdits \in Nat

VARIABLES srv,       \* the server's bounds for the group: GroupInfo
          avail,     \* numbers between the bounds that still have an article
          row,       \* the group's row in the groups table
          ingested,  \* numbers whose article InsertParts has committed
          pass,      \* the pass that is running
          top,       \* history: where the backfill began
          cut,       \* history: the row was completed by the date cutoff
          failures,  \* failed passes so far
          edits      \* edits of the row so far

serverVars == <<srv, avail>>
history == <<top, cut>>
vars == <<serverVars, row, ingested, pass, history, failures, edits>>

Articles == 1..MaxArticle
Lesser(m, n) == IF m < n THEN m ELSE n
Greater(m, n) == IF m > n THEN m ELSE n

\* What the scanner reads and writes of a row of the groups table.
Rows == [high : 0..MaxArticle, low : 0..MaxArticle + 1, complete : BOOLEAN,
         forwardCap : Caps, cap : Caps, days : BOOLEAN]

\* A pass in progress: its position, its end, and what it read at its start.
Passes == [kind : {"none", "forward", "backfill"}, at : {"batch", "persist", "finish"},
           cur : 0..MaxArticle, to : 0..MaxArticle, infoLow : 0..MaxArticle + 1,
           newLow : 0..MaxArticle + 1, days : BOOLEAN, old : BOOLEAN]

NoPass == [kind |-> "none", at |-> "batch", cur |-> 0, to |-> 0, infoLow |-> 0,
           newLow |-> 0, days |-> FALSE, old |-> FALSE]
Running(kind) == pass.kind = kind

\* A newly added group on a server that already holds some of its articles.
Init == /\ srv \in {[low |-> 1, high |-> h] : h \in 0..MaxArticle}
        /\ avail \in SUBSET (1..srv.high)
        /\ row \in Rows
        /\ row.high = 0 /\ row.low = 0 /\ ~row.complete
        /\ ingested = {}
        /\ pass = NoPass
        /\ top = 0
        /\ cut = FALSE
        /\ failures = 0
        /\ edits = 0
-----------------------------------------------------------------------------
(* The news server *)

\* A new number, which may already have lost its article to a cancel.
Post(keeps) == /\ srv.high < MaxArticle
               /\ srv' = [srv EXCEPT !.high = @ + 1]
               /\ avail' = IF keeps THEN avail \cup {srv.high + 1} ELSE avail
               /\ UNCHANGED <<row, ingested, pass, history, failures, edits>>

\* The oldest number falls out of retention; an empty group has low = high + 1.
Expire == /\ srv.low <= srv.high
          /\ srv' = [srv EXCEPT !.low = @ + 1]
          /\ avail' = avail \ {srv.low}
          /\ UNCHANGED <<row, ingested, pass, history, failures, edits>>
-----------------------------------------------------------------------------
(* Administrators *)

\* SetGroupBackfillTarget: a new target also reopens the backfill.
SetBackfillTarget(cap, days) ==
  /\ edits < MaxEdits
  /\ row' = [row EXCEPT !.cap = cap, !.days = days, !.complete = FALSE]
  /\ edits' = edits + 1
  /\ UNCHANGED <<serverVars, ingested, pass, history, failures>>

SetScanConfig(cap) ==
  /\ edits < MaxEdits
  /\ row' = [row EXCEPT !.forwardCap = cap]
  /\ edits' = edits + 1
  /\ UNCHANGED <<serverVars, ingested, pass, history, failures>>
-----------------------------------------------------------------------------
(* ScanForward and ScanBackfill *)

\* Mutant: resumes at the watermark instead of after it.
ForwardStartAgain == IF row.high = 0 THEN srv.low ELSE Greater(row.high, srv.low)

\* The first forward pass begins at the server's low; a later one after the
\* watermark, or at the server's low when what lies between has expired.
ForwardStart == IF row.high = 0 THEN srv.low ELSE Greater(row.high + 1, srv.low)

ForwardEnd == IF row.forwardCap > 0
              THEN Lesser(ForwardStart + row.forwardCap - 1, srv.high)
              ELSE srv.high

\* Mutant: takes the server's high for an exclusive bound.
StartForwardBelowHigh ==
  /\ Running("none")
  /\ ForwardStart < srv.high
  /\ pass' = [NoPass EXCEPT !.kind = "forward", !.cur = ForwardStart, !.to = ForwardEnd]
  /\ UNCHANGED <<serverVars, row, ingested, history, failures, edits>>

StartForward ==
  /\ Running("none")
  /\ ForwardStart <= srv.high
  /\ pass' = [NoPass EXCEPT !.kind = "forward", !.cur = ForwardStart, !.to = ForwardEnd]
  /\ UNCHANGED <<serverVars, row, ingested, history, failures, edits>>

\* The first article below what the backfill has covered.  An unstarted
\* backfill begins at the server's high, wherever the forward pass has got to.
BackfillUpper == IF row.low = 0 THEN srv.high ELSE row.low - 1

BackfillTarget == IF row.cap > 0
                  THEN Greater(BackfillUpper - row.cap + 1, srv.low)
                  ELSE srv.low

StartBackfill ==
  /\ Running("none")
  /\ ~row.complete
  /\ BackfillUpper >= srv.low
  /\ pass' = [kind |-> "backfill", at |-> "batch", cur |-> BackfillUpper,
              to |-> BackfillTarget, infoLow |-> srv.low, newLow |-> BackfillUpper + 1,
              days |-> row.days, old |-> FALSE]
  /\ top' = IF row.low = 0 THEN BackfillUpper ELSE top
  /\ UNCHANGED <<serverVars, row, ingested, cut, failures, edits>>

\* Mutant: returns without saving that the backfill is complete.
NothingToBackfillUnsaved ==
  /\ Running("none")
  /\ ~row.complete
  /\ BackfillUpper < srv.low
  /\ row' = [row EXCEPT !.low = srv.low]
  /\ top' = IF row.low = 0 THEN BackfillUpper ELSE top
  /\ cut' = FALSE
  /\ UNCHANGED <<serverVars, ingested, pass, failures, edits>>

\* ScanBackfill finds nothing above the server's low and only saves that.  (The
\* group is read before: an edit of the target between the two is left out.)
NothingToBackfill ==
  /\ Running("none")
  /\ ~row.complete
  /\ BackfillUpper < srv.low
  /\ row' = [row EXCEPT !.low = srv.low, !.complete = TRUE]
  /\ top' = IF row.low = 0 THEN BackfillUpper ELSE top
  /\ cut' = FALSE
  /\ UNCHANGED <<serverVars, ingested, pass, failures, edits>>

BatchLow == IF pass.kind = "forward" THEN pass.cur
                                     ELSE Greater(pass.cur - BatchSize + 1, pass.to)

BatchHigh == IF pass.kind = "forward" THEN Lesser(pass.cur + BatchSize - 1, pass.to)
                                      ELSE pass.cur
Batch == BatchLow..BatchHigh

\* The store's InsertParts: one transaction, ON CONFLICT DO NOTHING.
InsertParts(articles) == ingested \cup articles

\* ingestRangeTracked: the articles the server has in the batch become parts,
\* those that are parts already are skipped.  (Lines of the overview that do not
\* parse, or lack a message id, are dropped by the code: an article here is one
\* that makes a part.)
Ingest == /\ pass.kind # "none"
          /\ pass.at = "batch"
          /\ ingested' = InsertParts(avail \cap Batch)
          /\ pass' = [pass EXCEPT !.at = "persist", !.newLow = BatchLow,
                                  !.old = pass.days /\ avail \cap Batch \cap Old # {}]
          /\ UNCHANGED <<serverVars, row, history, failures, edits>>

\* Mutants: save the end of the whole pass instead of the batch's.
PersistForwardAll ==
  /\ Running("forward")
  /\ pass.at = "persist"
  /\ row' = [row EXCEPT !.high = pass.to]
  /\ pass' = IF pass.cur + BatchSize <= pass.to
             THEN [pass EXCEPT !.at = "batch", !.cur = @ + BatchSize]
             ELSE NoPass
  /\ UNCHANGED <<serverVars, ingested, history, failures, edits>>

PersistBackfillAll ==
  /\ Running("backfill")
  /\ pass.at = "persist"
  /\ row' = [row EXCEPT !.low = pass.to, !.complete = FALSE]
  /\ pass' = IF pass.old \/ BatchLow = pass.to
             THEN [pass EXCEPT !.at = "finish"]
             ELSE [pass EXCEPT !.at = "batch", !.cur = @ - BatchSize]
  /\ UNCHANGED <<serverVars, ingested, history, failures, edits>>

PersistForward ==
  /\ Running("forward")
  /\ pass.at = "persist"
  /\ row' = [row EXCEPT !.high = BatchHigh]
  /\ pass' = IF pass.cur + BatchSize <= pass.to
             THEN [pass EXCEPT !.at = "batch", !.cur = @ + BatchSize]
             ELSE NoPass
  /\ UNCHANGED <<serverVars, ingested, history, failures, edits>>

PersistBackfill ==
  /\ Running("backfill")
  /\ pass.at = "persist"
  /\ row' = [row EXCEPT !.low = BatchLow, !.complete = FALSE]
  /\ pass' = IF pass.old \/ BatchLow = pass.to
             THEN [pass EXCEPT !.at = "finish"]
             ELSE [pass EXCEPT !.at = "batch", !.cur = @ - BatchSize]
  /\ UNCHANGED <<serverVars, ingested, history, failures, edits>>

\* Mutant: complete as soon as this pass reached its own target.
FinishAtTarget ==
  /\ pass.at = "finish"
  /\ row' = [row EXCEPT !.low = pass.newLow,
                        !.complete = pass.newLow <= pass.to \/ pass.old]
  /\ cut' = pass.old
  /\ pass' = NoPass
  /\ UNCHANGED <<serverVars, ingested, top, failures, edits>>

\* The last write of ScanBackfill, with the bounds and the target it read at
\* its start.
FinishBackfill ==
  /\ pass.at = "finish"
  /\ row' = [row EXCEPT !.low = pass.newLow,
                        !.complete = pass.newLow <= pass.infoLow \/ pass.old]
  /\ cut' = pass.old
  /\ pass' = NoPass
  /\ UNCHANGED <<serverVars, ingested, top, failures, edits>>

\* A server, database or context error, or a crash, ends the pass between two
\* of its steps.
Fail == /\ pass.kind # "none"
        /\ failures < MaxFailures
        /\ failures' = failures + 1
        /\ pass' = NoPass
        /\ UNCHANGED <<serverVars, row, ingested, history, edits>>
-----------------------------------------------------------------------------
PassStep == Ingest \/ PersistForward \/ PersistBackfill \/ FinishBackfill
Backfill == StartBackfill \/ NothingToBackfill

Next == \/ \E keeps \in BOOLEAN : Post(keeps)
        \/ Expire
        \/ \E cap \in Caps, days \in BOOLEAN : SetBackfillTarget(cap, days)
        \/ \E cap \in Caps : SetScanConfig(cap)
        \/ StartForward
        \/ Backfill
        \/ PassStep
        \/ Fail

Spec == Init /\ [][Next]_vars

\* A running pass goes on, and the scan loop keeps coming back to both kinds
\* of pass: between two backfill passes it always services a due forward one.
FairSpec == /\ Spec
            /\ WF_vars(PassStep)
            /\ SF_vars(StartForward)
            /\ SF_vars(Backfill)
-----------------------------------------------------------------------------
TypeOK == /\ srv \in [low : 1..MaxArticle + 1, high : 0..MaxArticle]
          /\ avail \subseteq Articles
          /\ row \in Rows
          /\ ingested \subseteq Articles
          /\ pass \in Passes
          /\ top \in 0..MaxArticle
          /\ cut \in BOOLEAN
          /\ failures \in 0..MaxFailures
          /\ edits \in 0..MaxEdits

\* No article is lost below the forward watermark, whatever pass failed where:
\* what the server still has up to last_scanned_high has been ingested.
ForwardNoGap == avail \cap 1..row.high \subseteq ingested

\* No article is lost above the backfill watermark: what the server still has
\* between backfill_low and where the backfill began has been ingested.
BackfillNoGap == row.low > 0 => avail \cap row.low..top \subseteq ingested

\* backfill_complete is the end of the walk: unless the date cutoff ended it,
\* no article the server has below where it began is missing.
CompleteMeansDone == row.complete /\ ~cut => avail \cap 1..top \subseteq ingested

\* A pass resumes where the saved watermark says ("resumes without
\* re-ingesting", ScanForward): no batch reaches into what the watermark of its
\* direction covers.  (A batch whose watermark was not saved is fetched again.)
NoReingest ==
  [][Ingest => IF pass.kind = "forward"
               THEN BatchLow > row.high
               ELSE row.low > 0 => BatchHigh < row.low]_vars

\* Every article that stays on the server is ingested in the end, although
\* passes fail and are capped.
CatchesUp == <>[](avail \subseteq ingested)

\* Every backfill that is not re-opened again and again completes.
BackfillCompletes == <>[](row.complete)

\* "index older posts back to N days or M articles per group" (README): a
\* group whose target has no day bound is backfilled to the server's low.  Not
\* kept when the target is edited during a pass.
TargetReached == <>[](row.days \/ row.low <= srv.low)
=============================================================================
