---------------------------- MODULE Scanner_proofs ----------------------------
(***************************************************************************)
(* The watermarks of Scanner lose no article, for every size of group,     *)
(* batch and cap and any number of failures and edits.  The watermarks     *)
(* alone are not inductive: the invariant also says what a pass under way  *)
(* has already covered (PassCovers) and how its bounds, read at its start, *)
(* relate to the server's present ones (PassBounds).                       *)
(***************************************************************************)
EXTENDS Scanner, TLAPS

ServerInv == /\ srv.low <= srv.high + 1
             /\ avail \subseteq srv.low..srv.high
             /\ row.high <= srv.high
             /\ top <= srv.high

PassBounds ==
  /\ pass.kind = "forward" =>
       /\ pass.at # "finish"
       /\ row.high < pass.cur
       /\ pass.cur <= pass.to
       /\ pass.to <= srv.high
  /\ pass.kind = "backfill" =>
       /\ ~row.complete
       /\ 1 <= pass.infoLow
       /\ pass.infoLow <= srv.low
       /\ pass.infoLow <= pass.to
       /\ pass.to <= pass.cur
       /\ pass.at = "batch" /\ row.low > 0 => pass.cur < row.low
       /\ pass.at = "persist" => pass.newLow = BatchLow
       /\ pass.at = "finish" => 1 <= pass.newLow
  /\ pass.kind = "none" => pass = NoPass

PassCovers ==
  /\ pass.kind = "forward" =>
       /\ avail \cap 1..pass.cur - 1 \subseteq ingested
       /\ pass.at = "persist" => avail \cap Batch \subseteq ingested
  /\ pass.kind = "backfill" =>
       /\ pass.at = "batch" => avail \cap pass.cur + 1..top \subseteq ingested
       /\ pass.at # "batch" => avail \cap pass.newLow..top \subseteq ingested

IInv == /\ TypeOK
        /\ ServerInv
        /\ PassBounds
        /\ PassCovers
        /\ ForwardNoGap
        /\ BackfillNoGap
        /\ CompleteMeansDone

USE ScannerAssumption

\* The pass that is none has the type of a pass.
LEMMA NoPassType == NoPass \in Passes
<1>1. 0 \in 0..MaxArticle /\ 0 \in 0..MaxArticle + 1
  OBVIOUS
<1> QED
  BY <1>1 DEF NoPass, Passes

\* The types of what the passes read.
LEMMA PassTypes ==
  ASSUME IInv
  PROVE  /\ pass.cur \in 0..MaxArticle /\ pass.to \in 0..MaxArticle
         /\ pass.newLow \in 0..MaxArticle + 1 /\ pass.infoLow \in 0..MaxArticle + 1
         /\ pass.kind \in {"none", "forward", "backfill"}
         /\ pass.at \in {"batch", "persist", "finish"}
         /\ row.high \in 0..MaxArticle /\ row.low \in 0..MaxArticle + 1
         /\ row.cap \in Nat /\ row.forwardCap \in Nat
         /\ srv.low \in 1..MaxArticle + 1 /\ srv.high \in 0..MaxArticle
         /\ top \in 0..MaxArticle
<1>1. row.cap \in Caps /\ row.forwardCap \in Caps
  BY DEF IInv, TypeOK, Rows
<1> QED
  BY <1>1 DEF IInv, TypeOK, Rows, Passes

\* A new group satisfies the inductive invariant.
LEMMA InitIInv == Init => IInv
<1> SUFFICES ASSUME Init PROVE IInv
  OBVIOUS
<1>1. PICK h \in 0..MaxArticle : srv = [low |-> 1, high |-> h]
  BY DEF Init
<1>2. TypeOK
  <2>1. /\ 0 \in 0..MaxArticle /\ 0 \in 0..MaxArticle + 1 /\ 1 \in 1..MaxArticle + 1
        /\ 0 \in 0..MaxFailures /\ 0 \in 0..MaxEdits
    OBVIOUS
  <2>2. row \in Rows
    BY DEF Init
  <2>3. pass \in Passes
    BY NoPassType DEF Init
  <2>4. avail \subseteq Articles
    BY <1>1 DEF Init, Articles
  <2> QED
    BY <1>1, <2>1, <2>2, <2>3, <2>4 DEF Init, TypeOK
<1> QED
  BY <1>1, <1>2 DEF Init, IInv, ServerInv, PassBounds, PassCovers, NoPass,
     ForwardNoGap, BackfillNoGap, CompleteMeansDone, Batch, BatchLow, BatchHigh

\* Posting and expiring articles disturbs no watermark.
LEMMA ServerStep ==
  ASSUME IInv, (\E keeps \in BOOLEAN : Post(keeps)) \/ Expire
  PROVE  IInv'
<1>1. CASE \E keeps \in BOOLEAN : Post(keeps)
  <2> PICK keeps \in BOOLEAN : Post(keeps)
    BY <1>1
  <2> USE DEF Post, IInv, serverVars, history
  <2>1. srv' = [low |-> srv.low, high |-> srv.high + 1]
    BY DEF TypeOK, Rows, Passes
  <2>2. TypeOK'
    BY <2>1 DEF TypeOK, Rows, Passes, Articles
  <2>3. avail' \subseteq avail \cup {srv.high + 1}
    OBVIOUS
  <2>4. ServerInv'
    BY <2>1 DEF TypeOK, Rows, Passes, ServerInv
  <2>5. PassBounds'
    BY <2>1 DEF TypeOK, Rows, Passes, PassBounds, BatchLow, Greater
  <2>6. PassCovers'
    BY <2>1, <2>3 DEF TypeOK, Rows, Passes, ServerInv, PassBounds, PassCovers, Batch, BatchLow, BatchHigh, Lesser
  <2>7. ForwardNoGap' /\ BackfillNoGap' /\ CompleteMeansDone'
    BY <2>1, <2>3 DEF TypeOK, Rows, Passes, ServerInv, ForwardNoGap, BackfillNoGap, CompleteMeansDone
  <2> QED
    BY <2>2, <2>4, <2>5, <2>6, <2>7
<1>2. CASE Expire
  <2> USE <1>2 DEF Expire, IInv, serverVars, history
  <2>1. srv' = [low |-> srv.low + 1, high |-> srv.high]
    BY DEF TypeOK, Rows, Passes
  <2>2. TypeOK'
    BY <2>1 DEF TypeOK, Rows, Passes, Articles
  <2>3. ServerInv' /\ PassBounds'
    BY <2>1 DEF TypeOK, Rows, Passes, ServerInv, PassBounds, BatchLow, Greater
  <2>4. PassCovers'
    BY DEF PassCovers, Batch, BatchLow, BatchHigh
  <2>5. ForwardNoGap' /\ BackfillNoGap' /\ CompleteMeansDone'
    BY DEF ForwardNoGap, BackfillNoGap, CompleteMeansDone
  <2> QED
    BY <2>2, <2>3, <2>4, <2>5
<1> QED
  BY <1>1, <1>2

\* Editing the row changes no watermark and may only reopen the backfill.
LEMMA EditStep ==
  ASSUME IInv,
         \/ \E cap \in Caps, days \in BOOLEAN : SetBackfillTarget(cap, days)
         \/ \E cap \in Caps : SetScanConfig(cap)
  PROVE  IInv'
<1>1. /\ UNCHANGED <<serverVars, ingested, pass, history>>
      /\ row'.high = row.high /\ row'.low = row.low
      /\ row'.complete => row.complete
  BY DEF SetBackfillTarget, SetScanConfig, IInv, TypeOK, Rows
<1>2. TypeOK'
  <2>a. edits < MaxEdits /\ edits' = edits + 1 /\ failures' = failures
    BY DEF SetBackfillTarget, SetScanConfig
  <2>1. edits' \in 0..MaxEdits /\ failures' = failures
    BY <2>a DEF IInv, TypeOK, Rows, Passes
  <2>2. row' \in Rows
    BY DEF IInv, TypeOK, Rows, Passes, SetBackfillTarget, SetScanConfig
  <2> QED
    BY <1>1, <2>1, <2>2 DEF IInv, TypeOK, Rows, Passes, serverVars, history
<1> QED
  BY <1>1, <1>2 DEF IInv, ServerInv, PassBounds, PassCovers, ForwardNoGap, BackfillNoGap,
     CompleteMeansDone, serverVars, history, Batch, BatchLow, BatchHigh

\* A pass begins with the bounds that the watermarks and the server give it.
LEMMA StartStep ==
  ASSUME IInv, StartForward \/ StartBackfill
  PROVE  IInv'
<1>1. CASE StartForward
  <2>1. /\ ForwardStart \in 1..srv.high
        /\ row.high < ForwardStart
        /\ ForwardStart <= ForwardEnd
        /\ ForwardEnd \in 1..srv.high
    <3>1. ForwardStart <= srv.high
      BY <1>1 DEF StartForward
    <3>2. ForwardStart \in 1..srv.high /\ row.high < ForwardStart
      BY <3>1, PassTypes DEF ForwardStart, Greater
    <3>3. ForwardEnd \in ForwardStart..srv.high
      BY <3>2, PassTypes DEF ForwardEnd, Lesser
    <3> QED
      BY <3>2, <3>3, PassTypes
  <2>a. UNCHANGED <<serverVars, row, ingested, history, failures, edits>>
    BY <1>1 DEF StartForward
  <2>2. pass' = [kind |-> "forward", at |-> "batch", cur |-> ForwardStart, to |-> ForwardEnd,
                 infoLow |-> 0, newLow |-> 0, days |-> FALSE, old |-> FALSE]
    BY <1>1 DEF StartForward, NoPass
  <2> USE <2>a DEF serverVars, history
  <2>3. TypeOK'
    <3>1. pass' \in Passes
      BY <2>1, <2>2 DEF IInv, TypeOK, Rows, Passes
    <3> QED
      BY <3>1 DEF IInv, TypeOK, Rows, Passes
  <2>4. ServerInv' /\ PassBounds'
    BY <2>1, <2>2 DEF IInv, TypeOK, Rows, Passes, ServerInv, PassBounds
  <2>5. avail \cap 1..ForwardStart - 1 \subseteq ingested
    BY <2>1 DEF IInv, TypeOK, Rows, Passes, ServerInv, ForwardNoGap, ForwardStart, Greater
  <2>6. PassCovers'
    BY <2>2, <2>5 DEF PassCovers
  <2> QED
    BY <2>3, <2>4, <2>6 DEF IInv, ForwardNoGap, BackfillNoGap, CompleteMeansDone
<1>2. CASE StartBackfill
  <2>a. BackfillUpper >= srv.low
    BY <1>2 DEF StartBackfill
  <2>0. /\ row.cap \in Nat /\ srv.low \in Nat
        /\ BackfillUpper \in srv.low..MaxArticle
    BY <2>a, PassTypes DEF BackfillUpper
  <2> USE <1>2 DEF StartBackfill, serverVars
  <2>1. /\ BackfillUpper \in srv.low..MaxArticle
        /\ BackfillTarget \in srv.low..BackfillUpper
        /\ row.low = 0 => BackfillUpper = srv.high
        /\ row.low > 0 => BackfillUpper = row.low - 1
    <3>1. BackfillTarget \in srv.low..BackfillUpper
      BY <2>0 DEF BackfillTarget, Greater
    <3> QED
      BY <2>0, <3>1 DEF IInv, TypeOK, Rows, Passes, BackfillUpper
  <2>2. row.days \in BOOLEAN /\ ~row.complete
    BY DEF IInv, TypeOK, Rows, Passes
  <2>3. /\ pass'.kind = "backfill" /\ pass'.at = "batch" /\ pass'.cur = BackfillUpper
        /\ pass'.to = BackfillTarget /\ pass'.infoLow = srv.low
    OBVIOUS
  <2>4. TypeOK'
    BY <2>1, <2>2 DEF IInv, TypeOK, Rows, Passes
  <2>5. ServerInv' /\ PassBounds'
    BY <2>1, <2>2, <2>3 DEF IInv, TypeOK, Rows, Passes, ServerInv, PassBounds
  <2>6. PassCovers'
    BY <2>1, <2>3 DEF IInv, TypeOK, Rows, Passes, ServerInv, PassCovers, BackfillNoGap
  <2>7. ForwardNoGap' /\ BackfillNoGap' /\ CompleteMeansDone'
    BY <2>2 DEF IInv, TypeOK, Rows, Passes, ForwardNoGap, BackfillNoGap, CompleteMeansDone
  <2> QED
    BY <2>4, <2>5, <2>6, <2>7 DEF IInv
<1> QED
  BY <1>1, <1>2

\* With nothing left above the server's low, saving that loses nothing.
LEMMA NothingStep ==
  ASSUME IInv, NothingToBackfill
  PROVE  IInv'
<1> USE DEF NothingToBackfill, serverVars
<1>1. row' \in Rows
  <2>1. srv.low \in 0..MaxArticle + 1
    BY DEF IInv, TypeOK, Rows, Passes
  <2> QED
    BY <2>1, Zenon DEF IInv, TypeOK, Rows, Passes
<1>2. row'.low = srv.low /\ row'.high = row.high
  BY DEF IInv, TypeOK, Rows, Passes
<1>3. TypeOK'
  BY <1>1 DEF IInv, TypeOK, Rows, Passes, BackfillUpper
<1>4. avail \cap 1..top' \subseteq ingested
  BY DEF IInv, TypeOK, Rows, Passes, ServerInv, BackfillNoGap, BackfillUpper
<1>5. ServerInv' /\ PassBounds' /\ PassCovers'
  BY <1>2 DEF IInv, TypeOK, Rows, Passes, ServerInv, PassBounds, PassCovers, Running, NoPass, BackfillUpper
<1> QED
  BY <1>2, <1>3, <1>4, <1>5 DEF IInv, TypeOK, Rows, Passes, ForwardNoGap, BackfillNoGap, CompleteMeansDone

\* A batch lies between the pass's position and its end.
LEMMA BatchRange ==
  ASSUME IInv, pass.kind # "none"
  PROVE  /\ BatchLow \in Nat /\ BatchHigh \in Nat
         /\ pass.kind = "forward" => /\ BatchLow = pass.cur
                                     /\ BatchHigh \in pass.cur..pass.to
                                     /\ BatchHigh < pass.cur + BatchSize
                                     /\ BatchHigh = pass.to \/ BatchHigh = pass.cur + BatchSize - 1
         /\ pass.kind = "backfill" => /\ BatchHigh = pass.cur
                                      /\ BatchLow \in pass.to..pass.cur
                                      /\ pass.cur - BatchSize < BatchLow
                                      /\ BatchLow = pass.to \/ BatchLow = pass.cur - BatchSize + 1
  BY PassTypes DEF IInv, PassBounds, BatchLow, BatchHigh, Lesser, Greater

\* Committing a batch only adds to what is ingested.
LEMMA IngestStep ==
  ASSUME IInv, Ingest
  PROVE  IInv'
<1> DEFINE old == pass.days /\ avail \cap Batch \cap Old # {}
<1>1. /\ UNCHANGED <<srv, avail, row, top, cut, failures, edits>>
      /\ ingested' = ingested \cup (avail \cap Batch)
      /\ pass.kind # "none" /\ pass.at = "batch"
  BY DEF Ingest, InsertParts, serverVars, history
<1>2. pass' = [pass EXCEPT !.at = "persist", !.newLow = BatchLow, !.old = old]
  BY DEF Ingest, InsertParts
<1>3. /\ BatchLow \in 0..MaxArticle + 1
      /\ old \in BOOLEAN
  BY <1>1, PassTypes, BatchRange
<1>4. pass' \in Passes
  BY <1>2, <1>3, Zenon DEF IInv, TypeOK, Rows, Passes
<1>5. TypeOK'
  BY <1>1, <1>4 DEF IInv, TypeOK, Rows, Passes
<1>6. /\ pass'.kind = pass.kind /\ pass'.at = "persist" /\ pass'.cur = pass.cur
      /\ pass'.to = pass.to /\ pass'.infoLow = pass.infoLow /\ pass'.newLow = BatchLow
  BY <1>2 DEF IInv, TypeOK, Rows, Passes
<1>7. BatchLow' = BatchLow /\ BatchHigh' = BatchHigh
  BY <1>6 DEF BatchLow, BatchHigh
<1>8. ServerInv' /\ PassBounds'
  BY <1>1, <1>6, <1>7 DEF IInv, ServerInv, PassBounds
<1>9. PassCovers'
  BY <1>1, <1>6, <1>7, PassTypes, BatchRange DEF IInv, PassCovers, Batch
<1> QED
  BY <1>1, <1>5, <1>8, <1>9 DEF IInv, ForwardNoGap, BackfillNoGap, CompleteMeansDone

\* The forward watermark moves to the end of a batch that has been committed.
LEMMA PersistForwardStep ==
  ASSUME IInv, PersistForward
  PROVE  IInv'
<1>1. /\ UNCHANGED <<srv, avail, ingested, top, cut, failures, edits>>
      /\ pass.kind = "forward" /\ pass.at = "persist"
      /\ row' = [row EXCEPT !.high = BatchHigh]
      /\ pass' = IF pass.cur + BatchSize <= pass.to
                 THEN [pass EXCEPT !.at = "batch", !.cur = pass.cur + BatchSize]
                 ELSE NoPass
  BY DEF PersistForward, serverVars, history, Running, IInv, TypeOK
<1>2. /\ BatchHigh \in pass.cur..pass.to
      /\ BatchHigh \in 0..MaxArticle
      /\ pass.to <= srv.high
  BY <1>1, PassTypes, BatchRange DEF IInv, PassBounds
<1>3. row' \in Rows
  BY <1>1, <1>2, Zenon DEF IInv, TypeOK, Rows, Passes
<1>4. row'.high = BatchHigh /\ row'.low = row.low /\ row'.complete = row.complete
  BY <1>1 DEF IInv, TypeOK, Rows, Passes
<1>5. avail \cap 1..BatchHigh \subseteq ingested
  BY <1>1, <1>2, PassTypes, BatchRange DEF IInv, PassCovers, Batch
<1>6. ServerInv' /\ ForwardNoGap' /\ BackfillNoGap' /\ CompleteMeansDone'
  BY <1>1, <1>2, <1>4, <1>5, PassTypes DEF IInv, ServerInv, ForwardNoGap, BackfillNoGap,
     CompleteMeansDone
<1>7. CASE pass.cur + BatchSize <= pass.to
  <2>0. pass.cur + BatchSize \in 0..MaxArticle
    BY <1>7, PassTypes
  <2>1. pass' = [pass EXCEPT !.at = "batch", !.cur = pass.cur + BatchSize]
    BY <1>1, <1>7
  <2>2. /\ pass'.kind = "forward" /\ pass'.at = "batch" /\ pass'.to = pass.to
        /\ pass'.cur = pass.cur + BatchSize
    BY <1>1, <2>1 DEF IInv, TypeOK, Rows, Passes
  <2>3. pass' \in Passes
    BY <2>0, <2>1, Zenon DEF IInv, TypeOK, Rows, Passes
  <2>4. TypeOK'
    BY <1>1, <1>3, <2>3 DEF IInv, TypeOK, Rows, Passes
  <2>5. PassBounds'
    BY <1>1, <1>2, <1>4, <1>7, <2>2, PassTypes, BatchRange DEF PassBounds
  <2>6. PassCovers'
    BY <1>1, <1>5, <1>7, <2>2, PassTypes, BatchRange DEF PassCovers
  <2> QED
    BY <1>6, <2>4, <2>5, <2>6 DEF IInv
<1>8. CASE ~(pass.cur + BatchSize <= pass.to)
  <2>1. pass' = NoPass
    BY <1>1, <1>8
  <2>2. TypeOK'
    BY <1>1, <1>3, <2>1, NoPassType DEF IInv, TypeOK, Rows, Passes
  <2>3. PassBounds' /\ PassCovers'
    BY <2>1 DEF PassBounds, PassCovers, NoPass
  <2> QED
    BY <1>6, <2>2, <2>3 DEF IInv
<1> QED
  BY <1>7, <1>8

\* The backfill watermark moves to the start of a batch that has been committed.
LEMMA PersistBackfillStep ==
  ASSUME IInv, PersistBackfill
  PROVE  IInv'
<1>1. /\ UNCHANGED <<srv, avail, ingested, top, cut, failures, edits>>
      /\ pass.kind = "backfill" /\ pass.at = "persist"
      /\ row' = [row EXCEPT !.low = BatchLow, !.complete = FALSE]
      /\ \/ pass' = [pass EXCEPT !.at = "finish"]
         \/ /\ BatchLow # pass.to
            /\ pass' = [pass EXCEPT !.at = "batch", !.cur = pass.cur - BatchSize]
  BY DEF PersistBackfill, serverVars, history, Running, IInv, TypeOK, Passes
<1>2. /\ BatchLow \in 1..MaxArticle + 1
      /\ pass.newLow = BatchLow
      /\ avail \cap BatchLow..top \subseteq ingested
  BY <1>1, PassTypes, BatchRange DEF IInv, PassBounds, PassCovers
<1>3. row' \in Rows
  <2>1. BatchLow \in 0..MaxArticle + 1
    BY <1>2
  <2> QED
    BY <1>1, <2>1, Zenon DEF IInv, TypeOK, Rows
<1>4. row'.high = row.high /\ row'.low = BatchLow /\ ~row'.complete
  BY <1>1 DEF IInv, TypeOK, Rows
<1>5. ServerInv' /\ ForwardNoGap' /\ BackfillNoGap' /\ CompleteMeansDone'
  BY <1>1, <1>2, <1>4 DEF IInv, ServerInv, ForwardNoGap, BackfillNoGap, CompleteMeansDone
<1>6. CASE pass' = [pass EXCEPT !.at = "finish"]
  <2>1. /\ pass'.kind = "backfill" /\ pass'.at = "finish" /\ pass'.to = pass.to
        /\ pass'.cur = pass.cur /\ pass'.newLow = BatchLow /\ pass'.infoLow = pass.infoLow
    BY <1>1, <1>2, <1>6 DEF IInv, TypeOK, Passes
  <2>2. pass' \in Passes
    BY <1>6, Zenon DEF IInv, TypeOK, Passes
  <2>3. TypeOK'
    BY <1>1, <1>3, <2>2 DEF IInv, TypeOK
  <2>4. PassBounds' /\ PassCovers'
    BY <1>1, <1>2, <1>4, <2>1 DEF IInv, PassBounds, PassCovers
  <2> QED
    BY <1>5, <2>3, <2>4 DEF IInv
<1>7. CASE /\ BatchLow # pass.to
           /\ pass' = [pass EXCEPT !.at = "batch", !.cur = pass.cur - BatchSize]
  <2>0. /\ BatchLow = pass.cur - BatchSize + 1
        /\ pass.cur - BatchSize \in 0..MaxArticle
        /\ pass.to <= pass.cur - BatchSize
    BY <1>1, <1>7, PassTypes, BatchRange
  <2>1. /\ pass'.kind = "backfill" /\ pass'.at = "batch" /\ pass'.to = pass.to
        /\ pass'.cur = pass.cur - BatchSize /\ pass'.infoLow = pass.infoLow
    BY <1>1, <1>7 DEF IInv, TypeOK, Passes
  <2>2. pass' \in Passes
    BY <1>7, <2>0, Zenon DEF IInv, TypeOK, Passes
  <2>3. TypeOK'
    BY <1>1, <1>3, <2>2 DEF IInv, TypeOK
  <2>4. PassBounds'
    BY <1>1, <1>4, <2>0, <2>1, PassTypes DEF IInv, PassBounds
  <2>5. PassCovers'
    BY <1>1, <1>2, <2>0, <2>1, PassTypes DEF PassCovers
  <2> QED
    BY <1>5, <2>3, <2>4, <2>5 DEF IInv
<1> QED
  BY <1>1, <1>6, <1>7

\* The last write of a backfill calls it complete only when it is.
LEMMA FinishStep ==
  ASSUME IInv, FinishBackfill
  PROVE  IInv'
<1>1. /\ UNCHANGED <<srv, avail, ingested, top, failures, edits>>
      /\ pass.at = "finish"
      /\ row' = [row EXCEPT !.low = pass.newLow,
                            !.complete = pass.newLow <= pass.infoLow \/ pass.old]
      /\ cut' = pass.old
      /\ pass' = NoPass
  BY DEF FinishBackfill, serverVars
<1>2. pass.kind = "backfill"
  BY <1>1, PassTypes DEF IInv, PassBounds, NoPass
<1>3. /\ pass.newLow \in 1..MaxArticle + 1
      /\ pass.infoLow <= srv.low
      /\ avail \cap pass.newLow..top \subseteq ingested
  BY <1>1, <1>2, PassTypes DEF IInv, PassBounds, PassCovers
<1>4. cut' \in BOOLEAN /\ (pass.newLow <= pass.infoLow \/ pass.old) \in BOOLEAN
  BY <1>1 DEF IInv, TypeOK, Passes
<1>5. row' \in Rows
  <2>1. pass.newLow \in 0..MaxArticle + 1
    BY <1>3
  <2> QED
    BY <1>1, <1>4, <2>1, Zenon DEF IInv, TypeOK, Rows
<1>6. /\ row'.high = row.high /\ row'.low = pass.newLow
      /\ row'.complete => pass.newLow <= pass.infoLow \/ cut'
  BY <1>1 DEF IInv, TypeOK, Rows
<1>7. TypeOK'
  BY <1>1, <1>4, <1>5, NoPassType DEF IInv, TypeOK
<1>8. PassBounds' /\ PassCovers'
  BY <1>1 DEF PassBounds, PassCovers, NoPass
<1>9. ServerInv' /\ ForwardNoGap' /\ BackfillNoGap'
  BY <1>1, <1>3, <1>6 DEF IInv, ServerInv, ForwardNoGap, BackfillNoGap
<1>10. CompleteMeansDone'
  BY <1>1, <1>3, <1>6, PassTypes DEF IInv, ServerInv, CompleteMeansDone
<1> QED
  BY <1>7, <1>8, <1>9, <1>10 DEF IInv

\* A pass that fails leaves the watermarks where its last batch put them.
LEMMA FailStep ==
  ASSUME IInv, Fail
  PROVE  IInv'
<1>1. /\ UNCHANGED <<srv, avail, row, ingested, top, cut, edits>>
      /\ failures < MaxFailures /\ failures' = failures + 1
      /\ pass' = NoPass
  BY DEF Fail, serverVars, history
<1>2. TypeOK'
  BY <1>1, NoPassType DEF IInv, TypeOK
<1>3. PassBounds' /\ PassCovers'
  BY <1>1 DEF PassBounds, PassCovers, NoPass
<1> QED
  BY <1>1, <1>2, <1>3 DEF IInv, ServerInv, ForwardNoGap, BackfillNoGap, CompleteMeansDone

\* Every step of the group, the server and the administrators keeps the invariant.
LEMMA NextIInv == IInv /\ [Next]_vars => IInv'
<1> SUFFICES ASSUME IInv, [Next]_vars PROVE IInv'
  OBVIOUS
<1>1. CASE UNCHANGED vars
  BY <1>1 DEF vars, serverVars, history, IInv, TypeOK, ServerInv, PassBounds, PassCovers,
     ForwardNoGap, BackfillNoGap, CompleteMeansDone, Batch, BatchLow, BatchHigh
<1>2. CASE Next
  BY <1>2, ServerStep, EditStep, StartStep, NothingStep, IngestStep, PersistForwardStep,
     PersistBackfillStep, FinishStep, FailStep DEF Next, PassStep, Backfill
<1> QED
  BY <1>1, <1>2

\* Type correctness of the group's row, the server and the passes.
THEOREM TypeCorrect == Spec => []TypeOK
<1>1. IInv => TypeOK
  BY DEF IInv
<1> QED
  BY <1>1, InitIInv, NextIInv, PTL DEF Spec

\* ScanForward loses no article below last_scanned_high.
THEOREM ForwardLosesNothing == Spec => []ForwardNoGap
<1>1. IInv => ForwardNoGap
  BY DEF IInv
<1> QED
  BY <1>1, InitIInv, NextIInv, PTL DEF Spec

\* ScanBackfill loses no article above backfill_low.
THEOREM BackfillLosesNothing == Spec => []BackfillNoGap
<1>1. IInv => BackfillNoGap
  BY DEF IInv
<1> QED
  BY <1>1, InitIInv, NextIInv, PTL DEF Spec

\* backfill_complete is only set when nothing is left to walk.
THEOREM CompletionSound == Spec => []CompleteMeansDone
<1>1. IInv => CompleteMeansDone
  BY DEF IInv
<1> QED
  BY <1>1, InitIInv, NextIInv, PTL DEF Spec

\* No batch of a resumed pass reaches into what its direction has covered.
THEOREM ResumesCleanly == Spec => NoReingest
<1>1. IInv /\ [Next]_vars =>
        [Ingest => IF pass.kind = "forward"
                   THEN BatchLow > row.high
                   ELSE row.low > 0 => BatchHigh < row.low]_vars
  <2> SUFFICES ASSUME IInv, Ingest
               PROVE  IF pass.kind = "forward"
                      THEN BatchLow > row.high
                      ELSE row.low > 0 => BatchHigh < row.low
    OBVIOUS
  <2>1. pass.kind # "none" /\ pass.at = "batch"
    BY DEF Ingest, InsertParts
  <2> QED
    BY <2>1, PassTypes, BatchRange DEF IInv, PassBounds
<1> QED
  BY <1>1, InitIInv, NextIInv, PTL DEF Spec, NoReingest
===============================================================================
