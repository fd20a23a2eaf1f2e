---------------------------- MODULE PostProcess ----------------------------
(***************************************************************************)
(* Post-processing.  A pass claims a batch of due releases, a sender hands *)
(* them to a few workers over an unbuffered channel, and each worker       *)
(* fetches articles and records a result or a failure.  A failure is       *)
(* retried after a backoff until the attempts are used up; an              *)
(* administrator may requeue what failed.  A pass can be cancelled, a      *)
(* release can be deleted while it is processed, a statement can fail, and *)
(* the process can die: an action is one statement or one channel step.    *)
(***************************************************************************)
EXTENDS Integers, Sequences, FiniteSets, FiniteSetsExt, SequencesExt

CONSTANTS Releases,      \* release ids, the larger the newer
          Segs,          \* the kinds of a release's segments, smallest first
          Obfuscated,    \* releases with an obfuscated name
          Workers,       \* goroutines, as many as opts.Concurrency may ask for
          BatchLimit,    \* opts.BatchLimit
          FetchBudget,   \* opts.MaxFetchPerRelease
          MaxPPAttempts,
          MaxAborts,     \* bound: cancelled passes and crashes
          MaxErrors,     \* bound: statements that fail
          MaxRequeues,   \* bound: RequeueFailedReleases
          MaxDeletes     \* bound: releases deleted by a repair

Kinds == {"par2", "nfo", "other"}

ASSUME PostProcessAssumption ==
  /\ IsFiniteSet(Releases) /\ Releases \subseteq Nat
  /\ Segs \in [Releases -> Seq(Kinds)]
  /\ Obfuscated \subseteq Releases
  /\ IsFiniteSet(Workers) /\ Workers # {}
  /\ {BatchLimit, FetchBudget, MaxPPAttempts} \subseteq Nat \ {0}
  /\ {MaxAborts, MaxErrors, MaxRequeues, MaxDeletes} \subseteq Nat

VARIABLES rel,      \* the releases table: the columns of post-processing
          pass,     \* Processor.Run: its position, what is left to send, its channels
          worker,   \* the worker goroutines of Run
          concurrency, \* opts.Concurrency, whatever the budget made it at the start
          failures, \* history: failures recorded since the last requeue
          aborts, errors, requeues, deletes

counters == <<aborts, errors, requeues, deletes>>
vars == <<rel, pass, worker, concurrency, failures, counters>>

\* wait: backoff units until next_retry_at.
Rows == [status : {"pending", "failed", "done", "gone"}, attempts : Nat,
         permanent : BOOLEAN, wait : Nat]
NewRow == [status |-> "pending", attempts |-> 0, permanent |-> FALSE, wait |-> 0]

Passes == [at : {"idle", "send", "wait"}, todo : SUBSET Releases,
           stop : BOOLEAN, cancelled : BOOLEAN]
NoPass == [at |-> "idle", todo |-> {}, stop |-> FALSE, cancelled |-> FALSE]

Outcomes == [failed : BOOLEAN, permanent : BOOLEAN, ids : BOOLEAN]
NoOutcome == [failed |-> FALSE, permanent |-> FALSE, ids |-> FALSE]
NoWorker == [at |-> "off", rel |-> 0, out |-> NoOutcome, read |-> 0]

Init == /\ rel = [r \in Releases |-> NewRow]
        /\ pass = NoPass
        /\ worker = [w \in Workers |-> NoWorker]
        /\ concurrency \in 1..Cardinality(Workers)
        /\ failures = [r \in Releases |-> 0]
        /\ aborts = 0 /\ errors = 0 /\ requeues = 0 /\ deletes = 0
-----------------------------------------------------------------------------
(* The retry policy *)

\* PPBackoff in units of five minutes: doubled per attempt, six hours at most.
PPBackoff(attempts) == Min({72, 2 ^ Min({20, Max({1, attempts}) - 1})})

\* Mutant: a pending release is due only while it has attempts left.
DueCounted == {r \in Releases : /\ rel[r].status \in {"pending", "failed"}
                                /\ ~rel[r].permanent
                                /\ rel[r].attempts < MaxPPAttempts
                                /\ rel[r].wait = 0}

\* pending_due and failed_due.
Due == {r \in Releases :
          /\ ~rel[r].permanent
          /\ \/ rel[r].status = "pending"
             \/ /\ rel[r].status = "failed"
                /\ rel[r].attempts < MaxPPAttempts
                /\ rel[r].wait = 0}

\* ORDER BY is_pending DESC, created_at DESC.
Before(q, r) == \/ rel[q].status = "pending" /\ rel[r].status = "failed"
                \/ rel[q].status = rel[r].status /\ q > r

ListPendingReleases == {r \in Due : Cardinality({q \in Due : Before(q, r)}) < BatchLimit}

\* The claiming UPDATE, committed before the segments are read.
Claim(S) == [r \in Releases |-> IF r \in S THEN [rel[r] EXCEPT !.attempts = @ + 1]
                                           ELSE rel[r]]
-----------------------------------------------------------------------------
(* processOne: which articles are fetched and what they make of a release *)

\* What a fetch comes to: a body with a usable name or text, a body without, or
\* an error.
Bodies == {"useful", "useless", "transient", "permanent"}

\* classifySegments.
classifySegments(r, kind) == SelectSeq([i \in DOMAIN Segs[r] |-> i],
                                       LAMBDA i : Segs[r][i] = kind)

NoFetch == [fetched |-> 0, name |-> FALSE, nfo |-> FALSE, err |-> FALSE, permanent |-> FALSE]

\* fetchDecoded of one segment, within the budget.
fetchDecoded(st, body) ==
  [st EXCEPT !.fetched = @ + 1,
             !.err = @ \/ body \in {"transient", "permanent"},
             !.permanent = @ \/ body = "permanent"]

\* The loops over the candidates of one kind end with the first find.
ProbeName(st, segs, got) ==
  FoldLeft(LAMBDA a, i : IF a.name \/ a.fetched >= FetchBudget THEN a
                         ELSE [fetchDecoded(a, got[i]) EXCEPT !.name = got[i] = "useful"],
           st, segs)
ReadNfo(st, segs, got) ==
  FoldLeft(LAMBDA a, i : IF a.nfo \/ a.fetched >= FetchBudget THEN a
                         ELSE [fetchDecoded(a, got[i]) EXCEPT !.nfo = got[i] = "useful"],
           st, segs)

\* PAR2 by subject, then by content where the name is obfuscated, then the NFO.
\* cited: the NFO names an external identifier.
processOne(r, got, cited) ==
  LET hinted == ProbeName(NoFetch, classifySegments(r, "par2"), got)
      probed == IF r \in Obfuscated
                THEN ProbeName(hinted, classifySegments(r, "other"), got)
                ELSE hinted
      read   == ReadNfo(probed, classifySegments(r, "nfo"), got)
      failed == read.err /\ ~read.name /\ ~read.nfo
  IN [failed |-> failed, permanent |-> failed /\ read.permanent, ids |-> read.nfo /\ cited]

OutcomesOf == [r \in Releases |-> {processOne(r, got, cited) :
                                     got \in [DOMAIN Segs[r] -> Bodies], cited \in BOOLEAN}]
-----------------------------------------------------------------------------
(* The pass *)

\* Run: claim, start the workers, at most one per release and at least one.
Begin ==
  /\ pass.at = "idle"
  /\ LET S == ListPendingReleases
         off == {w \in Workers : worker[w].at = "off"}
         n == Min({Cardinality(off), Max({1, Min({concurrency, Cardinality(S)})})})
     IN /\ rel' = Claim(S)
        /\ pass' = [NoPass EXCEPT !.at = "send", !.todo = S]
        /\ \E W \in kSubset(n, off) :
             worker' = [w \in Workers |-> IF w \in W THEN [NoWorker EXCEPT !.at = "idle"]
                                                     ELSE worker[w]]
  /\ UNCHANGED <<failures, counters>>

\* The segments cannot be loaded: the batch is claimed and dropped.
BeginFails ==
  /\ pass.at = "idle"
  /\ errors < MaxErrors
  /\ rel' = Claim(ListPendingReleases)
  /\ errors' = errors + 1
  /\ UNCHANGED <<pass, worker, failures, aborts, requeues, deletes>>

\* case jobs <- pr, received by a worker, which looks at the context first.
Send(r, w) ==
  /\ pass.at = "send" /\ r \in pass.todo
  /\ worker[w].at = "idle"
  /\ pass' = [pass EXCEPT !.todo = @ \ {r}]
  /\ worker' = [worker EXCEPT ![w] = IF pass.cancelled THEN NoWorker
                                     ELSE [@ EXCEPT !.at = "work", !.rel = r]]
  /\ UNCHANGED <<rel, failures, counters>>

\* The send loop ends, by itself or through ctx.Done or stop; close(jobs).
CloseJobs ==
  /\ pass.at = "send"
  /\ pass.todo = {} \/ pass.stop \/ pass.cancelled
  /\ pass' = [pass EXCEPT !.at = "wait", !.todo = {}]
  /\ UNCHANGED <<rel, worker, failures, counters>>

\* A worker finds jobs closed.
WorkerEnds(w) ==
  /\ pass.at = "wait"
  /\ worker[w].at = "idle"
  /\ worker' = [worker EXCEPT ![w] = NoWorker]
  /\ UNCHANGED <<rel, pass, failures, counters>>

\* Mutant: returns without waiting for the workers.
RunReturnsEarly ==
  /\ pass.at = "wait"
  /\ pass' = NoPass
  /\ UNCHANGED <<rel, worker, failures, counters>>

\* wg.Wait, and the pass is over.
RunReturns ==
  /\ pass.at = "wait"
  /\ \A w \in Workers : worker[w].at = "off"
  /\ pass' = NoPass
  /\ UNCHANGED <<rel, worker, failures, counters>>
-----------------------------------------------------------------------------
(* A worker *)

Process(w) ==
  /\ worker[w].at = "work"
  /\ \E out \in OutcomesOf[worker[w].rel] :
       worker' = [worker EXCEPT ![w].out = out,
                                ![w].at = IF out.failed THEN "read" ELSE "apply"]
  /\ UNCHANGED <<rel, pass, failures, counters>>

\* A cancelled fetch is an error, and none of the statements that follow works.
ProcessCancelled(w) ==
  /\ worker[w].at = "work"
  /\ pass.cancelled
  /\ worker' = [worker EXCEPT ![w].at = "read",
                              ![w].out = [NoOutcome EXCEPT !.failed = TRUE]]
  /\ UNCHANGED <<rel, pass, failures, counters>>

\* A statement failed: fatal is set, abort() closes stop, the worker returns.
Fatal(w) == /\ worker' = [worker EXCEPT ![w] = NoWorker]
            /\ pass' = [pass EXCEPT !.stop = TRUE]
            /\ UNCHANGED <<rel, failures>>

\* The statement of worker w can fail: because of the context, because the row
\* is gone (ErrNotFound, or the foreign key of an identifier), or at random.
StatementFails(w) ==
  /\ worker[w].at \in {"read", "write", "apply"}
  /\ Fatal(w)
  /\ \/ /\ \/ pass.cancelled
           \/ /\ rel[worker[w].rel].status = "gone"
              /\ worker[w].at = "read" \/ (worker[w].at = "apply" /\ worker[w].out.ids)
        /\ UNCHANGED counters
     \/ /\ errors < MaxErrors
        /\ errors' = errors + 1
        /\ UNCHANGED <<aborts, requeues, deletes>>

Idle(w) == [worker EXCEPT ![w] = [NoWorker EXCEPT !.at = "idle"]]

\* RecordPPFailure reads the attempts ...
RecordRead(w) ==
  /\ worker[w].at = "read" /\ ~pass.cancelled
  /\ rel[worker[w].rel].status # "gone"
  /\ worker' = [worker EXCEPT ![w].at = "write", ![w].read = rel[worker[w].rel].attempts]
  /\ UNCHANGED <<rel, pass, failures, counters>>

\* ... and writes the outcome; an UPDATE of a row that is gone changes nothing.
RecordWrite(w) ==
  LET r == worker[w].rel
      makePermanent == worker[w].out.permanent \/ worker[w].read >= MaxPPAttempts
  IN /\ worker[w].at = "write" /\ ~pass.cancelled
     /\ rel' = [rel EXCEPT ![r] =
                  IF @.status = "gone" THEN @
                  ELSE IF makePermanent
                  THEN [@ EXCEPT !.status = "failed", !.permanent = TRUE, !.wait = 0]
                  ELSE [@ EXCEPT !.status = "failed", !.wait = PPBackoff(worker[w].read)]]
     /\ failures' = [failures EXCEPT ![r] = @ + 1]
     /\ worker' = Idle(w)
     /\ UNCHANGED <<pass, counters>>

\* ApplyPostProcessing, one transaction.  permanent and the wait stay.
ApplyPostProcessing(w) ==
  LET r == worker[w].rel
  IN /\ worker[w].at = "apply" /\ ~pass.cancelled
     /\ rel[r].status = "gone" => ~worker[w].out.ids
     /\ rel' = [rel EXCEPT ![r].status = IF @ = "gone" THEN @ ELSE "done"]
     /\ worker' = Idle(w)
     /\ UNCHANGED <<pass, failures, counters>>
-----------------------------------------------------------------------------
(* The others *)

\* Time passes.
Tick ==
  /\ rel' = [r \in Releases |-> [rel[r] EXCEPT !.wait = Max({0, @ - 1})]]
  /\ UNCHANGED <<pass, worker, failures, counters>>

RequeueFailedReleases ==
  /\ requeues < MaxRequeues
  /\ requeues' = requeues + 1
  /\ rel' = [r \in Releases |-> IF rel[r].status = "failed" THEN NewRow ELSE rel[r]]
  /\ failures' = [r \in Releases |-> IF rel[r].status = "failed" THEN 0 ELSE failures[r]]
  /\ UNCHANGED <<pass, worker, aborts, errors, deletes>>

\* A repair of the grouping deletes a release that is not done.  (It reads which
\* ones are done before it deletes: the window between is in Reassembly.)
Delete(r) ==
  /\ deletes < MaxDeletes
  /\ deletes' = deletes + 1
  /\ rel[r].status \in {"pending", "failed"}
  /\ rel' = [rel EXCEPT ![r] = [NewRow EXCEPT !.status = "gone"]]
  /\ UNCHANGED <<pass, worker, failures, aborts, errors, requeues>>

\* The job of the pass is cancelled.
Cancel ==
  /\ pass.at # "idle" /\ ~pass.cancelled
  /\ aborts < MaxAborts
  /\ aborts' = aborts + 1
  /\ pass' = [pass EXCEPT !.cancelled = TRUE]
  /\ UNCHANGED <<rel, worker, failures, errors, requeues, deletes>>

\* The process dies and starts again.
Crash ==
  /\ pass.at # "idle"
  /\ aborts < MaxAborts
  /\ aborts' = aborts + 1
  /\ pass' = NoPass
  /\ worker' = [w \in Workers |-> NoWorker]
  /\ UNCHANGED <<rel, failures, errors, requeues, deletes>>
-----------------------------------------------------------------------------
Sending == \E r \in Releases, w \in Workers : Send(r, w)
PassStep == Begin \/ Sending \/ CloseJobs \/ RunReturns
WorkerStep(w) == \/ Process(w) \/ ProcessCancelled(w) \/ RecordRead(w) \/ RecordWrite(w)
                 \/ ApplyPostProcessing(w) \/ StatementFails(w) \/ WorkerEnds(w)

Step == \/ PassStep \/ BeginFails
        \/ \E w \in Workers : WorkerStep(w)
        \/ Tick \/ RequeueFailedReleases \/ Cancel \/ Crash
        \/ \E r \in Releases : Delete(r)

Next == Step /\ UNCHANGED concurrency

\* The loop starts passes and goroutines run on; a fetch ends because
\* fetchDecoded gives it a deadline; time passes.
Fairness == /\ WF_vars(PassStep /\ UNCHANGED concurrency)
            /\ \A w \in Workers : WF_vars(WorkerStep(w) /\ UNCHANGED concurrency)
            /\ WF_vars(Tick /\ UNCHANGED concurrency)

Spec == Init /\ [][Next]_vars
FairSpec == Spec /\ Fairness
-----------------------------------------------------------------------------
(* Properties *)

\* The type invariant.
TypeOK ==
  /\ rel \in [Releases -> Rows]
  /\ pass \in Passes
  /\ worker \in [Workers -> [at : {"off", "idle", "work", "read", "write", "apply"},
                             rel : Releases \cup {0}, out : Outcomes, read : Nat]]
  /\ concurrency \in 1..Cardinality(Workers)
  /\ failures \in [Releases -> Nat]

\* A finished release stays finished: no worker that is late, no retry and no
\* requeue takes a release back that has its result.  And one that keeps failing
\* stops being retried: between two requeues it fails at most MaxPPAttempts times,
\* and once more if a pass held it when it was requeued.
DoneSticks == [][\A r \in Releases : /\ rel[r].status = "done" => rel'[r].status = "done"
                                     /\ failures'[r] <= MaxPPAttempts + 1]_vars

\* However often passes are cut short, every release is in the end done, deleted,
\* or failed with nothing left to try.
Settled(r) == \/ rel[r].status \in {"done", "gone"}
              \/ rel[r].status = "failed" /\ (rel[r].permanent \/ rel[r].attempts >= MaxPPAttempts)
Settles == <>[](\A r \in Releases : Settled(r))
=============================================================================
