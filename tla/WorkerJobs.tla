------------------------------ MODULE WorkerJobs ------------------------------
(***************************************************************************)
(* The tracked jobs of internal/worker/worker.go: administrators trigger   *)
(* scans, backfills and post-processing, each recorded as a row of the     *)
(* jobs table and queued on a bounded channel; the scan loop and the       *)
(* post-process loop serve their queues and their tickers, run the passes, *)
(* and record each job's outcome.  Backfill drains group by group and      *)
(* yields to forward passes that become due (scanscheduler.go).  The       *)
(* process may crash or be shut down at any point; the jobs table stays    *)
(* and start-up sweeps it (store/jobs.go).  The database may refuse the    *)
(* statements that read and write a job's row; the worker ignores that,    *)
(* and so does the start-up sweep.  A refused statement has no effect, and *)
(* a trigger whose row could not be created has no job (createJob).        *)
(***************************************************************************)
EXTENDS Naturals, Sequences, FiniteSets

CONSTANTS Jobs,            \* job ids, each used once
          NoJob,           \* the id of work nobody triggered
          QueueCap,        \* capacity of the trigger channels
          Groups,          \* number of active groups
          Kinds,           \* the triggers that are used
          Tickers,         \* the loops whose interval is short enough to matter
          Failing,         \* whether passes and stages may fail
          Refusing,        \* whether the database may refuse a statement on a job
          MaxStops,        \* bound: crashes and shutdowns
          MaxCancels       \* bound: jobs that are cancelled

ASSUME WorkerAssumption ==
  /\ NoJob \notin Jobs
  /\ QueueCap \in Nat \ {0}
  /\ Groups \in Nat
  /\ Kinds \subseteq {"scan", "scanGroup", "backfill", "backfillGroup", "postprocess"}
  /\ Tickers \subseteq {"scan", "pp"}
  /\ Failing \in BOOLEAN
  /\ Refusing \in BOOLEAN
  /\ MaxStops \in Nat
  /\ MaxCancels \in Nat

VARIABLES job,        \* the jobs table: state and cancel_requested
          pending,    \* triggers whose job is recorded and that are not yet sent
          queue,      \* scanTriggers and ppTriggers
          tick,       \* a tick waits in the loop's ticker channel
          cancels,    \* keys of jobCancels
          ctxDone,    \* jobs whose context CancelJob has cancelled
          cancelling, \* jobs that CancelJob has flagged and not yet looked up
          loop,       \* each loop's position
          lastError,  \* metrics.LastError is not empty
          process,    \* "up", "stopping" or "down"
          backfilling,  \* opts.EnableBackfill, which never changes
          stops,        \* crashes and shutdowns so far
          unwritten,    \* history: jobs whose outcome, or sweep, was refused
          missed        \* history: jobs that started although flagged, the
                        \* reading of the flag having been refused

vars == <<job, pending, queue, tick, cancels, ctxDone, cancelling, loop, lastError, process,
          backfilling, stops, unwritten, missed>>
memory == <<pending, queue, tick, cancels, ctxDone, cancelling, loop, lastError>>
history == <<unwritten, missed>>
rest == <<cancelling, backfilling, stops, unwritten, missed>>

Loops == {"scan", "pp"}
Terminal == {"completed", "failed", "cancelled", "interrupted"}
LoopOf(kind) == IF kind = "postprocess" THEN "pp" ELSE "scan"
Held(l) == loop[l].job
Queued(l) == {queue[l][i].job : i \in DOMAIN queue[l]}

Waiting == [at |-> "select", job |-> NoJob, kind |-> "scan", pos |-> 0, verdict |-> "none",
            taken |-> NoJob]

\* Each loop begins with a pass of its own before it first waits.
FirstPass == [l \in Loops |-> [Waiting EXCEPT !.at = IF l = "scan" THEN "forward" ELSE "pass",
                                              !.kind = IF l = "scan" THEN "scan"
                                                                     ELSE "postprocess"]]
Init == /\ job = [j \in Jobs |-> [state |-> "none", cancel |-> FALSE]]
        /\ pending = {}
        /\ queue = [l \in Loops |-> <<>>]
        /\ tick = [l \in Loops |-> FALSE]
        /\ cancels = {}
        /\ ctxDone = {}
        /\ cancelling = {}
        /\ loop = FirstPass
        /\ lastError = FALSE
        /\ process = "up"
        /\ backfilling \in BOOLEAN
        /\ stops = 0
        /\ unwritten = {}
        /\ missed = {}
-----------------------------------------------------------------------------
(* TriggerScan, TriggerBackfill, TriggerPostProcess and CancelJob *)

FinishJob(j, state) == job' = [job EXCEPT ![j].state = state]

\* Every caller ignores FinishJob's error: the outcome may stay unwritten.
TryFinish(j, state) ==
  \/ FinishJob(j, state) /\ UNCHANGED unwritten
  \/ /\ Refusing
     /\ unwritten' = unwritten \cup {j}
     /\ UNCHANGED job

\* createJob, the first half of a trigger.
CreateJob(j, kind) ==
  /\ process # "down"
  /\ job[j].state = "none"
  /\ FinishJob(j, "queued")
  /\ pending' = pending \cup {[job |-> j, kind |-> kind]}
  /\ UNCHANGED <<queue, tick, cancels, ctxDone, loop, lastError, process, rest>>

\* Mutant: a full queue drops the trigger and leaves its job queued.
EnqueueOrDrop(t) ==
  LET l == LoopOf(t.kind)
  IN /\ process # "down"
     /\ t \in pending
     /\ pending' = pending \ {t}
     /\ queue' = IF Len(queue[l]) < QueueCap THEN [queue EXCEPT ![l] = Append(@, t)] ELSE queue
     /\ UNCHANGED <<job, tick, cancels, ctxDone, loop, lastError, process, rest>>

\* The non-blocking send, the second half; failJobQueued when the queue is full.
Enqueue(t) ==
  LET l == LoopOf(t.kind)
  IN /\ process # "down"
     /\ t \in pending
     /\ pending' = pending \ {t}
     /\ IF Len(queue[l]) < QueueCap
        THEN /\ queue' = [queue EXCEPT ![l] = Append(@, t)]
             /\ UNCHANGED <<job, unwritten>>
        ELSE /\ TryFinish(t.job, "failed")
             /\ UNCHANGED queue
     /\ UNCHANGED <<tick, cancels, ctxDone, cancelling, loop, lastError, process, backfilling,
                    stops, missed>>

\* CancelJob, first half: RequestJobCancel finds the job queued or running.
CancelJob(j) ==
  /\ process # "down"
  /\ job[j].state \in {"queued", "running"}
  /\ ~job[j].cancel
  /\ Cardinality({k \in Jobs : job[k].cancel}) < MaxCancels
  /\ job' = [job EXCEPT ![j].cancel = TRUE]
  /\ cancelling' = cancelling \cup {j}
  /\ UNCHANGED <<pending, queue, tick, cancels, ctxDone, loop, lastError, process, backfilling,
                 stops, history>>

\* Second half: a pass that is registered by now has its context cancelled.
CancelPass(j) ==
  /\ process # "down"
  /\ j \in cancelling
  /\ cancelling' = cancelling \ {j}
  /\ ctxDone' = IF j \in cancels THEN ctxDone \cup {j} ELSE ctxDone
  /\ UNCHANGED <<job, pending, queue, tick, cancels, loop, lastError, process, backfilling,
                 stops, history>>
-----------------------------------------------------------------------------
(* The loops and withJob *)

At(l, at) == process # "down" /\ loop[l].at = at
Goto(l, at) == loop' = [loop EXCEPT ![l].at = at]

\* The context of the work in hand: of the job, or of the process.
Cancelled(l) == process = "stopping" \/ Held(l) \in ctxDone

FirstStep(kind) == CASE kind \in {"scan", "scanGroup"} -> "forward"
                     [] kind = "backfill" -> "drain"
                     [] kind = "backfillGroup" -> "one"
                     [] OTHER -> "pass"

TakeTick(l) ==
  /\ At(l, "select")
  /\ tick[l]
  /\ tick' = [tick EXCEPT ![l] = FALSE]
  /\ loop' = [loop EXCEPT ![l] = FirstPass[l]]
  /\ UNCHANGED <<job, pending, queue, cancels, ctxDone, lastError, process, rest>>

TakeTrigger(l) ==
  /\ At(l, "select")
  /\ queue[l] # <<>>
  /\ loop' = [loop EXCEPT ![l] = [Waiting EXCEPT !.at = "register", !.job = Head(queue[l]).job,
                                                 !.kind = Head(queue[l]).kind]]
  /\ queue' = [queue EXCEPT ![l] = Tail(@)]
  /\ UNCHANGED <<job, pending, tick, cancels, ctxDone, lastError, process, rest>>

\* Mutant: the pass can be found by CancelJob only later.
RegisterNothing(l) ==
  /\ At(l, "register")
  /\ Goto(l, "check")
  /\ UNCHANGED <<job, pending, queue, tick, cancels, ctxDone, lastError, process, rest>>

Register(l) ==
  /\ At(l, "register")
  /\ cancels' = cancels \cup {Held(l)}
  /\ Goto(l, "check")
  /\ UNCHANGED <<job, pending, queue, tick, ctxDone, lastError, process, rest>>

\* The job is over: its outcome is recorded and its context forgotten.
Conclude(l, state) ==
  /\ TryFinish(Held(l), state)
  /\ cancels' = cancels \ {Held(l)}
  /\ ctxDone' = ctxDone \ {Held(l)}
  /\ missed' = missed \ {Held(l)}
  /\ loop' = [loop EXCEPT ![l] = Waiting]
  /\ UNCHANGED <<pending, queue, tick, cancelling, lastError, process, backfilling, stops>>

SkipCancelled(l) == /\ At(l, "check")
                    /\ job[Held(l)].cancel
                    /\ Conclude(l, "cancelled")

\* A flag that cannot be read is taken for no request, and a refused UPDATE
\* leaves the row queued; the pass runs all the same.
StartJob(l) ==
  /\ At(l, "check")
  /\ job[Held(l)].cancel => Refusing
  /\ missed' = IF job[Held(l)].cancel THEN missed \cup {Held(l)} ELSE missed
  /\ \/ FinishJob(Held(l), IF job[Held(l)].state = "queued" THEN "running"
                                                            ELSE job[Held(l)].state)
     \/ Refusing /\ UNCHANGED job
  /\ Goto(l, FirstStep(loop[l].kind))
  /\ UNCHANGED <<pending, queue, tick, cancels, ctxDone, cancelling, lastError, process,
                 backfilling, stops, unwritten>>

\* A pass may record an error; nothing ever clears the last one.
Pass(l, at, next, fails) ==
  /\ At(l, at)
  /\ fails => Failing
  /\ lastError' = (lastError \/ fails)
  /\ Goto(l, next)
  /\ UNCHANGED <<job, pending, queue, tick, cancels, ctxDone, process, rest>>

Forward(fails) == Pass("scan", "forward", "drain", fails)
BackfillOne(fails) == Pass("scan", "one", "report", fails)
PostProcess(fails) == Pass("pp", "pass", "report", fails)

\* Another loop's stage fails (assemble, build, enrichment).
StageError == /\ process # "down"
              /\ Failing
              /\ ~lastError
              /\ lastError' = TRUE
              /\ UNCHANGED <<job, pending, queue, tick, cancels, ctxDone, loop, process, rest>>
-----------------------------------------------------------------------------
(* drainBackfillYieldingToForward, drainBackfill and forwardBecameDue *)

NothingToDrain == \/ ~backfilling
                  \/ Cancelled("scan")
                  \/ loop["scan"].at = "group" /\ loop["scan"].pos = Groups

\* Listing the groups may fail, and then there are none.
BeginDrain(fails) ==
  /\ At("scan", "drain")
  /\ fails => Failing /\ backfilling
  /\ lastError' = (lastError \/ fails)
  /\ loop' = [loop EXCEPT !["scan"].at = IF fails \/ NothingToDrain THEN "report" ELSE "group",
                          !["scan"].pos = 0]
  /\ UNCHANGED <<job, pending, queue, tick, cancels, ctxDone, process, rest>>

EndDrain == /\ At("scan", "group")
            /\ NothingToDrain
            /\ Goto("scan", "report")
            /\ UNCHANGED <<job, pending, queue, tick, cancels, ctxDone, lastError, process, rest>>

\* Mutant: consumes the tick and forgets the forward pass.
YieldForgets ==
  /\ At("scan", "group")
  /\ ~NothingToDrain
  /\ tick["scan"]
  /\ tick' = [tick EXCEPT !["scan"] = FALSE]
  /\ Goto("scan", "drain")
  /\ UNCHANGED <<job, pending, queue, cancels, ctxDone, lastError, process, rest>>

\* Before each group: a tick, or a queued trigger for a forward pass over all
\* groups, makes the drain yield.  Both are consumed, the trigger with its job.
\* (forwardDueFlag is set and cleared within this step.)
YieldToForward ==
  LET q == queue["scan"]
  IN /\ At("scan", "group")
     /\ ~NothingToDrain
     /\ \/ /\ tick["scan"]
           /\ tick' = [tick EXCEPT !["scan"] = FALSE]
           /\ UNCHANGED queue
        \/ /\ ~tick["scan"]
           /\ q # <<>> /\ Head(q).kind = "scan"
           /\ queue' = [queue EXCEPT !["scan"] = Tail(q)]
           /\ UNCHANGED tick
     /\ Goto("scan", "forward")
     /\ UNCHANGED <<job, pending, cancels, ctxDone, lastError, process, rest>>

\* Any other trigger is taken off the queue to look at it ...
Peek ==
  LET q == queue["scan"]
  IN /\ At("scan", "group")
     /\ ~NothingToDrain
     /\ ~tick["scan"]
     /\ q # <<>> /\ Head(q).kind # "scan"
     /\ queue' = [queue EXCEPT !["scan"] = Tail(q)]
     /\ loop' = [loop EXCEPT !["scan"].at = "putback", !["scan"].taken = Head(q)]
     /\ UNCHANGED <<job, pending, tick, cancels, ctxDone, lastError, process, rest>>

\* ... and put back at its end, unless the queue has filled up meanwhile.
PutBack ==
  /\ At("scan", "putback")
  /\ queue' = IF Len(queue["scan"]) < QueueCap
              THEN [queue EXCEPT !["scan"] = Append(@, loop["scan"].taken)]
              ELSE queue
  /\ loop' = [loop EXCEPT !["scan"].at = "backfill", !["scan"].taken = NoJob]
  /\ UNCHANGED <<job, pending, tick, cancels, ctxDone, lastError, process, rest>>

NotDue == /\ At("scan", "group")
          /\ ~NothingToDrain
          /\ ~tick["scan"]
          /\ queue["scan"] = <<>>
          /\ Goto("scan", "backfill")
          /\ UNCHANGED <<job, pending, queue, tick, cancels, ctxDone, lastError, process, rest>>

BackfillGroup(fails) ==
  /\ At("scan", "backfill")
  /\ fails => Failing
  /\ lastError' = (lastError \/ fails)
  /\ loop' = [loop EXCEPT !["scan"].at = "group", !["scan"].pos = @ + 1]
  /\ UNCHANGED <<job, pending, queue, tick, cancels, ctxDone, process, rest>>
-----------------------------------------------------------------------------
(* The end of withJob, and of the process *)

\* fn has returned lastPassError; the outcome is decided, from the context
\* alone where the flag cannot be read ...
Resolve(l) ==
  /\ At(l, "report")
  /\ \/ Held(l) = NoJob /\ loop' = [loop EXCEPT ![l] = Waiting]
     \/ /\ Held(l) # NoJob
        /\ \E flagged \in {job[Held(l)].cancel, job[Held(l)].cancel /\ ~Refusing} :
             loop' = [loop EXCEPT ![l].at = "finish",
                                  ![l].verdict = IF flagged \/ Cancelled(l) THEN "cancelled"
                                                 ELSE IF lastError THEN "failed"
                                                 ELSE "completed"]
  /\ UNCHANGED <<job, pending, queue, tick, cancels, ctxDone, lastError, process, rest>>

\* ... and then written.
Finish(l) == /\ At(l, "finish")
             /\ Conclude(l, loop[l].verdict)

TickerFires(l) ==
  /\ process = "up"
  /\ l \in Tickers
  /\ ~tick[l]
  /\ tick' = [tick EXCEPT ![l] = TRUE]
  /\ UNCHANGED <<job, pending, queue, cancels, ctxDone, loop, lastError, process, rest>>

\* Shutdown cancels the run context; the loops end where they wait.
Shutdown == /\ process = "up"
            /\ stops < MaxStops
            /\ process' = "stopping"
            /\ stops' = stops + 1
            /\ UNCHANGED <<job, memory, history, backfilling>>

\* The process ends: it crashes, or it is stopping, which waits for the HTTP
\* server and not for the loops.
Exit == /\ \/ process = "stopping" /\ UNCHANGED stops
           \/ process = "up" /\ stops < MaxStops /\ stops' = stops + 1
        /\ process' = "down"
        /\ UNCHANGED <<job, memory, history, backfilling>>

\* Mutants: the sweep forgets jobs that were running; it takes every job.
MarkQueuedInterrupted == [j \in Jobs |-> IF job[j].state = "queued"
                                         THEN [job[j] EXCEPT !.state = "interrupted"]
                                         ELSE job[j]]
MarkAllInterrupted == [j \in Jobs |-> IF job[j].state # "none"
                                      THEN [job[j] EXCEPT !.state = "interrupted"]
                                      ELSE job[j]]

MarkInterrupted == [j \in Jobs |-> IF job[j].state \in {"queued", "running"}
                                   THEN [job[j] EXCEPT !.state = "interrupted"]
                                   ELSE job[j]]

\* Start-up sweeps the jobs table before anything is served, and only warns
\* when the sweep is refused.
Restart == /\ process = "down"
           /\ process' = "up"
           /\ \/ job' = MarkInterrupted /\ unwritten' = {}
              \/ /\ Refusing
                 /\ unwritten' = {j \in Jobs : job[j].state \in {"queued", "running"}}
                 /\ UNCHANGED job
           /\ pending' = {}
           /\ queue' = [l \in Loops |-> <<>>]
           /\ tick' = [l \in Loops |-> FALSE]
           /\ cancels' = {}
           /\ ctxDone' = {}
           /\ cancelling' = {}
           /\ loop' = FirstPass
           /\ lastError' = FALSE
           /\ missed' = {}
           /\ UNCHANGED <<backfilling, stops>>
-----------------------------------------------------------------------------
LoopStep(l) == \/ Register(l) \/ SkipCancelled(l) \/ StartJob(l) \/ Resolve(l) \/ Finish(l)
ScanStep == \/ LoopStep("scan")
            \/ EndDrain \/ YieldToForward \/ Peek \/ PutBack \/ NotDue
            \/ \E fails \in BOOLEAN : \/ Forward(fails) \/ BackfillOne(fails)
                                   \/ BeginDrain(fails) \/ BackfillGroup(fails)
PPStep == LoopStep("pp") \/ \E fails \in BOOLEAN : PostProcess(fails)

Next == \/ \E j \in Jobs, kind \in Kinds : CreateJob(j, kind)
        \/ \E t \in pending : Enqueue(t)
        \/ \E j \in Jobs : CancelJob(j) \/ CancelPass(j)
        \/ \E l \in Loops : TakeTick(l) \/ TakeTrigger(l) \/ TickerFires(l)
        \/ ScanStep
        \/ PPStep
        \/ StageError
        \/ Shutdown
        \/ Exit
        \/ Restart

Spec == Init /\ [][Next]_vars

\* The goroutines run, passes return, a select that finds both a tick and a
\* trigger again and again takes each in the end, a stopped process is
\* started again.
FairSpec == /\ Spec
            /\ WF_vars(\E t \in pending : Enqueue(t))
            /\ WF_vars(ScanStep)
            /\ WF_vars(PPStep)
            /\ \A l \in Loops : SF_vars(TakeTick(l)) /\ SF_vars(TakeTrigger(l))
            /\ WF_vars(Restart)
            /\ WF_vars(process = "stopping" /\ Exit)
-----------------------------------------------------------------------------
Triggers == [job : Jobs, kind : Kinds]
Positions == {"select", "register", "check", "forward", "drain", "one", "pass", "group",
              "putback", "backfill", "report", "finish"}

Rows == [state : {"none", "queued", "running"} \cup Terminal, cancel : BOOLEAN]
LoopStates == [at : Positions, job : Jobs \cup {NoJob}, kind : Kinds \cup {"scan", "postprocess"},
               pos : 0..Groups, verdict : Terminal \cup {"none"}, taken : Triggers \cup {NoJob}]

TypeOK == /\ job \in [Jobs -> Rows]
          /\ pending \subseteq Triggers
          /\ queue \in [Loops -> Seq(Triggers)]
          /\ \A l \in Loops : Len(queue[l]) <= QueueCap
          /\ tick \in [Loops -> BOOLEAN]
          /\ cancels \subseteq Jobs
          /\ ctxDone \subseteq cancels
          /\ cancelling \subseteq Jobs
          /\ loop \in [Loops -> LoopStates]
          /\ lastError \in BOOLEAN
          /\ process \in {"up", "stopping", "down"}
          /\ backfilling \in BOOLEAN
          /\ stops \in Nat
          /\ unwritten \subseteq Jobs
          /\ missed \subseteq Jobs

\* No ghost of a running job: while the process serves, a job is shown as
\* running only if a loop has it in hand, also after crashes.  A ghost is
\* left only where the write that would have ended it was refused: withJob
\* ignores FinishJob's error, and start-up goes on after a failed sweep.
RunningIsReal ==
  process # "down" =>
    \A j \in Jobs : job[j].state = "running" => j \in unwritten \/ \E l \in Loops : Held(l) = j

\* An outcome that has been recorded stays, whatever later starts, finishes,
\* cancellations and restarts do.
OutcomeIsFinal ==
  [][\A j \in Jobs : job[j].state \in Terminal => job'[j] = job[j]]_vars

\* A pass that runs a job has been reached by a cancel request made for it
\* before it started or since, or CancelJob is about to look it up: there is
\* no moment at which the flag is set too late for the check and the lookup
\* too early for the registration.  The one way past is a flag that withJob
\* could not read.
CancelReachesPass ==
  process # "down" =>
    \A l \in Loops :
      /\ Held(l) # NoJob
      /\ loop[l].at \notin {"register", "check"}
      /\ job[Held(l)].cancel
      => Held(l) \in ctxDone \cup cancelling \cup missed

\* "doesn't linger as queued forever" (failJobQueued): while the process
\* serves, a queued job's trigger is on its way, in its queue, or in hand, or
\* its outcome was refused.  Not kept while backfill drains: Peek drops the
\* job of the trigger it takes.
NoOrphan ==
  process # "down" =>
    \A j \in Jobs : job[j].state = "queued" =>
      \/ j \in unwritten
      \/ \E t \in pending : t.job = j
      \/ \E l \in Loops : j \in Queued(l) \/ Held(l) = j

\* With backfill off every job that is triggered reaches an outcome, although
\* the process crashes and ticks and triggers compete for the loops; or the
\* database refused to record it.
EveryJobEnds ==
  \A j \in Jobs : ~backfilling /\ job[j].state = "queued"
                   ~> job[j].state \in Terminal \/ j \in unwritten

\* "forward work is never starved" (drainBackfillYieldingToForward): a forward
\* pass follows every tick, however much backfill there is.
ForwardFollowsTick == tick["scan"] ~> loop["scan"].at = "forward"
===============================================================================
