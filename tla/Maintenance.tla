---------------------------- MODULE Maintenance ----------------------------
(***************************************************************************)
(* The scheduler of housekeeping tasks.  Every enabled task has a loop of  *)
(* its own that runs it at once and then at its interval, each run with a  *)
(* row in the jobs table.  The process may be shut down or crash in the    *)
(* middle; start-up sweeps the table.                                      *)
(***************************************************************************)
EXTENDS Naturals, FiniteSets, FiniteSetsExt

CONSTANTS MaintConfig,   \* task name -> [enabled, interval], as configured
          RetentionDays,
          HasFetcher,    \* there is an NNTP pool to verify with
          MaxRuns,       \* bound: runs over all tasks
          MaxDowns       \* bound: shutdowns and crashes

ASSUME MaintAssumption == MaxRuns \in Nat /\ MaxDowns \in Nat

VARIABLES run,    \* the jobs table: the rows of the runs
          task,   \* each loop's position and run
          service, downs,
          unwritten \* history: rows whose outcome, or sweep, the database refused

maintVars == <<run, task, service, downs, unwritten>>

YencTasks == {"yenc-repair", "yenc-verify"}

\* buildMaintenanceTasks: what is enabled, and with which interval.
TaskEnabled(t) ==
  CASE t \in YencTasks -> HasFetcher
    [] t = "retention" -> MaintConfig[t].enabled /\ RetentionDays > 0
    [] OTHER -> MaintConfig[t].enabled
TaskInterval(t) ==
  IF t \in YencTasks \cup {"retention", "reassemble"} /\ MaintConfig[t].interval = 0
  THEN 1 ELSE MaintConfig[t].interval

\* Run: one goroutine for each of these.
Scheduled == {t \in DOMAIN MaintConfig : TaskEnabled(t) /\ TaskInterval(t) > 0}

Resting == [at |-> "wait", id |-> 0, verdict |-> "none"]
DueTask == [Resting EXCEPT !.at = "execute"]

MaintInit == /\ run = [i \in 1..MaxRuns |-> "none"]
             /\ task = [t \in Scheduled |-> DueTask]
             /\ service = "up" /\ downs = 0
             /\ unwritten = {}

MaintStep(t, at, state) ==
  /\ service # "down" /\ task[t].at = at
  /\ task' = [task EXCEPT ![t] = state]
  /\ UNCHANGED <<service, downs>>
-----------------------------------------------------------------------------
IntervalPasses(t) == MaintStep(t, "wait", DueTask) /\ service = "up" /\ UNCHANGED <<run, unwritten>>

Fresh == {i \in 1..MaxRuns : run[i] = "none" /\ \A u \in Scheduled : task[u].id # i}

\* execute returns at once when the context is done; otherwise the run has an id
\* nobody else has.
Execute(t) ==
  /\ \/ /\ service = "up" /\ Fresh # {}
        /\ MaintStep(t, "execute", [DueTask EXCEPT !.at = "create", !.id = Min(Fresh)])
     \/ service = "stopping" /\ MaintStep(t, "execute", Resting)
  /\ UNCHANGED <<run, unwritten>>

\* startJob: CreateJob, and StartJob unless that failed.
CreateRun(t) ==
  /\ \/ run' = [run EXCEPT ![task[t].id] = "queued"]
        /\ MaintStep(t, "create", [task[t] EXCEPT !.at = "start"])
     \/ MaintStep(t, "create", [task[t] EXCEPT !.at = "run"]) /\ UNCHANGED run
  /\ UNCHANGED unwritten

StartRun(t) ==
  /\ MaintStep(t, "start", [task[t] EXCEPT !.at = "run"])
  /\ run' \in {run, [run EXCEPT ![task[t].id] = "running"]}
  /\ UNCHANGED unwritten

EndedRuns == {i \in 1..MaxRuns : run[i] \in {"completed", "failed", "interrupted"}}

\* The task's own work.  Job clean-up deletes rows of runs that ended long ago.
RunTask(t) ==
  /\ \E verdict \in {"completed", "failed"} :
       MaintStep(t, "run", [task[t] EXCEPT !.at = "finish", !.verdict = verdict])
  /\ IF t = "job-cleanup"
     THEN \E old \in SUBSET EndedRuns :
            run' = [i \in 1..MaxRuns |-> IF i \in old THEN "none" ELSE run[i]]
     ELSE UNCHANGED run
  /\ UNCHANGED unwritten

\* Mutant: the row is written with the context of the run.
FinishInherits == service = "up"

\* finishJob detaches its context from the shutdown.
FinishReaches == TRUE

\* FinishJob updates the row if there is one; the database may refuse.
FinishRun(t) ==
  LET i == task[t].id
  IN /\ MaintStep(t, "finish", Resting)
     /\ \/ /\ run' = IF run[i] = "none" \/ ~FinishReaches THEN run
                     ELSE [run EXCEPT ![i] = task[t].verdict]
           /\ UNCHANGED unwritten
        \/ run[i] # "none" /\ UNCHANGED run /\ unwritten' = unwritten \cup {i}

\* Shutdown cancels the context and waits for nobody; a crash may come any time.
MaintDown ==
  /\ \/ service = "up" /\ downs < MaxDowns /\ service' \in {"stopping", "down"} /\ downs' = downs + 1
     \/ service = "stopping" /\ service' = "down" /\ UNCHANGED downs
  /\ UNCHANGED <<run, task, unwritten>>

LiveRows == {i \in 1..MaxRuns : run[i] \in {"queued", "running"}}

\* MarkInterruptedJobs, whose failure is only logged; then every loop begins
\* with a run.
MaintRestart ==
  /\ service = "down"
  /\ service' = "up"
  /\ \/ /\ run' = [i \in 1..MaxRuns |-> IF i \in LiveRows THEN "interrupted" ELSE run[i]]
        /\ unwritten' = {}
     \/ UNCHANGED run /\ unwritten' = LiveRows
  /\ task' = [t \in Scheduled |-> DueTask]
  /\ UNCHANGED downs

\* Nobody has anything to do until an interval passes.
MaintRests == Fresh = {} /\ UNCHANGED maintVars

MaintNext ==
  \/ \E t \in Scheduled : \/ IntervalPasses(t) \/ Execute(t) \/ CreateRun(t) \/ StartRun(t)
                          \/ RunTask(t) \/ FinishRun(t)
  \/ MaintDown \/ MaintRestart \/ MaintRests

MaintSpec == MaintInit /\ [][MaintNext]_maintVars
-----------------------------------------------------------------------------
MaintTypeOK ==
  /\ run \in [1..MaxRuns -> {"none", "queued", "running", "completed", "failed", "interrupted"}]
  /\ task \in [Scheduled -> [at : {"wait", "execute", "create", "start", "run", "finish"},
                               id : 0..MaxRuns, verdict : {"none", "completed", "failed"}]]
  /\ service \in {"up", "stopping", "down"} /\ downs \in 0..MaxDowns
  /\ unwritten \subseteq 1..MaxRuns

\* While the process lives, also while it shuts down, a row that looks alive
\* belongs to a run in hand, unless the database refused its outcome or the
\* sweep of the last start-up.
RunRowsReal ==
  service # "down" =>
    \A i \in 1..MaxRuns : run[i] \in {"queued", "running"} =>
      i \in unwritten \/ \E t \in Scheduled : task[t].id = i
=============================================================================
