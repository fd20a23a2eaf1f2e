--------------------------- MODULE WorkerJobs_proofs ---------------------------
(***************************************************************************)
(* The jobs table tells the truth, for any number of jobs and groups, any  *)
(* capacity of the trigger channels and any pattern of crashes: a job that *)
(* is shown as running is being run, a cancel request that finds it        *)
(* running reaches its pass, and an outcome is never overwritten.          *)
(***************************************************************************)
EXTENDS WorkerJobs, TLAPS

\* Where a loop stands before StartJob, and after it.
Fresh == {"register", "check"}
Busy == Positions \ (Fresh \cup {"select"})

\* A drain that is about to backfill a group has one left, a loop that waits
\* has no job in hand, and one that registers, checks or finishes has.
LoopShape ==
  \A l \in Loops :
    /\ loop[l].at \in {"putback", "backfill"} => loop[l].pos < Groups
    /\ IF loop[l].at = "putback" THEN l = "scan" /\ loop[l].taken \in Triggers
                                 ELSE loop[l].taken = NoJob
    /\ loop[l].at = "select" => Held(l) = NoJob
    /\ loop[l].at \in Fresh \cup {"finish"} => Held(l) # NoJob
    /\ loop[l].at = "finish" => loop[l].verdict \in Terminal

\* What the table says of a job follows from where its trigger is: queued
\* until StartJob, and then running unless StartJob was refused.
StateMatches ==
  /\ \A t \in pending : job[t.job].state = "queued"
  /\ \A l \in Loops : \A j \in Queued(l) : job[j].state = "queued"
  /\ loop["scan"].at = "putback" => job[loop["scan"].taken.job].state = "queued"
  /\ \A l \in Loops : Held(l) # NoJob =>
       job[Held(l)].state \in IF loop[l].at \in Fresh THEN {"queued"} ELSE {"queued", "running"}

\* A job's trigger is in one place: waiting to be sent, at one position of
\* one queue, in the hand of the drain that looks at it, or taken by a loop.
Distinct(l) == \A i, k \in DOMAIN queue[l] : queue[l][i].job = queue[l][k].job => i = k
OnePlace ==
  /\ \A t, u \in pending : t.job = u.job => t = u
  /\ \A l \in Loops : Distinct(l)
  /\ Queued("scan") \cap Queued("pp") = {}
  /\ \A t \in pending, l \in Loops : t.job \notin Queued(l) /\ t.job # Held(l)
  /\ \A l, m \in Loops : Held(l) \notin Queued(m)
  /\ Held("scan") # NoJob => Held("scan") # Held("pp")
  /\ loop["scan"].at = "putback" =>
       /\ \A t \in pending : t.job # loop["scan"].taken.job
       /\ \A l \in Loops : loop["scan"].taken.job \notin Queued(l) \cup {Held(l)}

\* A running job is in a loop's hand or its outcome was refused.  A pass can
\* be found by CancelJob from its registration on; once it runs, a request
\* made for its job has found it, or is about to, or could not be read.
PassReachable ==
  /\ \A j \in Jobs : job[j].state = "running" => j \in unwritten \/ \E l \in Loops : Held(l) = j
  /\ \A l \in Loops : Held(l) # NoJob /\ loop[l].at # "register" => Held(l) \in cancels
  /\ \A l \in Loops : Held(l) # NoJob /\ loop[l].at \notin Fresh /\ job[Held(l)].cancel
                         => Held(l) \in ctxDone \cup cancelling \cup missed

IInv == TypeOK /\ LoopShape /\ StateMatches /\ OnePlace /\ PassReachable

-----------------------------------------------------------------------------
(* Types *)

\* FinishJob writes a state to one row and leaves every other row, and every
\* request for cancellation, alone.
LEMMA FinishJobType ==
  ASSUME NEW j \in Jobs, NEW s \in {"none", "queued", "running"} \cup Terminal,
         job \in [Jobs -> Rows], FinishJob(j, s)
  PROVE  /\ job' \in [Jobs -> Rows]
         /\ job'[j].state = s
         /\ job'[j].cancel = job[j].cancel
         /\ \A k \in Jobs \ {j} : job'[k] = job[k]
  BY DEF FinishJob, Rows

\* TryFinish writes the outcome, or leaves the row as it is and remembers it.
LEMMA TryFinishType ==
  ASSUME NEW j \in Jobs, NEW s \in Terminal, job \in [Jobs -> Rows], unwritten \subseteq Jobs,
         TryFinish(j, s)
  PROVE  /\ job' \in [Jobs -> Rows] /\ unwritten' \subseteq Jobs
         /\ unwritten \subseteq unwritten'
         /\ job'[j].state = s \/ (job' = job /\ j \in unwritten')
         /\ \A k \in Jobs \ {j} : job'[k] = job[k]
<1>1. CASE FinishJob(j, s) /\ UNCHANGED unwritten
  <2>1. s \in {"none", "queued", "running"} \cup Terminal
    OBVIOUS
  <2>2. job' \in [Jobs -> Rows] /\ job'[j].state = s /\ \A k \in Jobs \ {j} : job'[k] = job[k]
    BY <1>1, <2>1, FinishJobType
  <2>3. unwritten' = unwritten
    BY <1>1
  <2>4. QED BY <2>2, <2>3
<1>2. CASE unwritten' = unwritten \cup {j} /\ UNCHANGED job
  BY <1>2
<1>3. QED BY <1>1, <1>2 DEF TryFinish

LEMMA GotoType ==
  ASSUME NEW l \in Loops, NEW at \in Positions,
         loop \in [Loops -> LoopStates], Goto(l, at)
  PROVE  /\ loop' \in [Loops -> LoopStates]
         /\ loop'[l].at = at
         /\ loop'[l].job = loop[l].job
         /\ loop'[l].pos = loop[l].pos
         /\ loop'[l].verdict = loop[l].verdict
         /\ loop'[l].taken = loop[l].taken
         /\ \A m \in Loops \ {l} : loop'[m] = loop[m]
  BY DEF Goto, LoopStates

\* A verdict ends a pass, and the sweep ends what looks alive.
LEMMA VerdictType ==
  ASSUME NEW q \in LoopStates, NEW v \in Terminal
  PROVE  [q EXCEPT !.at = "finish", !.verdict = v] \in LoopStates
  BY DEF LoopStates, Positions
LEMMA InterruptedType ==
  ASSUME job \in [Jobs -> Rows]
  PROVE  MarkInterrupted \in [Jobs -> Rows]
<1> SUFFICES ASSUME NEW j \in Jobs
             PROVE  [job[j] EXCEPT !.state = "interrupted"] \in Rows
  BY DEF MarkInterrupted
<1>1. job[j] \in Rows
  OBVIOUS
<1>2. QED BY <1>1 DEF Rows, Terminal

\* Waiting, and what the loops begin with, are loop states without a job.
LEMMA WaitingType ==
  /\ Waiting \in LoopStates
  /\ FirstPass \in [Loops -> LoopStates]
  /\ \A l \in Loops : /\ FirstPass[l].job = NoJob
                      /\ FirstPass[l].taken = NoJob
                      /\ FirstPass[l].at \in {"forward", "pass"}
<1>1. Waiting \in LoopStates
  BY WorkerAssumption DEF Waiting, LoopStates, Positions, Terminal
<1>2. ASSUME NEW l \in Loops
      PROVE  /\ FirstPass[l] \in LoopStates
             /\ FirstPass[l].job = NoJob
             /\ FirstPass[l].taken = NoJob
             /\ FirstPass[l].at \in {"forward", "pass"}
  <2>1. CASE l = "scan"
    <3>1. FirstPass[l] = [at |-> "forward", job |-> NoJob, kind |-> "scan", pos |-> 0,
                          verdict |-> "none", taken |-> NoJob]
      BY <2>1 DEF FirstPass, Waiting, Loops
    <3>2. QED BY <3>1, WorkerAssumption DEF LoopStates, Positions
  <2>2. CASE l = "pp"
    <3>1. FirstPass[l] = [at |-> "pass", job |-> NoJob, kind |-> "postprocess", pos |-> 0,
                          verdict |-> "none", taken |-> NoJob]
      BY <2>2 DEF FirstPass, Waiting, Loops
    <3>2. QED BY <3>1, WorkerAssumption DEF LoopStates, Positions
  <2>3. QED BY <2>1, <2>2 DEF Loops
<1>3. FirstPass = [l \in Loops |-> FirstPass[l]]
  BY DEF FirstPass
<1>4. QED BY <1>1, <1>2, <1>3

\* The two ways in which the drain changes more than its position.
LEMMA DrainType ==
  ASSUME loop \in [Loops -> LoopStates], NEW at \in Positions
  PROVE  /\ \A pos \in 0..Groups :
              [loop EXCEPT !["scan"].at = at, !["scan"].pos = pos] \in [Loops -> LoopStates]
         /\ \A t \in Triggers \cup {NoJob} :
              [loop EXCEPT !["scan"].at = at, !["scan"].taken = t] \in [Loops -> LoopStates]
<1>1. ASSUME NEW pos \in 0..Groups
      PROVE  [loop EXCEPT !["scan"].at = at, !["scan"].pos = pos] \in [Loops -> LoopStates]
  BY ZenonT(40) DEF LoopStates
<1>2. ASSUME NEW t \in Triggers \cup {NoJob}
      PROVE  [loop EXCEPT !["scan"].at = at, !["scan"].taken = t] \in [Loops -> LoopStates]
  BY ZenonT(40) DEF LoopStates
<1>3. QED BY <1>1, <1>2

\* A trigger channel takes a trigger while it has room, and gives its first.
LEMMA QueueType ==
  ASSUME queue \in [Loops -> Seq(Triggers)], \A l \in Loops : Len(queue[l]) <= QueueCap,
         NEW l \in Loops
  PROVE  /\ \A t \in Triggers : Len(queue[l]) < QueueCap =>
              /\ [queue EXCEPT ![l] = Append(@, t)] \in [Loops -> Seq(Triggers)]
              /\ \A m \in Loops : Len([queue EXCEPT ![l] = Append(@, t)][m]) <= QueueCap
         /\ queue[l] # <<>> =>
              /\ [queue EXCEPT ![l] = Tail(@)] \in [Loops -> Seq(Triggers)]
              /\ \A m \in Loops : Len([queue EXCEPT ![l] = Tail(@)][m]) <= QueueCap
<1>1. ASSUME NEW t \in Triggers, Len(queue[l]) < QueueCap
      PROVE  /\ Append(queue[l], t) \in Seq(Triggers)
             /\ Len(Append(queue[l], t)) <= QueueCap
  BY <1>1, WorkerAssumption
<1>2. ASSUME queue[l] # <<>>
      PROVE  Tail(queue[l]) \in Seq(Triggers) /\ Len(Tail(queue[l])) <= QueueCap
  BY <1>2, WorkerAssumption
<1>3. QED BY <1>1, <1>2

LEMMA InitType == Init => TypeOK
<1> SUFFICES ASSUME Init PROVE TypeOK
  OBVIOUS
<1>1. job \in [Jobs -> Rows]
  BY DEF Init, Rows
<1>2. backfilling \in BOOLEAN /\ lastError \in BOOLEAN
  BY Zenon DEF Init
<1>3. QED BY <1>1, <1>2, WaitingType, WorkerAssumption DEF Init, TypeOK

LEMMA TypeStep == ASSUME TypeOK, LoopShape, Next PROVE TypeOK'
<1> USE DEF TypeOK, rest, history
<1>1. ASSUME NEW j \in Jobs, NEW kind \in Kinds, CreateJob(j, kind) PROVE TypeOK'
  <2>1. job' \in [Jobs -> Rows]
    BY <1>1, FinishJobType DEF CreateJob
  <2>2. pending' \subseteq Triggers
    BY <1>1 DEF CreateJob, Triggers
  <2>3. QED BY <1>1, <2>1, <2>2 DEF CreateJob
<1>2. ASSUME NEW t \in pending, Enqueue(t) PROVE TypeOK'
  <2>1. LoopOf(t.kind) \in Loops /\ t \in Triggers /\ t.job \in Jobs
    BY DEF LoopOf, Loops, Triggers
  <2>2. job' \in [Jobs -> Rows] /\ unwritten' \subseteq Jobs
    BY <1>2, <2>1, TryFinishType DEF Enqueue, Terminal
  <2>3. /\ queue' \in [Loops -> Seq(Triggers)]
        /\ \A l \in Loops : Len(queue'[l]) <= QueueCap
    <3>1. CASE Len(queue[LoopOf(t.kind)]) < QueueCap
      <4>1. queue' = [queue EXCEPT ![LoopOf(t.kind)] = Append(@, t)]
        BY <1>2, <3>1 DEF Enqueue
      <4>2. QED BY <2>1, <3>1, <4>1, QueueType
    <3>2. CASE ~(Len(queue[LoopOf(t.kind)]) < QueueCap)
      BY <1>2, <3>2 DEF Enqueue
    <3>3. QED BY <3>1, <3>2
  <2>4. QED BY <1>2, <2>2, <2>3 DEF Enqueue
<1>3. ASSUME NEW j \in Jobs, CancelJob(j) \/ CancelPass(j) PROVE TypeOK'
  <2>1. job' \in [Jobs -> Rows]
    BY <1>3 DEF CancelJob, CancelPass, Rows
  <2>2. QED BY <1>3, <2>1 DEF CancelJob, CancelPass
<1>4. ASSUME NEW l \in Loops, TakeTick(l) \/ TickerFires(l) PROVE TypeOK'
  <2>1. tick' \in [Loops -> BOOLEAN]
    BY <1>4 DEF TakeTick, TickerFires
  <2>2. loop' \in [Loops -> LoopStates]
    BY <1>4, WaitingType DEF TakeTick, TickerFires
  <2>3. QED BY <1>4, <2>1, <2>2 DEF TakeTick, TickerFires
<1>5. ASSUME NEW l \in Loops, TakeTrigger(l) PROVE TypeOK'
  <2>1. Head(queue[l]) \in Triggers
    BY <1>5 DEF TakeTrigger
  <2>2. loop' \in [Loops -> LoopStates]
    <3> DEFINE s == [Waiting EXCEPT !.at = "register", !.job = Head(queue[l]).job,
                                    !.kind = Head(queue[l]).kind]
    <3>1. s \in LoopStates
      BY <2>1, WaitingType DEF LoopStates, Triggers, Positions, Waiting
    <3>2. loop' = [loop EXCEPT ![l] = s]
      BY <1>5 DEF TakeTrigger
    <3>3. QED BY <3>1, <3>2
  <2>3. /\ queue' \in [Loops -> Seq(Triggers)]
        /\ \A m \in Loops : Len(queue'[m]) <= QueueCap
    BY <1>5, WorkerAssumption DEF TakeTrigger
  <2>4. QED BY <1>5, <2>2, <2>3 DEF TakeTrigger
<1>6. ASSUME NEW l \in Loops, Register(l) PROVE TypeOK'
  <2>1. Held(l) \in Jobs
    BY <1>6 DEF Register, At, LoopShape, Fresh, Held, LoopStates
  <2>2. loop' \in [Loops -> LoopStates]
    BY <1>6, GotoType DEF Register, Positions
  <2>3. QED BY <1>6, <2>1, <2>2 DEF Register
<1>7. ASSUME NEW l \in Loops, NEW s \in Terminal, Held(l) \in Jobs, Conclude(l, s)
      PROVE  TypeOK'
  <2>1. job' \in [Jobs -> Rows] /\ unwritten' \subseteq Jobs
    BY <1>7, TryFinishType DEF Conclude
  <2>2. loop' \in [Loops -> LoopStates]
    BY <1>7, WaitingType DEF Conclude
  <2>3. QED BY <1>7, <2>1, <2>2 DEF Conclude
<1>8. ASSUME NEW l \in Loops, SkipCancelled(l) PROVE TypeOK'
  <2>1. Held(l) \in Jobs
    BY <1>8 DEF SkipCancelled, At, LoopShape, Fresh, Held, LoopStates
  <2>2. QED BY <1>7, <1>8, <2>1 DEF SkipCancelled, Terminal
<1>9. ASSUME NEW l \in Loops, Finish(l) PROVE TypeOK'
  <2>1. Held(l) \in Jobs /\ loop[l].verdict \in Terminal
    BY <1>9 DEF Finish, At, LoopShape, Fresh, Held, LoopStates
  <2>2. QED BY <1>7, <1>9, <2>1 DEF Finish
<1>10. ASSUME NEW l \in Loops, StartJob(l) PROVE TypeOK'
  <2>1. Held(l) \in Jobs
    BY <1>10 DEF StartJob, At, LoopShape, Fresh, Held, LoopStates
  <2>2. job' \in [Jobs -> Rows]
    <3>1. job[Held(l)].state \in {"none", "queued", "running"} \cup Terminal
      BY <2>1 DEF Rows
    <3>2. QED BY <1>10, <2>1, <3>1, FinishJobType DEF StartJob
  <2>3. loop' \in [Loops -> LoopStates]
    BY <1>10, GotoType DEF StartJob, FirstStep, Positions
  <2>4. QED BY <1>10, <2>1, <2>2, <2>3 DEF StartJob
<1>11. ASSUME NEW l \in Loops, Resolve(l) PROVE TypeOK'
  <2>1. ASSUME NEW v \in Terminal
        PROVE  [loop[l] EXCEPT !.at = "finish", !.verdict = v] \in LoopStates
    <3>1. loop[l] \in LoopStates
      OBVIOUS
    <3>2. QED BY <3>1, VerdictType
  <2>2. loop' \in [Loops -> LoopStates]
    <3>1. CASE loop' = [loop EXCEPT ![l] = Waiting]
      BY <3>1, WaitingType
    <3>2. CASE \E v \in Terminal : loop' = [loop EXCEPT ![l].at = "finish", ![l].verdict = v]
      BY <2>1, <3>2
    <3>3. QED BY <1>11, <3>1, <3>2 DEF Resolve, Terminal
  <2>3. QED BY <1>11, <2>2 DEF Resolve
<1>12. CASE EndDrain \/ NotDue
  <2>1. loop' \in [Loops -> LoopStates]
    BY <1>12, GotoType DEF EndDrain, NotDue, Positions, Loops
  <2>2. QED BY <1>12, <2>1 DEF EndDrain, NotDue
<1>13. ASSUME NEW fails \in BOOLEAN, BeginDrain(fails) PROVE TypeOK'
  <2>1. loop' \in [Loops -> LoopStates]
    <3> DEFINE at == IF fails \/ NothingToDrain THEN "report" ELSE "group"
    <3>1. at \in Positions /\ 0 \in 0..Groups
      BY WorkerAssumption DEF Positions
    <3>2. loop' = [loop EXCEPT !["scan"].at = at, !["scan"].pos = 0]
      BY <1>13 DEF BeginDrain
    <3> HIDE DEF at
    <3>3. QED BY <3>1, <3>2, DrainType
  <2>2. lastError' \in BOOLEAN
    BY <1>13, Zenon DEF BeginDrain
  <2>3. QED BY <1>13, <2>1, <2>2 DEF BeginDrain
<1>14. CASE YieldToForward
  <2>1. loop' \in [Loops -> LoopStates]
    BY <1>14, GotoType DEF YieldToForward, Positions, Loops
  <2>2. /\ queue' \in [Loops -> Seq(Triggers)]
        /\ \A l \in Loops : Len(queue'[l]) <= QueueCap
    <3>1. CASE UNCHANGED queue
      BY <3>1
    <3>2. CASE /\ queue["scan"] # <<>>
               /\ queue' = [queue EXCEPT !["scan"] = Tail(queue["scan"])]
      BY <3>2, QueueType DEF Loops
    <3>3. QED BY <1>14, <3>1, <3>2 DEF YieldToForward
  <2>3. tick' \in [Loops -> BOOLEAN]
    BY <1>14 DEF YieldToForward
  <2>4. QED BY <1>14, <2>1, <2>2, <2>3 DEF YieldToForward
<1>15. CASE Peek
  <2>1. Head(queue["scan"]) \in Triggers
    BY <1>15 DEF Peek, Loops
  <2>2. loop' \in [Loops -> LoopStates]
    BY <1>15, <2>1, DrainType DEF Peek, Positions
  <2>3. /\ queue' \in [Loops -> Seq(Triggers)]
        /\ \A l \in Loops : Len(queue'[l]) <= QueueCap
    BY <1>15, WorkerAssumption DEF Peek, Loops
  <2>4. QED BY <1>15, <2>2, <2>3 DEF Peek
<1>16. CASE PutBack
  <2>1. loop["scan"].taken \in Triggers
    BY <1>16 DEF PutBack, At, LoopShape, Loops
  <2>2. loop' \in [Loops -> LoopStates]
    BY <1>16, DrainType DEF PutBack, Positions
  <2>3. /\ queue' \in [Loops -> Seq(Triggers)]
        /\ \A l \in Loops : Len(queue'[l]) <= QueueCap
    BY <1>16, <2>1, WorkerAssumption DEF PutBack, Loops
  <2>4. QED BY <1>16, <2>2, <2>3 DEF PutBack
<1>17. ASSUME NEW fails \in BOOLEAN, NEW l \in Loops, NEW at, NEW next \in Positions,
              Pass(l, at, next, fails)
       PROVE  TypeOK'
  <2>1. loop' \in [Loops -> LoopStates]
    BY <1>17, GotoType DEF Pass
  <2>2. lastError' \in BOOLEAN
    BY <1>17, Zenon DEF Pass
  <2>3. QED BY <1>17, <2>1, <2>2 DEF Pass
<1>18. ASSUME NEW fails \in BOOLEAN, Forward(fails) \/ BackfillOne(fails) \/ PostProcess(fails)
       PROVE  TypeOK'
  BY <1>17, <1>18 DEF Forward, BackfillOne, PostProcess, Loops, Positions
<1>19. ASSUME NEW fails \in BOOLEAN, BackfillGroup(fails) PROVE TypeOK'
  <2>1. loop["scan"].pos \in 0..Groups /\ loop["scan"].pos < Groups
    BY <1>19 DEF BackfillGroup, At, LoopShape, Loops, LoopStates
  <2>2. loop' \in [Loops -> LoopStates]
    BY <1>19, <2>1, WorkerAssumption DEF BackfillGroup, Loops, LoopStates, Positions
  <2>3. lastError' \in BOOLEAN
    BY <1>19, Zenon DEF BackfillGroup
  <2>4. QED BY <1>19, <2>2, <2>3 DEF BackfillGroup
<1>20. CASE StageError
  BY <1>20 DEF StageError
<1>21. CASE Shutdown \/ Exit
  BY <1>21 DEF Shutdown, Exit, memory
<1>22. CASE Restart
  <2>1. job' \in [Jobs -> Rows]
    BY <1>22, InterruptedType DEF Restart
  <2>2. /\ queue' \in [Loops -> Seq(Triggers)]
        /\ \A l \in Loops : Len(queue'[l]) <= QueueCap
    BY <1>22, WorkerAssumption DEF Restart
  <2>3. /\ tick' \in [Loops -> BOOLEAN]
        /\ loop' \in [Loops -> LoopStates]
        /\ lastError' \in BOOLEAN
    BY <1>22, WaitingType DEF Restart
  <2>4. QED BY <1>22, <2>1, <2>2, <2>3 DEF Restart
<1>23. QED
  BY <1>1, <1>2, <1>3, <1>4, <1>5, <1>6, <1>8, <1>9, <1>10, <1>11, <1>12, <1>13, <1>14,
     <1>15, <1>16, <1>18, <1>19, <1>20, <1>21, <1>22 DEF Next, ScanStep, PPStep, LoopStep, Loops
-----------------------------------------------------------------------------
(* The queues as sets of jobs *)

\* A receive takes the job of the first trigger out of the queue.
LEMMA QueueHead ==
  ASSUME TypeOK, NEW l \in Loops, queue[l] # <<>>, Distinct(l),
         queue' = [queue EXCEPT ![l] = Tail(@)]
  PROVE  /\ Head(queue[l]) \in Triggers
         /\ Head(queue[l]).job \in Queued(l)
         /\ Queued(l)' = Queued(l) \ {Head(queue[l]).job}
         /\ Distinct(l)'
         /\ \A m \in Loops \ {l} : Queued(m)' = Queued(m) /\ (Distinct(m) => Distinct(m)')
<1> DEFINE q == queue[l]
<1>1. q \in Seq(Triggers) /\ Len(q) \in Nat /\ q # <<>>
  BY DEF TypeOK
<1>2. Head(q) = q[1] /\ 1 \in DOMAIN q /\ Head(q) \in Triggers
  BY <1>1
<1>3. queue'[l] = Tail(q) /\ \A m \in Loops \ {l} : queue'[m] = queue[m]
  BY DEF TypeOK
<1>4. /\ Len(Tail(q)) = Len(q) - 1
      /\ \A i \in 1..(Len(q) - 1) : Tail(q)[i] = q[i + 1]
      /\ DOMAIN Tail(q) = 1..(Len(q) - 1)
  BY <1>1
<1>5. Distinct(l)'
  BY <1>1, <1>3, <1>4 DEF Distinct
<1>6. ASSUME NEW j \in Queued(l) \ {Head(q).job} PROVE j \in Queued(l)'
  <2>1. PICK i \in DOMAIN q : j = q[i].job
    BY DEF Queued
  <2>2. i \in 1..Len(q) /\ i # 1
    BY <1>1, <1>2, <1>6, <2>1
  <2>3. i - 1 \in 1..(Len(q) - 1) /\ Tail(q)[i - 1] = q[i]
    BY <1>1, <1>4, <2>2
  <2>4. QED BY <1>3, <1>4, <2>1, <2>3 DEF Queued
<1>7. ASSUME NEW j \in Queued(l)' PROVE j \in Queued(l) \ {Head(q).job}
  <2>1. PICK i \in 1..(Len(q) - 1) : j = Tail(q)[i].job
    BY <1>3, <1>4, <1>7 DEF Queued
  <2>2. i + 1 \in DOMAIN q /\ i + 1 # 1 /\ j = q[i + 1].job
    BY <1>1, <1>4, <2>1
  <2>3. QED BY <1>2, <2>2 DEF Queued, Distinct
<1>8. \A m \in Loops \ {l} : Queued(m)' = Queued(m) /\ (Distinct(m) => Distinct(m)')
  BY <1>3 DEF Queued, Distinct
<1>9. QED BY <1>2, <1>5, <1>6, <1>7, <1>8 DEF Queued

\* A send puts the job of its trigger into the queue.
LEMMA QueueLast ==
  ASSUME TypeOK, NEW l \in Loops, NEW t \in Triggers, t.job \notin Queued(l), Distinct(l),
         queue' = [queue EXCEPT ![l] = Append(@, t)]
  PROVE  /\ Queued(l)' = Queued(l) \cup {t.job}
         /\ Distinct(l)'
         /\ \A m \in Loops \ {l} : Queued(m)' = Queued(m) /\ (Distinct(m) => Distinct(m)')
<1> DEFINE q == queue[l]
<1>1. q \in Seq(Triggers) /\ Len(q) \in Nat
  BY DEF TypeOK
<1>2. queue'[l] = Append(q, t) /\ \A m \in Loops \ {l} : queue'[m] = queue[m]
  BY DEF TypeOK
<1>3. /\ DOMAIN Append(q, t) = 1..(Len(q) + 1)
      /\ \A i \in 1..Len(q) : Append(q, t)[i] = q[i]
      /\ Append(q, t)[Len(q) + 1] = t
      /\ DOMAIN q = 1..Len(q)
  BY <1>1
<1>4. \A i \in DOMAIN q : q[i].job # t.job
  BY DEF Queued
<1>5. Distinct(l)'
  <2> SUFFICES ASSUME NEW i \in 1..(Len(q) + 1), NEW k \in 1..(Len(q) + 1),
                      Append(q, t)[i].job = Append(q, t)[k].job
               PROVE  i = k
    BY <1>2, <1>3 DEF Distinct
  <2>1. CASE i \in 1..Len(q) /\ k \in 1..Len(q)
    BY <1>3, <2>1 DEF Distinct
  <2>2. CASE i = Len(q) + 1 \/ k = Len(q) + 1
    BY <1>1, <1>3, <1>4, <2>2
  <2>3. QED BY <1>1, <2>1, <2>2
<1>6. ASSUME NEW j \in Queued(l) \cup {t.job} PROVE j \in Queued(l)'
  <2>1. PICK i \in 1..(Len(q) + 1) : j = Append(q, t)[i].job
    BY <1>1, <1>3, <1>6 DEF Queued
  <2>2. QED BY <1>2, <1>3, <2>1 DEF Queued
<1>7. ASSUME NEW j \in Queued(l)' PROVE j \in Queued(l) \cup {t.job}
  <2>1. PICK i \in 1..(Len(q) + 1) : j = Append(q, t)[i].job
    BY <1>2, <1>3, <1>7 DEF Queued
  <2>2. CASE i \in 1..Len(q)
    BY <1>3, <2>1, <2>2 DEF Queued
  <2>3. CASE i = Len(q) + 1
    BY <1>3, <2>1, <2>3
  <2>4. QED BY <1>1, <2>2, <2>3
<1>8. \A m \in Loops \ {l} : Queued(m)' = Queued(m) /\ (Distinct(m) => Distinct(m)')
  BY <1>2 DEF Queued, Distinct
<1>9. QED BY <1>5, <1>6, <1>7, <1>8 DEF Queued

LEMMA QueueSame ==
  ASSUME TypeOK, queue' = queue, NEW l \in Loops
  PROVE  /\ Queued(l)' = Queued(l) /\ (Distinct(l) => Distinct(l)')
         /\ Queued(l) \subseteq Jobs
<1>1. Queued(l)' = Queued(l) /\ (Distinct(l) => Distinct(l)')
  BY DEF Queued, Distinct
<1>2. ASSUME NEW i \in DOMAIN queue[l] PROVE queue[l][i].job \in Jobs
  <2>1. queue[l] \in Seq(Triggers)
    BY DEF TypeOK
  <2>2. queue[l][i] \in Triggers
    BY <2>1
  <2>3. QED BY <2>2 DEF Triggers
<1>3. QED BY <1>1, <1>2 DEF Queued
-----------------------------------------------------------------------------
(* The invariant is kept, one lemma for each group of actions *)

\* What the invariant is about, apart from its types.
Inv == LoopShape /\ StateMatches /\ OnePlace /\ PassReachable

\* A pass that goes on with the job it has, whichever triggers it drops.
LEMMA PassGoesOn ==
  ASSUME TypeOK, Inv, TypeOK', LoopShape', NEW l \in Loops,
         loop[l].at \in Busy, loop'[l].at \in Busy \ {"putback"}, loop'[l].job = loop[l].job,
         \A m \in Loops \ {l} : loop'[m] = loop[m],
         \A m \in Loops : Queued(m)' \subseteq Queued(m) /\ Distinct(m)',
         UNCHANGED <<job, pending, cancels, ctxDone, cancelling, missed, unwritten>>
  PROVE  Inv'
<1>1. StateMatches'
  BY DEF Inv, StateMatches, Loops, Held, Busy, Fresh
<1>2. OnePlace'
  BY DEF Inv, OnePlace, Loops, Held
<1>3. PassReachable'
  BY DEF Inv, PassReachable, Loops, Held, Busy, Fresh
<1>4. QED BY <1>1, <1>2, <1>3 DEF Inv

\* Nothing of the jobs is touched.
LEMMA JobsUntouched ==
  ASSUME TypeOK, Inv, UNCHANGED <<job, pending, queue, cancels, ctxDone, cancelling, missed, unwritten, loop>>
  PROVE  Inv'
<1>1. \A l \in Loops : Queued(l)' = Queued(l) /\ Distinct(l)'
  BY QueueSame DEF Inv, OnePlace
<1>2. LoopShape' /\ PassReachable'
  BY DEF Inv, LoopShape, PassReachable, Held
<1>3. StateMatches'
  BY <1>1 DEF Inv, StateMatches, Held
<1>4. OnePlace'
  BY <1>1 DEF Inv, OnePlace, Held, Loops
<1>5. QED BY <1>2, <1>3, <1>4 DEF Inv

LEMMA CreateKeeps ==
  ASSUME TypeOK, Inv, TypeOK', NEW j \in Jobs, NEW kind \in Kinds, CreateJob(j, kind)
  PROVE  Inv'
<1>1. /\ job'[j].state = "queued"
      /\ \A k \in Jobs \ {j} : job'[k] = job[k]
  BY FinishJobType DEF CreateJob, TypeOK
<1>2. /\ job[j].state = "none"
      /\ pending' = pending \cup {[job |-> j, kind |-> kind]}
      /\ UNCHANGED <<queue, loop, cancels, ctxDone, cancelling, missed, unwritten>>
  BY DEF CreateJob, rest
<1>3. \A l \in Loops : Queued(l)' = Queued(l) /\ Distinct(l)' /\ Queued(l) \subseteq Jobs
  BY <1>2, QueueSame DEF Inv, OnePlace
<1>4. \A l \in Loops : j \notin Queued(l) /\ j # Held(l)
  BY <1>2, WorkerAssumption DEF Inv, StateMatches, Fresh
<1>5. \A t \in pending : t.job # j /\ t.job \in Jobs
  BY <1>2 DEF Inv, StateMatches, TypeOK, Triggers
<1>6. LoopShape'
  BY <1>2 DEF Inv, LoopShape, Held
<1>7. StateMatches'
  <2>1. \A t \in pending' : job'[t.job].state = "queued"
    BY <1>1, <1>2, <1>5 DEF Inv, StateMatches
  <2>2. \A l \in Loops : \A k \in Queued(l)' : job'[k].state = "queued"
    BY <1>1, <1>3, <1>4 DEF Inv, StateMatches
  <2>3. loop["scan"].at = "putback" => loop["scan"].taken.job \in Jobs \ {j}
    BY <1>2 DEF Inv, StateMatches, LoopShape, Loops, Triggers
  <2>4. \A l \in Loops : Held(l) # NoJob => Held(l) \in Jobs \ {j}
    BY <1>4 DEF TypeOK, LoopStates, Held
  <2>5. QED BY <1>1, <1>2, <2>1, <2>2, <2>3, <2>4 DEF Inv, StateMatches, Held
<1>8. OnePlace'
  <2>1. loop["scan"].at = "putback" => loop["scan"].taken.job # j
    BY <1>2 DEF Inv, StateMatches
  <2>2. QED BY <1>2, <1>3, <1>4, <1>5, <2>1 DEF Inv, OnePlace, Held, Loops
<1>9. PassReachable'
  <2>1. \A l \in Loops : Held(l) # NoJob => Held(l) \in Jobs \ {j}
    BY <1>4 DEF TypeOK, LoopStates, Held
  <2>2. QED BY <1>1, <1>2, <2>1 DEF Inv, PassReachable, Held, Fresh
<1>10. QED BY <1>6, <1>7, <1>8, <1>9 DEF Inv

LEMMA EnqueueKeeps ==
  ASSUME TypeOK, Inv, TypeOK', NEW t \in pending, Enqueue(t)
  PROVE  Inv'
<1> DEFINE l == LoopOf(t.kind)
<1>1. l \in Loops /\ t \in Triggers /\ t.job \in Jobs
  BY DEF LoopOf, Loops, Triggers, TypeOK
<1>2. /\ pending' = pending \ {t}
      /\ UNCHANGED <<loop, cancels, ctxDone, cancelling, missed>>
  BY DEF Enqueue
<1>3. job[t.job].state = "queued" /\ \A u \in pending' : u.job # t.job
  BY <1>2 DEF Inv, StateMatches, OnePlace
<1>4. LoopShape'
  BY <1>2 DEF Inv, LoopShape, Held
<1>5. \A m \in Loops : t.job \notin Queued(m) /\ t.job # Held(m)
  BY DEF Inv, OnePlace
<1>6. loop["scan"].at = "putback" => loop["scan"].taken.job # t.job
  BY DEF Inv, OnePlace
<1>7. CASE Len(queue[l]) < QueueCap
  <2>1. queue' = [queue EXCEPT ![l] = Append(@, t)] /\ UNCHANGED <<job, unwritten>>
    BY <1>7 DEF Enqueue
  <2>2. /\ Queued(l)' = Queued(l) \cup {t.job}
        /\ \A m \in Loops \ {l} : Queued(m)' = Queued(m)
        /\ \A m \in Loops : Distinct(m)'
    BY <1>1, <1>5, <2>1, QueueLast DEF Inv, OnePlace
  <2> HIDE DEF l
  <2>3. StateMatches'
    BY <1>1, <1>2, <1>3, <2>1, <2>2 DEF Inv, StateMatches, Held
  <2>4. OnePlace'
    BY <1>1, <1>2, <1>3, <1>5, <1>6, <2>2 DEF Inv, OnePlace, Held, Loops
  <2>5. PassReachable'
    BY <1>2, <2>1 DEF Inv, PassReachable, Held
  <2>6. QED BY <1>4, <2>3, <2>4, <2>5 DEF Inv
<1>8. CASE ~(Len(queue[l]) < QueueCap)
  <2>1. queue' = queue /\ TryFinish(t.job, "failed")
    BY <1>8 DEF Enqueue
  <2>2. /\ job'[t.job].state = "failed" \/ job' = job
        /\ \A k \in Jobs \ {t.job} : job'[k] = job[k]
        /\ unwritten \subseteq unwritten'
    BY <1>1, <2>1, TryFinishType DEF TypeOK, Terminal
  <2>3. \A m \in Loops : Queued(m)' = Queued(m) /\ Distinct(m)' /\ Queued(m) \subseteq Jobs
    BY <2>1, QueueSame DEF Inv, OnePlace
  <2> HIDE DEF l
  <2>4. StateMatches'
    <3>1. \A u \in pending' : u.job \in Jobs \ {t.job}
      BY <1>2, <1>3 DEF TypeOK, Triggers
    <3>2. loop["scan"].at = "putback" => loop["scan"].taken.job \in Jobs \ {t.job}
      BY <1>6 DEF Inv, LoopShape, Loops, Triggers
    <3>3. \A m \in Loops : Held(m) # NoJob => Held(m) \in Jobs \ {t.job}
      BY <1>5 DEF TypeOK, LoopStates, Held
    <3>4. QED BY <1>2, <1>5, <2>2, <2>3, <3>1, <3>2, <3>3 DEF Inv, StateMatches, Held
  <2>5. OnePlace'
    BY <1>2, <2>3 DEF Inv, OnePlace, Held, Loops
  <2>6. PassReachable'
    <3>1. \A m \in Loops : Held(m) # NoJob => Held(m) \in Jobs \ {t.job}
      BY <1>5 DEF TypeOK, LoopStates, Held
    <3>2. QED BY <1>2, <1>3, <2>2, <3>1 DEF Inv, PassReachable, Held
  <2>7. QED BY <1>4, <2>4, <2>5, <2>6 DEF Inv
<1>9. QED BY <1>7, <1>8

LEMMA CancelKeeps ==
  ASSUME TypeOK, Inv, TypeOK', NEW j \in Jobs, CancelJob(j)
  PROVE  Inv'
<1>1. /\ job' = [job EXCEPT ![j].cancel = TRUE]
      /\ cancelling' = cancelling \cup {j}
      /\ UNCHANGED <<pending, queue, cancels, ctxDone, loop, missed, unwritten>>
  BY DEF CancelJob, history
<1>2. \A k \in Jobs : job'[k].state = job[k].state /\ (k # j => job'[k] = job[k])
  BY <1>1 DEF TypeOK, Rows
<1>3. \A l \in Loops : Queued(l)' = Queued(l) /\ Distinct(l)' /\ Queued(l) \subseteq Jobs
  BY <1>1, QueueSame DEF Inv, OnePlace
<1>4. LoopShape'
  BY <1>1 DEF Inv, LoopShape, Held
<1>5. StateMatches'
  <2>1. \A t \in pending : t.job \in Jobs
    BY DEF TypeOK, Triggers
  <2>2. loop["scan"].at = "putback" => loop["scan"].taken.job \in Jobs
    BY DEF Inv, LoopShape, Loops, Triggers
  <2>3. \A l \in Loops : Held(l) # NoJob => Held(l) \in Jobs
    BY DEF TypeOK, LoopStates, Held
  <2>4. QED BY <1>1, <1>2, <1>3, <2>1, <2>2, <2>3 DEF Inv, StateMatches, Held
<1>6. OnePlace'
  BY <1>1, <1>3 DEF Inv, OnePlace, Held, Loops
<1>7. PassReachable'
  <2>1. \A l \in Loops : Held(l) # NoJob => Held(l) \in Jobs
    BY DEF TypeOK, LoopStates, Held
  <2>2. QED BY <1>1, <1>2, <2>1 DEF Inv, PassReachable, Held
<1>8. QED BY <1>4, <1>5, <1>6, <1>7 DEF Inv

\* The pass that is past its check is registered, so the lookup finds it.
LEMMA CancelPassKeeps ==
  ASSUME TypeOK, Inv, TypeOK', NEW j \in Jobs, CancelPass(j)
  PROVE  Inv'
<1>1. /\ cancelling' = cancelling \ {j}
      /\ ctxDone' = IF j \in cancels THEN ctxDone \cup {j} ELSE ctxDone
      /\ UNCHANGED <<job, pending, queue, cancels, loop, missed, unwritten>>
  BY DEF CancelPass, history
<1>2. \A l \in Loops : Queued(l)' = Queued(l) /\ Distinct(l)'
  BY <1>1, QueueSame DEF Inv, OnePlace
<1>3. LoopShape'
  BY <1>1 DEF Inv, LoopShape, Held
<1>4. StateMatches'
  BY <1>1, <1>2 DEF Inv, StateMatches, Held
<1>5. OnePlace'
  BY <1>1, <1>2 DEF Inv, OnePlace, Held, Loops
<1>6. PassReachable'
  BY <1>1 DEF Inv, PassReachable, Held, Fresh
<1>7. QED BY <1>3, <1>4, <1>5, <1>6 DEF Inv

\* The facts about the loops that every other lemma begins with.
LEMMA HeldIsJob ==
  ASSUME TypeOK, Inv, NEW l \in Loops
  PROVE  /\ Held(l) \in Jobs \cup {NoJob}
         /\ loop[l].at \in Fresh \cup {"finish"} => Held(l) \in Jobs
         /\ loop[l].at = "putback" => loop[l].taken \in Triggers /\ loop[l].taken.job \in Jobs
  BY DEF TypeOK, LoopStates, Held, Inv, LoopShape, Triggers

LEMMA TakeTickKeeps ==
  ASSUME TypeOK, Inv, TypeOK', NEW l \in Loops, TakeTick(l)
  PROVE  Inv'
<1>1. /\ loop[l].at = "select" /\ Held(l) = NoJob
      /\ loop'[l] = FirstPass[l] /\ \A m \in Loops \ {l} : loop'[m] = loop[m]
      /\ UNCHANGED <<job, pending, queue, cancels, ctxDone, cancelling, missed, unwritten>>
  BY DEF TakeTick, At, Inv, LoopShape, TypeOK, rest
<1>2. /\ loop'[l].job = NoJob /\ loop'[l].taken = NoJob
      /\ loop'[l].at \in {"forward", "pass"}
  BY <1>1, WaitingType
<1>3. \A m \in Loops : Queued(m)' = Queued(m) /\ Distinct(m)' /\ Queued(m) \subseteq Jobs
  BY <1>1, QueueSame DEF Inv, OnePlace
<1>4. LoopShape'
  BY <1>1, <1>2 DEF Inv, LoopShape, Held, Fresh
<1>5. StateMatches'
  BY <1>1, <1>2, <1>3 DEF Inv, StateMatches, Held, Loops
<1>6. OnePlace'
  <2>1. \A t \in pending : t.job # NoJob
    BY WorkerAssumption DEF TypeOK, Triggers
  <2>2. loop["scan"].at = "putback" => loop["scan"].taken.job # NoJob
    BY HeldIsJob, WorkerAssumption DEF Loops
  <2>3. QED BY <1>1, <1>2, <1>3, <2>1, <2>2, WorkerAssumption DEF Inv, OnePlace, Held, Loops
<1>7. PassReachable'
  BY <1>1, <1>2, WorkerAssumption DEF Inv, PassReachable, Held, Loops
<1>8. QED BY <1>4, <1>5, <1>6, <1>7 DEF Inv

LEMMA TakeTriggerKeeps ==
  ASSUME TypeOK, Inv, TypeOK', NEW l \in Loops, TakeTrigger(l)
  PROVE  Inv'
<1> DEFINE h == Head(queue[l])
<1>1. /\ loop[l].at = "select" /\ Held(l) = NoJob
      /\ queue[l] # <<>>
      /\ queue' = [queue EXCEPT ![l] = Tail(@)]
      /\ \A m \in Loops \ {l} : loop'[m] = loop[m]
      /\ UNCHANGED <<job, pending, cancels, ctxDone, cancelling, missed, unwritten>>
  BY DEF TakeTrigger, At, Inv, LoopShape, TypeOK, rest
<1>2. loop'[l].job = h.job /\ loop'[l].taken = NoJob /\ loop'[l].at = "register"
  BY DEF TakeTrigger, Waiting, TypeOK
<1>3. /\ h \in Triggers /\ h.job \in Queued(l)
      /\ Queued(l)' = Queued(l) \ {h.job}
      /\ \A m \in Loops \ {l} : Queued(m)' = Queued(m)
      /\ \A m \in Loops : Distinct(m)'
  BY <1>1, QueueHead DEF Inv, OnePlace
<1>4. h.job \in Jobs
  BY <1>3 DEF Triggers
<1> HIDE DEF h
<1>5. LoopShape'
  BY <1>1, <1>2, <1>4, WorkerAssumption DEF Inv, LoopShape, Held, Fresh
<1>6. StateMatches'
  BY <1>1, <1>2, <1>3 DEF Inv, StateMatches, Held, Loops, Fresh
<1>7. OnePlace'
  BY <1>1, <1>2, <1>3, <1>4 DEF Inv, OnePlace, Held, Loops
<1>8. PassReachable'
  <2>1. job[h.job].state = "queued"
    BY <1>3 DEF Inv, StateMatches
  <2>2. QED BY <1>1, <1>2, <2>1, WorkerAssumption DEF Inv, PassReachable, Held, Loops, Fresh
<1>9. QED BY <1>5, <1>6, <1>7, <1>8 DEF Inv

LEMMA RegisterKeeps ==
  ASSUME TypeOK, Inv, TypeOK', NEW l \in Loops, Register(l)
  PROVE  Inv'
<1>1. /\ loop[l].at = "register"
      /\ cancels' = cancels \cup {Held(l)}
      /\ loop'[l].at = "check" /\ loop'[l].job = loop[l].job /\ loop'[l].taken = loop[l].taken
      /\ \A m \in Loops \ {l} : loop'[m] = loop[m]
      /\ UNCHANGED <<job, pending, queue, ctxDone, cancelling, missed, unwritten>>
  BY GotoType DEF Register, At, TypeOK, Positions, rest
<1>2. Held(l) # NoJob
  BY <1>1 DEF Inv, LoopShape, Fresh
<1>3. \A m \in Loops : Queued(m)' = Queued(m) /\ Distinct(m)' /\ Queued(m) \subseteq Jobs
  BY <1>1, QueueSame DEF Inv, OnePlace
<1>4. LoopShape'
  BY <1>1, <1>2 DEF Inv, LoopShape, Held, Fresh
<1>5. StateMatches'
  BY <1>1, <1>2, <1>3 DEF Inv, StateMatches, Held, Loops, Fresh
<1>6. OnePlace'
  BY <1>1, <1>2, <1>3 DEF Inv, OnePlace, Held, Loops
<1>7. PassReachable'
  <2>1. ASSUME NEW m \in Loops, Held(m)' # NoJob, loop'[m].at # "register"
        PROVE  Held(m)' \in cancels'
    BY <1>1, <2>1 DEF Inv, PassReachable, Held
  <2>2. ASSUME NEW m \in Loops, Held(m)' # NoJob, loop'[m].at \notin Fresh, job'[Held(m)'].cancel
        PROVE  Held(m)' \in (ctxDone \cup cancelling \cup missed)'
    BY <1>1, <2>2 DEF Inv, PassReachable, Held, Fresh
  <2>3. \A j \in Jobs : job'[j].state = "running" =>
          j \in unwritten' \/ \E m \in Loops : Held(m)' = j
    BY <1>1 DEF Inv, PassReachable, Held
  <2>4. QED BY <2>1, <2>2, <2>3 DEF PassReachable
<1>8. QED BY <1>4, <1>5, <1>6, <1>7 DEF Inv

\* Conclude, at the end of a pass or for a job that was cancelled before it
\* began: the job in hand leaves it, with an outcome.
LEMMA ConcludeKeeps ==
  ASSUME TypeOK, Inv, TypeOK', NEW l \in Loops, NEW s \in Terminal, Held(l) \in Jobs,
         Conclude(l, s)
  PROVE  Inv'
<1>1. /\ cancels' = cancels \ {Held(l)}
      /\ ctxDone' = ctxDone \ {Held(l)}
      /\ missed' = missed \ {Held(l)}
      /\ loop'[l] = Waiting /\ \A m \in Loops \ {l} : loop'[m] = loop[m]
      /\ UNCHANGED <<pending, queue, cancelling>>
  BY DEF Conclude, TypeOK
<1>2. loop'[l].at = "select" /\ loop'[l].job = NoJob /\ loop'[l].taken = NoJob
  BY <1>1 DEF Waiting
<1>3. /\ job'[Held(l)].state = s \/ Held(l) \in unwritten'
      /\ \A k \in Jobs \ {Held(l)} : job'[k] = job[k]
      /\ unwritten \subseteq unwritten'
  BY TryFinishType DEF Conclude, TypeOK
<1>4. \A m \in Loops : Queued(m)' = Queued(m) /\ Distinct(m)' /\ Queued(m) \subseteq Jobs
  BY <1>1, QueueSame DEF Inv, OnePlace
<1>5. /\ \A m \in Loops : Held(l) \notin Queued(m) /\ (m # l => Held(m) # Held(l))
      /\ \A t \in pending : t.job \in Jobs /\ t.job # Held(l) /\ t.job # NoJob
      /\ loop["scan"].at = "putback" => loop["scan"].taken.job # Held(l)
  BY WorkerAssumption DEF Inv, OnePlace, Loops, TypeOK, Triggers
<1>6. /\ \A m \in Loops : Held(m) # NoJob => Held(m) \in Jobs
      /\ loop["scan"].at = "putback" => loop["scan"].taken.job \in Jobs
  BY HeldIsJob DEF Loops
<1>7. LoopShape'
  BY <1>1, <1>2 DEF Inv, LoopShape, Held, Fresh
<1>8. StateMatches'
  BY <1>1, <1>2, <1>3, <1>4, <1>5, <1>6 DEF Inv, StateMatches, Held, Loops
<1>9. OnePlace'
  BY <1>1, <1>2, <1>4, <1>5, <1>6, WorkerAssumption DEF Inv, OnePlace, Held, Loops
<1>10. PassReachable'
  BY <1>1, <1>2, <1>3, <1>5, <1>6 DEF Inv, PassReachable, Held, Loops, Terminal
<1>11. QED BY <1>7, <1>8, <1>9, <1>10 DEF Inv

LEMMA StartJobKeeps ==
  ASSUME TypeOK, Inv, TypeOK', NEW l \in Loops, StartJob(l)
  PROVE  Inv'
<1>1. Held(l) \in Jobs /\ job[Held(l)].state = "queued"
  BY HeldIsJob, WorkerAssumption DEF StartJob, At, Inv, StateMatches, Fresh
<1>2. /\ job'[Held(l)].state \in {"queued", "running"}
      /\ job'[Held(l)].cancel => Held(l) \in missed'
      /\ missed \subseteq missed'
      /\ \A k \in Jobs \ {Held(l)} : job'[k] = job[k]
  BY <1>1, FinishJobType DEF StartJob, TypeOK
<1> DEFINE at == FirstStep(loop[l].kind)
<1>3. at \in {"forward", "drain", "one", "pass"}
  BY DEF FirstStep
<1>4. /\ loop[l].at = "check"
      /\ loop'[l].at = at /\ loop'[l].job = loop[l].job /\ loop'[l].taken = loop[l].taken
      /\ \A m \in Loops \ {l} : loop'[m] = loop[m]
      /\ UNCHANGED <<pending, queue, cancels, ctxDone, cancelling, unwritten>>
  BY <1>3, GotoType DEF StartJob, At, TypeOK, Positions
<1>5. Held(l) # NoJob
  BY <1>1, WorkerAssumption
<1> HIDE DEF at
<1>6. \A m \in Loops : Queued(m)' = Queued(m) /\ Distinct(m)' /\ Queued(m) \subseteq Jobs
  BY <1>4, QueueSame DEF Inv, OnePlace
<1>7. /\ \A m \in Loops : Held(l) \notin Queued(m) /\ (m # l => Held(m) # Held(l))
      /\ \A t \in pending : t.job \in Jobs /\ t.job # Held(l)
      /\ loop["scan"].at = "putback" => loop["scan"].taken.job # Held(l)
  BY <1>1, WorkerAssumption DEF Inv, OnePlace, Loops, TypeOK, Triggers
<1>8. /\ \A m \in Loops : Held(m) # NoJob => Held(m) \in Jobs
      /\ loop["scan"].at = "putback" => loop["scan"].taken.job \in Jobs
  BY HeldIsJob DEF Loops
<1>9. LoopShape'
  BY <1>3, <1>4, <1>5 DEF Inv, LoopShape, Held, Fresh
<1>10. StateMatches'
  BY <1>2, <1>3, <1>4, <1>5, <1>6, <1>7, <1>8 DEF Inv, StateMatches, Held, Loops, Fresh
<1>11. OnePlace'
  BY <1>3, <1>4, <1>5, <1>6 DEF Inv, OnePlace, Held, Loops
<1>12. PassReachable'
  BY <1>1, <1>2, <1>3, <1>4, <1>5, <1>7, <1>8 DEF Inv, PassReachable, Held, Loops
<1>13. QED BY <1>9, <1>10, <1>11, <1>12 DEF Inv

\* Resolve: a pass nobody triggered is forgotten, a job waits for its verdict
\* to be written.
LEMMA ResolveKeeps ==
  ASSUME TypeOK, Inv, TypeOK', NEW l \in Loops, Resolve(l)
  PROVE  Inv'
<1>1. /\ loop[l].at = "report" /\ loop[l].taken = NoJob
      /\ \A m \in Loops \ {l} : loop'[m] = loop[m]
      /\ UNCHANGED <<job, pending, queue, cancels, ctxDone, cancelling, missed, unwritten>>
  BY DEF Resolve, At, Inv, LoopShape, TypeOK, rest
<1>2. \A m \in Loops : Queued(m)' = Queued(m) /\ Distinct(m)' /\ Queued(m) \subseteq Jobs
  BY <1>1, QueueSame DEF Inv, OnePlace
<1>3. CASE Held(l) = NoJob
  <2>1. loop'[l] = Waiting
    BY <1>3 DEF Resolve, TypeOK
  <2>2. loop'[l].at = "select" /\ loop'[l].job = NoJob /\ loop'[l].taken = NoJob
    BY <2>1 DEF Waiting
  <2>3. LoopShape'
    BY <1>1, <2>2 DEF Inv, LoopShape, Held, Fresh
  <2>4. StateMatches'
    BY <1>1, <1>2, <2>2 DEF Inv, StateMatches, Held, Loops
  <2>5. OnePlace'
    BY <1>1, <1>2, <1>3, <2>2 DEF Inv, OnePlace, Held, Loops
  <2>6. PassReachable'
    BY <1>1, <1>3, <2>2 DEF Inv, PassReachable, Held, Loops
  <2>7. QED BY <2>3, <2>4, <2>5, <2>6 DEF Inv
<1>4. CASE Held(l) # NoJob
  <2>1. /\ loop'[l].at = "finish" /\ loop'[l].job = loop[l].job /\ loop'[l].taken = NoJob
        /\ loop'[l].verdict \in Terminal
    <3>1. PICK v \in Terminal : loop' = [loop EXCEPT ![l].at = "finish", ![l].verdict = v]
      BY <1>4 DEF Resolve, Terminal
    <3>2. QED BY <1>1, <3>1 DEF TypeOK, LoopStates
  <2>2. LoopShape'
    BY <1>1, <1>4, <2>1 DEF Inv, LoopShape, Held, Fresh
  <2>3. QED BY <1>1, <1>2, <2>1, <2>2, PassGoesOn DEF Busy, Fresh, Positions
<1>5. QED BY <1>3, <1>4

\* A pass that moves on, without touching the queues.
LEMMA PassMovesOn ==
  ASSUME TypeOK, Inv, TypeOK', NEW l \in Loops,
         loop[l].at \in Busy \ {"putback"}, loop'[l].at \in Busy \ {"putback", "finish"},
         loop'[l].job = loop[l].job, loop'[l].taken = loop[l].taken,
         loop'[l].at = "backfill" => loop'[l].pos < Groups,
         \A m \in Loops \ {l} : loop'[m] = loop[m],
         UNCHANGED <<job, pending, queue, cancels, ctxDone, cancelling, missed, unwritten>>
  PROVE  Inv'
<1>1. LoopShape'
  BY DEF Inv, LoopShape, Held, Busy, Fresh
<1>2. \A m \in Loops : Queued(m)' = Queued(m) /\ Distinct(m)'
  BY QueueSame DEF Inv, OnePlace
<1>3. QED BY <1>1, <1>2, PassGoesOn

LEMMA DrainKeeps ==
  ASSUME TypeOK, Inv, TypeOK', NEW fails \in BOOLEAN, BeginDrain(fails) \/ EndDrain \/ NotDue
  PROVE  Inv'
<1> USE DEF Busy, Fresh, Positions
<1>1. "scan" \in Loops
  BY DEF Loops
<1>2. CASE BeginDrain(fails)
  <2> DEFINE at == IF fails \/ NothingToDrain THEN "report" ELSE "group"
  <2>1. loop' = [loop EXCEPT !["scan"].at = at, !["scan"].pos = 0]
    BY <1>2 DEF BeginDrain
  <2>2. at \in {"report", "group"}
    OBVIOUS
  <2> HIDE DEF at
  <2>3. /\ loop'["scan"].at = at
        /\ loop'["scan"].job = loop["scan"].job
        /\ loop'["scan"].taken = loop["scan"].taken
        /\ \A m \in Loops \ {"scan"} : loop'[m] = loop[m]
    BY <1>1, <2>1 DEF TypeOK, LoopStates
  <2>4. loop["scan"].at = "drain" /\ UNCHANGED <<job, pending, queue, cancels, ctxDone, cancelling, missed, unwritten>>
    BY <1>2 DEF BeginDrain, At, rest
  <2>5. QED BY <1>1, <2>2, <2>3, <2>4, PassMovesOn
<1>3. CASE EndDrain
  BY <1>1, <1>3, GotoType, PassMovesOn DEF EndDrain, At, TypeOK, rest
<1>4. CASE NotDue
  <2>1. loop["scan"].pos < Groups
    BY <1>1, <1>4, WorkerAssumption DEF NotDue, NothingToDrain, At, TypeOK, LoopStates
  <2>2. QED BY <1>1, <1>4, <2>1, GotoType, PassMovesOn DEF NotDue, At, TypeOK, rest
<1>5. QED BY <1>2, <1>3, <1>4

LEMMA PassKeeps ==
  ASSUME TypeOK, Inv, TypeOK', NEW fails \in BOOLEAN,
         Forward(fails) \/ BackfillOne(fails) \/ PostProcess(fails) \/ BackfillGroup(fails)
  PROVE  Inv'
<1> USE DEF Busy, Fresh, Positions
<1>1. ASSUME NEW l \in Loops, NEW at \in {"forward", "one", "pass"},
             NEW next \in {"drain", "report"}, Pass(l, at, next, fails)
      PROVE  Inv'
  BY <1>1, GotoType, PassMovesOn DEF Pass, At, TypeOK, rest
<1>2. CASE BackfillGroup(fails)
  <2>1. /\ loop'["scan"].at = "group"
        /\ loop'["scan"].job = loop["scan"].job
        /\ loop'["scan"].taken = loop["scan"].taken
        /\ \A m \in Loops \ {"scan"} : loop'[m] = loop[m]
    BY <1>2 DEF BackfillGroup, TypeOK, LoopStates, Loops
  <2>2. loop["scan"].at = "backfill" /\ UNCHANGED <<job, pending, queue, cancels, ctxDone, cancelling, missed, unwritten>>
    BY <1>2 DEF BackfillGroup, At, rest
  <2>3. QED BY <2>1, <2>2, PassMovesOn DEF Loops
<1>3. QED BY <1>1, <1>2 DEF Forward, BackfillOne, PostProcess, Loops

\* forwardBecameDue drops the trigger it consumes, or looks at it.
LEMMA YieldKeeps ==
  ASSUME TypeOK, Inv, TypeOK', YieldToForward
  PROVE  Inv'
<1>1. "scan" \in Loops
  BY DEF Loops
<1>2. /\ loop["scan"].at = "group"
      /\ loop'["scan"].at = "forward" /\ loop'["scan"].job = loop["scan"].job
      /\ loop'["scan"].taken = loop["scan"].taken
      /\ \A m \in Loops \ {"scan"} : loop'[m] = loop[m]
      /\ UNCHANGED <<job, pending, cancels, ctxDone, cancelling, missed, unwritten>>
  BY <1>1, GotoType DEF YieldToForward, At, TypeOK, Positions, rest
<1>3. LoopShape'
  BY <1>2 DEF Inv, LoopShape, Held, Fresh
<1>4. \A m \in Loops : Queued(m)' \subseteq Queued(m) /\ Distinct(m)'
  <2>1. CASE UNCHANGED queue
    BY <2>1, QueueSame DEF Inv, OnePlace
  <2>2. CASE /\ queue["scan"] # <<>>
             /\ queue' = [queue EXCEPT !["scan"] = Tail(queue["scan"])]
    BY <1>1, <2>2, QueueHead, ZenonT(40) DEF Inv, OnePlace
  <2>3. QED BY <2>1, <2>2 DEF YieldToForward
<1>5. QED BY <1>1, <1>2, <1>3, <1>4, PassGoesOn DEF Busy, Fresh, Positions

LEMMA PeekKeeps ==
  ASSUME TypeOK, Inv, TypeOK', Peek
  PROVE  Inv'
<1> DEFINE h == Head(queue["scan"])
<1>1. /\ "scan" \in Loops
      /\ queue["scan"] # <<>>
      /\ queue' = [queue EXCEPT !["scan"] = Tail(@)]
  BY DEF Peek, Loops
<1>2. /\ h \in Triggers /\ h.job \in Queued("scan")
      /\ Queued("scan")' = Queued("scan") \ {h.job}
      /\ Queued("pp")' = Queued("pp")
      /\ \A m \in Loops : Distinct(m)'
  BY <1>1, QueueHead DEF Inv, OnePlace, Loops
<1>3. /\ loop'["scan"].at = "putback" /\ loop'["scan"].job = loop["scan"].job
      /\ loop'["scan"].pos = loop["scan"].pos
      /\ loop'["scan"].taken = h
      /\ \A m \in Loops \ {"scan"} : loop'[m] = loop[m]
  BY <1>1, <1>2 DEF Peek, TypeOK, LoopStates
<1>4. /\ loop["scan"].at = "group" /\ loop["scan"].pos < Groups
      /\ UNCHANGED <<job, pending, cancels, ctxDone, cancelling, missed, unwritten>>
  BY <1>1, WorkerAssumption DEF Peek, NothingToDrain, At, TypeOK, LoopStates, rest
<1> HIDE DEF h
<1>5. LoopShape'
  BY <1>2, <1>3, <1>4 DEF Inv, LoopShape, Held, Fresh
<1>6. StateMatches'
  BY <1>2, <1>3, <1>4 DEF Inv, StateMatches, Held, Loops, Fresh
<1>7. OnePlace'
  BY <1>2, <1>3, <1>4 DEF Inv, OnePlace, Held, Loops
<1>8. PassReachable'
  BY <1>3, <1>4 DEF Inv, PassReachable, Held, Loops, Fresh
<1>9. QED BY <1>5, <1>6, <1>7, <1>8 DEF Inv

LEMMA PutBackKeeps ==
  ASSUME TypeOK, Inv, TypeOK', PutBack
  PROVE  Inv'
<1> DEFINE t == loop["scan"].taken
<1>1. "scan" \in Loops /\ loop["scan"].at = "putback" /\ t \in Triggers
      /\ loop["scan"].pos < Groups
  BY HeldIsJob DEF PutBack, At, Loops, Inv, LoopShape
<1>2. /\ loop'["scan"].at = "backfill" /\ loop'["scan"].job = loop["scan"].job
      /\ loop'["scan"].pos = loop["scan"].pos
      /\ loop'["scan"].taken = NoJob
      /\ \A m \in Loops \ {"scan"} : loop'[m] = loop[m]
  BY <1>1 DEF PutBack, TypeOK, LoopStates
<1>3. UNCHANGED <<job, pending, cancels, ctxDone, cancelling, missed, unwritten>>
  BY DEF PutBack, rest
<1>4. LoopShape'
  BY <1>1, <1>2 DEF Inv, LoopShape, Held, Fresh
<1>5. CASE queue' = queue
  <2>1. \A m \in Loops : Queued(m)' = Queued(m) /\ Distinct(m)'
    BY <1>5, QueueSame DEF Inv, OnePlace
  <2>2. QED BY <1>1, <1>2, <1>3, <1>4, <2>1, PassGoesOn DEF Busy, Fresh, Positions
<1>6. CASE queue' = [queue EXCEPT !["scan"] = Append(@, t)]
  <2>1. /\ Queued("scan")' = Queued("scan") \cup {t.job}
        /\ Queued("pp")' = Queued("pp")
        /\ \A m \in Loops : Distinct(m)'
    BY <1>1, <1>6, QueueLast DEF Inv, OnePlace, Loops
  <2>2. /\ \A u \in pending : u.job # t.job
        /\ \A l \in Loops : t.job \notin Queued(l) \cup {Held(l)}
        /\ job[t.job].state = "queued"
    BY <1>1 DEF Inv, OnePlace, StateMatches
  <2> HIDE DEF t
  <2>3. StateMatches'
    BY <1>1, <1>2, <1>3, <2>1, <2>2 DEF Inv, StateMatches, Held, Loops, Fresh
  <2>4. OnePlace'
    BY <1>2, <1>3, <2>1, <2>2 DEF Inv, OnePlace, Held, Loops
  <2>5. PassReachable'
    BY <1>1, <1>2, <1>3 DEF Inv, PassReachable, Held, Loops, Fresh
  <2>6. QED BY <1>4, <2>3, <2>4, <2>5 DEF Inv
<1>7. QED BY <1>5, <1>6 DEF PutBack

\* Start-up: no trigger survives, and MarkInterrupted leaves no job running
\* unless it was refused.
LEMMA RestartKeeps ==
  ASSUME TypeOK, TypeOK', Restart
  PROVE  Inv'
<1>1. /\ pending' = {} /\ queue' = [l \in Loops |-> <<>>] /\ loop' = FirstPass
  BY DEF Restart
<1>2. \A l \in Loops : /\ loop'[l].job = NoJob /\ loop'[l].taken = NoJob
                       /\ loop'[l].at \in {"forward", "pass"}
  BY <1>1, WaitingType
<1>3. \A l \in Loops : Queued(l)' = {} /\ Distinct(l)'
  BY <1>1 DEF Queued, Distinct
<1>4. \A j \in Jobs : job'[j].state = "running" => j \in unwritten'
  BY DEF Restart, MarkInterrupted, TypeOK, Rows
<1>5. LoopShape'
  BY <1>2 DEF LoopShape, Held, Fresh
<1>6. StateMatches'
  BY <1>1, <1>2, <1>3 DEF StateMatches, Held, Loops
<1>7. OnePlace'
  BY <1>1, <1>2, <1>3 DEF OnePlace, Held, Loops
<1>8. PassReachable'
  BY <1>2, <1>4 DEF PassReachable, Held
<1>9. QED BY <1>5, <1>6, <1>7, <1>8 DEF Inv
-----------------------------------------------------------------------------
(* The theorems *)

LEMMA InitInv == Init => IInv
<1> SUFFICES ASSUME Init PROVE IInv
  OBVIOUS
<1>1. \A l \in Loops : loop[l].job = NoJob /\ loop[l].taken = NoJob
                       /\ loop[l].at \in {"forward", "pass"}
  BY WaitingType DEF Init
<1>2. \A l \in Loops : Queued(l) = {} /\ Distinct(l)
  BY DEF Init, Queued, Distinct
<1>3. LoopShape
  BY <1>1 DEF LoopShape, Held, Fresh
<1>4. StateMatches
  BY <1>1, <1>2 DEF Init, StateMatches, Held, Loops
<1>5. OnePlace
  BY <1>1, <1>2 DEF Init, OnePlace, Held, Loops
<1>6. PassReachable
  BY <1>1 DEF Init, PassReachable, Held
<1>7. QED BY <1>3, <1>4, <1>5, <1>6, InitType DEF IInv

LEMMA InvStep == IInv /\ [Next]_vars => IInv'
<1> SUFFICES ASSUME TypeOK, Inv, [Next]_vars PROVE TypeOK' /\ Inv'
  BY DEF IInv, Inv
<1>1. TypeOK'
  <2>1. CASE Next
    BY <2>1, TypeStep DEF Inv
  <2>2. CASE UNCHANGED vars
    BY <2>2 DEF vars, TypeOK
  <2>3. QED BY <2>1, <2>2
<1>2. Inv'
  <2>1. ASSUME NEW l \in Loops, SkipCancelled(l) PROVE Inv'
    <3>1. Held(l) \in Jobs
      BY <2>1, HeldIsJob DEF SkipCancelled, At, Fresh
    <3>2. QED BY <1>1, <2>1, <3>1, ConcludeKeeps DEF SkipCancelled, Terminal
  <2>2. ASSUME NEW l \in Loops, Finish(l) PROVE Inv'
    <3>1. Held(l) \in Jobs /\ loop[l].verdict \in Terminal
      BY <2>2, HeldIsJob DEF Finish, At, Inv, LoopShape
    <3>2. QED BY <1>1, <2>2, <3>1, ConcludeKeeps DEF Finish
  <2>3. ASSUME NEW l \in Loops, LoopStep(l) PROVE Inv'
    BY <1>1, <2>1, <2>2, <2>3, RegisterKeeps, StartJobKeeps, ResolveKeeps DEF LoopStep
  <2>4. CASE ScanStep
    BY <1>1, <2>3, <2>4, DrainKeeps, YieldKeeps, PeekKeeps, PutBackKeeps, PassKeeps
       DEF ScanStep, Loops
  <2>5. CASE PPStep
    BY <1>1, <2>3, <2>5, PassKeeps DEF PPStep, Loops
  <2>6. ASSUME NEW l \in Loops, TickerFires(l) PROVE Inv'
    BY <2>6, JobsUntouched DEF TickerFires, rest
  <2>7. CASE StageError
    BY <2>7, JobsUntouched DEF StageError, rest
  <2>8. CASE Shutdown \/ Exit
    BY <2>8, JobsUntouched DEF Shutdown, Exit, memory, rest, history
  <2>9. CASE UNCHANGED vars
    BY <2>9, JobsUntouched DEF vars
  <2>10. QED
    BY <1>1, <2>4, <2>5, <2>6, <2>7, <2>8, <2>9, CreateKeeps, EnqueueKeeps, CancelKeeps, CancelPassKeeps,
       TakeTickKeeps, TakeTriggerKeeps, RestartKeeps DEF Next
<1>3. QED BY <1>1, <1>2

\* Every variable of the worker keeps its type; no trigger channel holds more
\* than its capacity, and the drain's cursor stays within the groups.
THEOREM TypeCorrect == Spec => []TypeOK
<1>1. IInv => TypeOK
  BY DEF IInv
<1>2. QED BY <1>1, InitInv, InvStep, PTL DEF Spec

\* withJob and MarkInterrupted: while the process serves, a job the table
\* shows as running is in a loop's hand, whatever crashed before, unless the
\* database refused its outcome or the sweep.
THEOREM RunningReal == Spec => []RunningIsReal
<1>1. IInv => RunningIsReal
  BY DEF IInv, PassReachable, RunningIsReal
<1>2. QED BY <1>1, InitInv, InvStep, PTL DEF Spec

\* CancelJob and withJob: a request made for a job has cancelled the context
\* of its pass, or is about to, unless withJob could not read it.
THEOREM CancelReaches == Spec => []CancelReachesPass
<1>1. IInv => CancelReachesPass
  BY DEF IInv, PassReachable, CancelReachesPass, Fresh
<1>2. QED BY <1>1, InitInv, InvStep, PTL DEF Spec

\* FinishJob, StartJob, RequestJobCancel and MarkInterrupted never write to
\* the row of a job that has its outcome.
THEOREM OutcomesFinal == Spec => OutcomeIsFinal
<1> DEFINE Kept == \A j \in Jobs : job[j].state \in Terminal => job'[j] = job[j]
<1>1. IInv /\ [Next]_vars => [Kept]_vars
  <2> SUFFICES ASSUME TypeOK, Inv, Next PROVE Kept
    BY DEF IInv, Inv
  <2>1. ASSUME NEW j \in Jobs, NEW s \in {"none", "queued", "running"} \cup Terminal,
               job[j].state \notin Terminal, FinishJob(j, s)
        PROVE  Kept
    BY <2>1, FinishJobType DEF TypeOK
  <2>2. ASSUME NEW j \in Jobs, NEW kind \in Kinds, CreateJob(j, kind) PROVE Kept
    BY <2>1, <2>2 DEF CreateJob, Terminal
  <2>3. ASSUME NEW t \in pending, Enqueue(t) PROVE Kept
    <3>1. t.job \in Jobs /\ job[t.job].state = "queued"
      BY DEF TypeOK, Triggers, Inv, StateMatches
    <3>2. QED BY <2>1, <2>3, <3>1 DEF Enqueue, TryFinish, Terminal
  <2>4. ASSUME NEW j \in Jobs, CancelJob(j) \/ CancelPass(j) PROVE Kept
    BY <2>4 DEF CancelJob, CancelPass, TypeOK, Terminal
  <2>5. ASSUME NEW l \in Loops, LoopStep(l) PROVE Kept
    <3>1. Held(l) \in Jobs => job[Held(l)].state \in {"queued", "running"}
      BY WorkerAssumption DEF Inv, StateMatches
    <3>2. CASE Register(l) \/ Resolve(l)
      BY <3>2 DEF Register, Resolve
    <3>3. CASE SkipCancelled(l)
      BY <2>1, <3>1, <3>3, HeldIsJob DEF SkipCancelled, Conclude, TryFinish, At, Fresh, Terminal
    <3>4. CASE StartJob(l)
      BY <2>1, <3>1, <3>4, HeldIsJob DEF StartJob, At, Fresh, Terminal
    <3>5. CASE Finish(l)
      <4>1. Held(l) \in Jobs /\ loop[l].verdict \in Terminal
        BY <3>5, HeldIsJob DEF Finish, At, Inv, LoopShape
      <4>2. QED BY <2>1, <3>1, <3>5, <4>1 DEF Finish, Conclude, TryFinish, Terminal
    <3>6. QED BY <2>5, <3>2, <3>3, <3>4, <3>5 DEF LoopStep
  <2>6. CASE Restart
    BY <2>6 DEF Restart, MarkInterrupted, Terminal
  <2>7. CASE ScanStep
    BY <2>5, <2>7 DEF ScanStep, Loops, BeginDrain, EndDrain, YieldToForward, Peek, PutBack,
       NotDue, Forward, BackfillOne, Pass, BackfillGroup
  <2>8. CASE PPStep
    BY <2>5, <2>8 DEF PPStep, Loops, PostProcess, Pass
  <2>9. ASSUME NEW l \in Loops, TakeTick(l) \/ TakeTrigger(l) \/ TickerFires(l) PROVE Kept
    BY <2>9 DEF TakeTick, TakeTrigger, TickerFires
  <2>10. CASE StageError \/ Shutdown \/ Exit
    BY <2>10 DEF StageError, Shutdown, Exit
  <2>11. QED BY <2>2, <2>3, <2>4, <2>6, <2>7, <2>8, <2>9, <2>10 DEF Next
<1>2. QED BY <1>1, InitInv, InvStep, PTL DEF Spec, OutcomeIsFinal
===============================================================================
