--------------------------- MODULE Services_proofs ---------------------------
(***************************************************************************)
(* What the services around the pipeline and the post-processor promise,   *)
(* for every configuration: each has its own inductive invariant and its   *)
(* own specification.                                                      *)
(***************************************************************************)
EXTENDS NntpClient, Schedule, Maintenance, Budget, ScanPass, Enrich, Notify, LogStream,
        Servers, SearchIndex, PostProcess, FiniteSetTheorems, TLAPS
-----------------------------------------------------------------------------
(* Maintenance: the rows of the jobs table *)

\* A loop has a run exactly when it is past execute, and an outcome when it is
\* about to write it.
RunInHand ==
  \A t \in Scheduled : /\ task[t].id = 0 <=> task[t].at \in {"wait", "execute"}
                       /\ task[t].at = "finish" => task[t].verdict \in {"completed", "failed"}

\* No two loops have the same run.
RunsApart == \A t, u \in Scheduled : task[t].id # 0 /\ task[u].id = task[t].id => t = u

\* A row that looks alive is held, also while nobody is there to see it.
AliveHeld ==
  \A i \in 1..MaxRuns : run[i] \in {"queued", "running"} =>
    i \in unwritten \/ \E t \in Scheduled : task[t].id = i

MaintInv == MaintTypeOK /\ RunInHand /\ RunsApart /\ AliveHeld

LEMMA MinIsMember ==
  ASSUME NEW S \in SUBSET Nat, S # {}
  PROVE  Min(S) \in S
<1>1. PICK m \in S : \A y \in S : <<y, m>> \notin OpToRel(<, Nat)
  BY NatLessThanWellFounded, WFMin
<1>2. \A y \in S : ~(y < m)
  BY <1>1 DEF OpToRel
<1>3. \A y \in S : m <= y
  BY <1>2
<1>4. QED BY <1>3 DEF Min

TaskStates == [at : {"wait", "execute", "create", "start", "run", "finish"},
               id : 0..MaxRuns, verdict : {"none", "completed", "failed"}]

Begun(i) == [DueTask EXCEPT !.at = "create", !.id = i]

LEMMA BegunTyped ==
  ASSUME NEW i \in 1..MaxRuns
  PROVE  Begun(i) \in TaskStates /\ Begun(i).id = i /\ Begun(i).id # 0 /\ Begun(i).at = "create"
<1> DEFINE d == [at |-> "execute", id |-> 0, verdict |-> "none"]
           s == [d EXCEPT !.at = "create", !.id = i]
<1>1. DueTask = d
  BY DEF DueTask, Resting
<1>2. i \in 0..MaxRuns /\ i # 0
  BY MaintAssumption
<1>3. s \in TaskStates /\ s.id = i /\ s.id # 0 /\ s.at = "create"
  BY <1>2 DEF TaskStates
<1>4. QED BY <1>1, <1>3 DEF Begun

\* A loop that moves keeps its run, drops it, or has one nobody else has.
LEMMA TaskMoves ==
  ASSUME task \in [Scheduled -> TaskStates], RunInHand, RunsApart,
         NEW t \in Scheduled, NEW s \in TaskStates, task' = [task EXCEPT ![t] = s],
         s.id = 0 <=> s.at \in {"wait", "execute"},
         s.at = "finish" => s.verdict \in {"completed", "failed"},
         s.id = 0 \/ \A u \in Scheduled \ {t} : task[u].id # s.id
  PROVE  /\ task' \in [Scheduled -> TaskStates] /\ RunInHand' /\ RunsApart'
         /\ task'[t] = s /\ \A u \in Scheduled \ {t} : task'[u] = task[u]
<1>1. task'[t] = s /\ \A u \in Scheduled \ {t} : task'[u] = task[u]
  OBVIOUS
<1>2. task' \in [Scheduled -> TaskStates]
  OBVIOUS
<1>3. RunInHand'
  BY <1>1 DEF RunInHand
<1>4. RunsApart'
  BY <1>1 DEF RunsApart
<1>5. QED BY <1>1, <1>2, <1>3, <1>4

LEMMA MaintStepInv == MaintInv /\ [MaintNext]_maintVars => MaintInv'
<1> SUFFICES ASSUME MaintInv, [MaintNext]_maintVars PROVE MaintInv'
  OBVIOUS
<1>a. /\ run \in [1..MaxRuns -> {"none", "queued", "running", "completed", "failed", "interrupted"}]
      /\ task \in [Scheduled -> TaskStates]
      /\ service \in {"up", "stopping", "down"} /\ downs \in 0..MaxDowns
      /\ unwritten \subseteq 1..MaxRuns /\ RunInHand /\ RunsApart /\ AliveHeld
  BY DEF MaintInv, MaintTypeOK, TaskStates
<1>b. Resting \in TaskStates /\ DueTask \in TaskStates
      /\ Resting.id = 0 /\ DueTask.id = 0 /\ Resting.at = "wait" /\ DueTask.at = "execute"
  BY MaintAssumption DEF Resting, DueTask, TaskStates
<1> USE DEF MaintInv
<1>1. ASSUME NEW t \in Scheduled, IntervalPasses(t) PROVE MaintInv'
  <2>1. task[t].id = 0 /\ task' = [task EXCEPT ![t] = DueTask] /\ UNCHANGED <<run, service, downs, unwritten>>
    BY <1>1, <1>a DEF IntervalPasses, MaintStep, RunInHand
  <2>2. /\ task' \in [Scheduled -> TaskStates] /\ RunInHand' /\ RunsApart'
        /\ \A u \in Scheduled \ {t} : task'[u] = task[u]
    BY <1>a, <1>b, <2>1, TaskMoves
  <2>3. AliveHeld'
    BY <1>a, <2>1, <2>2 DEF AliveHeld
  <2>4. QED BY <1>a, <2>1, <2>2, <2>3 DEF MaintTypeOK, TaskStates
<1>2. ASSUME NEW t \in Scheduled, Execute(t) PROVE MaintInv'
  <2>1. task[t].id = 0 /\ UNCHANGED <<run, service, downs, unwritten>>
    BY <1>2, <1>a DEF Execute, MaintStep, RunInHand
  <2>2. PICK s \in TaskStates : /\ task' = [task EXCEPT ![t] = s]
                                /\ s.id = 0 <=> s.at \in {"wait", "execute"}
                                /\ s.at # "finish"
                                /\ s.id = 0 \/ \A u \in Scheduled \ {t} : task[u].id # s.id
    <3>1. CASE MaintStep(t, "execute", Resting)
      BY <3>1, <1>b DEF MaintStep
    <3>2. CASE Fresh # {} /\ MaintStep(t, "execute", [DueTask EXCEPT !.at = "create", !.id = Min(Fresh)])
      <4>1. Fresh \in SUBSET Nat /\ Fresh \subseteq 1..MaxRuns
        BY DEF Fresh
      <4>2. PICK i \in Fresh : i = Min(Fresh)
        BY <3>2, <4>1, MinIsMember
      <4>3. i \in 1..MaxRuns /\ \A u \in Scheduled : task[u].id # i
        BY <4>2 DEF Fresh
      <4>4. task' = [task EXCEPT ![t] = Begun(i)]
        BY <3>2, <4>2 DEF MaintStep, Begun
      <4>5. Begun(i) \in TaskStates /\ Begun(i).id = i /\ i # 0 /\ Begun(i).at = "create"
        BY <4>3, BegunTyped
      <4>6. QED BY <4>3, <4>4, <4>5
    <3>3. QED BY <1>2, <3>1, <3>2 DEF Execute
  <2>3. /\ task' \in [Scheduled -> TaskStates] /\ RunInHand' /\ RunsApart'
        /\ \A u \in Scheduled \ {t} : task'[u] = task[u]
    BY <1>a, <2>2, TaskMoves
  <2>4. AliveHeld'
    BY <1>a, <2>1, <2>3 DEF AliveHeld
  <2>5. QED BY <1>a, <2>1, <2>3, <2>4 DEF MaintTypeOK, TaskStates
<1>3. ASSUME NEW t \in Scheduled, CreateRun(t) PROVE MaintInv'
  <2>1. task[t].id # 0 /\ task[t].id \in 1..MaxRuns /\ UNCHANGED <<service, downs, unwritten>>
    BY <1>3, <1>a, MaintAssumption DEF CreateRun, MaintStep, RunInHand, TaskStates
  <2>2. PICK s \in TaskStates : /\ task' = [task EXCEPT ![t] = s]
                                /\ s.id = task[t].id /\ s.at \notin {"wait", "execute"}
                                /\ s.at = "finish" => s.verdict \in {"completed", "failed"}
    BY <1>3, <1>a DEF CreateRun, MaintStep, TaskStates
  <2>3. /\ task' \in [Scheduled -> TaskStates] /\ RunInHand' /\ RunsApart'
        /\ task'[t].id = task[t].id /\ \A u \in Scheduled \ {t} : task'[u] = task[u]
    <3>1. \A u \in Scheduled \ {t} : task[u].id # s.id
      BY <1>a, <2>1, <2>2 DEF RunsApart
    <3>2. QED BY <1>a, <2>1, <2>2, <3>1, TaskMoves
  <2>4. /\ run' \in [1..MaxRuns -> {"none", "queued", "running", "completed", "failed", "interrupted"}]
        /\ \A i \in 1..MaxRuns : i # task[t].id => run'[i] = run[i]
    BY <1>3, <1>a, <2>1 DEF CreateRun
  <2>5. AliveHeld'
    BY <1>a, <2>1, <2>3, <2>4 DEF AliveHeld
  <2>6. QED BY <1>a, <2>1, <2>3, <2>4, <2>5 DEF MaintTypeOK, TaskStates
<1>4. ASSUME NEW t \in Scheduled, StartRun(t) PROVE MaintInv'
  <2>1. task[t].id # 0 /\ task[t].id \in 1..MaxRuns /\ UNCHANGED <<service, downs, unwritten>>
    BY <1>4, <1>a, MaintAssumption DEF StartRun, MaintStep, RunInHand, TaskStates
  <2>2. PICK s \in TaskStates : /\ task' = [task EXCEPT ![t] = s]
                                /\ s.id = task[t].id /\ s.at \notin {"wait", "execute"}
                                /\ s.at = "finish" => s.verdict \in {"completed", "failed"}
    <3> DEFINE s == [task[t] EXCEPT !.at = "run"]
    <3>1. s \in TaskStates /\ s.id = task[t].id /\ s.at = "run"
      BY <1>a DEF TaskStates
    <3>2. task' = [task EXCEPT ![t] = s]
      BY <1>4 DEF StartRun, MaintStep
    <3> HIDE DEF s
    <3>3. QED BY <3>1, <3>2
  <2>3. /\ task' \in [Scheduled -> TaskStates] /\ RunInHand' /\ RunsApart'
        /\ task'[t].id = task[t].id /\ \A u \in Scheduled \ {t} : task'[u] = task[u]
    <3>1. \A u \in Scheduled \ {t} : task[u].id # s.id
      BY <1>a, <2>1, <2>2 DEF RunsApart
    <3>2. QED BY <1>a, <2>1, <2>2, <3>1, TaskMoves
  <2>4. /\ run' \in [1..MaxRuns -> {"none", "queued", "running", "completed", "failed", "interrupted"}]
        /\ \A i \in 1..MaxRuns : i # task[t].id => run'[i] = run[i]
    BY <1>4, <1>a, <2>1 DEF StartRun
  <2>5. AliveHeld'
    BY <1>a, <2>1, <2>3, <2>4 DEF AliveHeld
  <2>6. QED BY <1>a, <2>1, <2>3, <2>4, <2>5 DEF MaintTypeOK, TaskStates
<1>5. ASSUME NEW t \in Scheduled, RunTask(t) PROVE MaintInv'
  <2>1. task[t].id # 0 /\ task[t].id \in 1..MaxRuns /\ UNCHANGED <<service, downs, unwritten>>
    BY <1>5, <1>a, MaintAssumption DEF RunTask, MaintStep, RunInHand, TaskStates
  <2>2. PICK s \in TaskStates : /\ task' = [task EXCEPT ![t] = s]
                                /\ s.id = task[t].id /\ s.at \notin {"wait", "execute"}
                                /\ s.at = "finish" => s.verdict \in {"completed", "failed"}
    <3>1. PICK v \in {"completed", "failed"} :
                 task' = [task EXCEPT ![t] = [task[t] EXCEPT !.at = "finish", !.verdict = v]]
      BY <1>5 DEF RunTask, MaintStep
    <3> DEFINE s == [task[t] EXCEPT !.at = "finish", !.verdict = v]
    <3>2. s \in TaskStates /\ s.id = task[t].id /\ s.at = "finish" /\ s.verdict = v
      BY <1>a DEF TaskStates
    <3> HIDE DEF s
    <3>3. QED BY <3>1, <3>2 DEF s
  <2>3. /\ task' \in [Scheduled -> TaskStates] /\ RunInHand' /\ RunsApart'
        /\ task'[t].id = task[t].id /\ \A u \in Scheduled \ {t} : task'[u] = task[u]
    <3>1. \A u \in Scheduled \ {t} : task[u].id # s.id
      BY <1>a, <2>1, <2>2 DEF RunsApart
    <3>2. QED BY <1>a, <2>1, <2>2, <3>1, TaskMoves
  <2>4. /\ run' \in [1..MaxRuns -> {"none", "queued", "running", "completed", "failed", "interrupted"}]
        /\ \A i \in 1..MaxRuns : run'[i] = run[i] \/ run'[i] = "none"
    BY <1>5, <1>a, <2>1 DEF RunTask
  <2>5. AliveHeld'
    BY <1>a, <2>1, <2>3, <2>4 DEF AliveHeld
  <2>6. QED BY <1>a, <2>1, <2>3, <2>4, <2>5 DEF MaintTypeOK, TaskStates
<1>6. ASSUME NEW t \in Scheduled, FinishRun(t) PROVE MaintInv'
  <2>1. task[t].id # 0 /\ task[t].id \in 1..MaxRuns /\ UNCHANGED <<service, downs>>
        /\ task[t].verdict \in {"completed", "failed"} /\ task' = [task EXCEPT ![t] = Resting]
    BY <1>6, <1>a, MaintAssumption DEF FinishRun, MaintStep, RunInHand, TaskStates
  <2>2. /\ task' \in [Scheduled -> TaskStates] /\ RunInHand' /\ RunsApart'
        /\ \A u \in Scheduled \ {t} : task'[u] = task[u]
    BY <1>a, <1>b, <2>1, TaskMoves
  <2>3. /\ run' \in [1..MaxRuns -> {"none", "queued", "running", "completed", "failed", "interrupted"}]
        /\ \A i \in 1..MaxRuns : i # task[t].id => run'[i] = run[i]
        /\ unwritten \subseteq unwritten' /\ unwritten' \subseteq 1..MaxRuns
        /\ task[t].id \in unwritten' \/ run'[task[t].id] \notin {"queued", "running"}
    BY <1>6, <1>a, <2>1 DEF FinishRun, FinishReaches
  <2>4. AliveHeld'
    BY <1>a, <2>1, <2>2, <2>3 DEF AliveHeld
  <2>5. QED BY <1>a, <2>1, <2>2, <2>3, <2>4 DEF MaintTypeOK, TaskStates
<1>7. CASE MaintDown
  <2>1. MaintTypeOK'
    BY <1>7, <1>a, MaintAssumption DEF MaintDown, MaintTypeOK, TaskStates
  <2>2. QED BY <1>7, <1>a, <2>1 DEF MaintDown, RunInHand, RunsApart, AliveHeld
<1>8. CASE MaintRestart
  <2>1. MaintTypeOK'
    BY <1>8, <1>a, <1>b DEF MaintRestart, LiveRows, MaintTypeOK, TaskStates
  <2>2. QED BY <1>8, <1>a, <1>b, <2>1 DEF MaintRestart, LiveRows, RunInHand, RunsApart, AliveHeld
<1>9. CASE UNCHANGED maintVars
  BY <1>9, <1>a DEF maintVars, MaintTypeOK, TaskStates, RunInHand, RunsApart, AliveHeld
<1>10. QED
  BY <1>1, <1>2, <1>3, <1>4, <1>5, <1>6, <1>7, <1>8, <1>9 DEF MaintNext, MaintRests

\* startJob and finishJob keep the jobs table honest: a row that looks alive is of
\* a run in hand, through shutdowns, crashes, clean-ups and failed statements.
THEOREM MaintRowsReal == MaintSpec => []RunRowsReal
<1>1. MaintInit => MaintInv
  BY MaintAssumption
     DEF MaintInit, MaintInv, MaintTypeOK, RunInHand, RunsApart, AliveHeld, Resting, DueTask
<1>2. MaintInv => RunRowsReal
  BY DEF MaintInv, AliveHeld, RunRowsReal
<1>3. QED BY <1>1, <1>2, MaintStepInv, PTL DEF MaintSpec
-----------------------------------------------------------------------------
(* NNTP client: answers and their commands *)

Talking(c) == call[c].at \in {"GROUP", "OVER", "ALT", "LIST", "BODY"}

\* A caller that talks has a busy connection to itself.
OwnSocket ==
  /\ \A c \in Callers : Talking(c) => call[c].sock \in Sockets /\ sock[call[c].sock].at = "busy"
  /\ \A c, d \in Callers : Talking(c) /\ Talking(d) /\ call[c].sock = call[d].sock => c = d

\* A connection with the rest of a response on it is spent, and a spent one is
\* closed at once; what asks for an overview has its own group selected.
WireClean == \A s \in Sockets : ~sock[s].dirty
GroupSelected ==
  \A c \in Callers : call[c].at \in {"OVER", "ALT"} => sock[call[c].sock].group = call[c].group

NntpInv == NntpTypeOK /\ OwnSocket /\ WireClean /\ GroupSelected /\ OwnAnswer

CallStates == [at : {"none", "acquire", "GROUP", "OVER", "ALT", "LIST", "BODY"},
               op : Ops, group : NewsGroups \cup {NoGroup}, sock : Sockets \cup {0},
               attempt : 0..MaxRetries, foreign : BOOLEAN]

LEMMA NoCallTyped ==
  /\ NoCall \in CallStates /\ NoCall.at = "none" /\ NoCall.foreign = FALSE
  /\ NoSocket \in SocketStates /\ NoSocket.dirty = FALSE
BY NntpAssumption DEF NoCall, NoSocket, CallStates, SocketStates, Ops

\* A call that is over, whatever it read last.
Ended(read) == [NoCall EXCEPT !.foreign = read]

LEMMA EndedTyped ==
  ASSUME NEW read, read = FALSE
  PROVE  Ended(read) \in CallStates /\ Ended(read).at = "none" /\ Ended(read).foreign = FALSE
<1>1. read \in BOOLEAN
  BY Zenon
<1>2. QED BY <1>1, NoCallTyped DEF Ended, CallStates

\* One caller moves, with a connection that no other has.
LEMMA CallMoves ==
  ASSUME NntpInv, NEW c \in Callers, NEW k \in CallStates, k.foreign = FALSE,
         call' = [call EXCEPT ![c] = k],
         NEW s \in Sockets, NEW v \in SocketStates, v.dirty = FALSE,
         sock' = [sock EXCEPT ![s] = v],
         \A d \in Callers \ {c} : Talking(d) => call[d].sock # s,
         k.at \in {"GROUP", "OVER", "ALT", "LIST", "BODY"} => k.sock = s /\ v.at = "busy",
         k.at \in {"OVER", "ALT"} => v.group = k.group
  PROVE  NntpInv'
<1>a. sock \in [Sockets -> SocketStates] /\ call \in [Callers -> CallStates]
  BY DEF NntpInv, NntpTypeOK, CallStates
<1>b. OwnSocket /\ WireClean /\ GroupSelected /\ OwnAnswer
  BY DEF NntpInv
<1>1. /\ call'[c] = k /\ \A d \in Callers \ {c} : call'[d] = call[d]
      /\ sock'[s] = v /\ \A t \in Sockets \ {s} : sock'[t] = sock[t]
  BY <1>a
<1>2. sock' \in [Sockets -> SocketStates] /\ call' \in [Callers -> CallStates]
  BY <1>a
<1>3. OwnSocket'
  BY <1>b, <1>1 DEF OwnSocket, Talking
<1>4. WireClean'
  BY <1>b, <1>1 DEF WireClean
<1>5. GroupSelected'
  <2>1. \A d \in Callers \ {c} : call[d].at \in {"OVER", "ALT"} => call[d].sock \in Sockets \ {s}
    BY <1>b DEF OwnSocket, Talking
  <2>2. QED BY <1>b, <1>1, <2>1 DEF GroupSelected
<1>6. OwnAnswer'
  BY <1>b, <1>1 DEF OwnAnswer
<1>7. QED BY <1>2, <1>3, <1>4, <1>5, <1>6 DEF NntpInv, NntpTypeOK, CallStates

\* One caller moves that does not talk afterwards, and no connection does.
LEMMA CallRests ==
  ASSUME NntpInv, NEW c \in Callers, NEW k \in CallStates, k.foreign = FALSE,
         call' = [call EXCEPT ![c] = k], UNCHANGED sock, k.at \in {"none", "acquire"}
  PROVE  NntpInv'
<1>a. sock \in [Sockets -> SocketStates] /\ call \in [Callers -> CallStates]
  BY DEF NntpInv, NntpTypeOK, CallStates
<1>b. OwnSocket /\ WireClean /\ GroupSelected /\ OwnAnswer
  BY DEF NntpInv
<1>1. call'[c] = k /\ \A d \in Callers \ {c} : call'[d] = call[d]
  BY <1>a
<1>2. call' \in [Callers -> CallStates]
  BY <1>a
<1>3. OwnSocket' /\ WireClean' /\ GroupSelected'
  BY <1>b, <1>1 DEF OwnSocket, Talking, WireClean, GroupSelected
<1>4. OwnAnswer'
  BY <1>b, <1>1 DEF OwnAnswer
<1>5. QED BY <1>a, <1>2, <1>3, <1>4 DEF NntpInv, NntpTypeOK, CallStates

\* What a call is after a failure.
LEMMA AgainTyped ==
  ASSUME NntpInv, NEW c \in Callers
  PROVE  \E k \in CallStates : Again(c) = [call EXCEPT ![c] = k] /\ k.foreign = FALSE
                               /\ k.at \in {"none", "acquire"}
<1>a. call \in [Callers -> CallStates] /\ call[c] \in CallStates
  BY DEF NntpInv, NntpTypeOK, CallStates
<1>b. call[c].foreign = FALSE
  <2>1. call[c].foreign \in BOOLEAN
    BY <1>a DEF CallStates
  <2>2. QED BY <2>1, Zenon DEF NntpInv, OwnAnswer
<1>1. CASE call[c].attempt < MaxRetries
  <2> DEFINE k == [call[c] EXCEPT !.at = "acquire", !.sock = 0, !.attempt = @ + 1]
  <2>1. Again(c) = [call EXCEPT ![c] = k]
    BY <1>1, <1>a DEF Again
  <2>2. call[c].attempt + 1 \in 0..MaxRetries
    BY <1>a, <1>1, NntpAssumption DEF CallStates
  <2>3. k \in CallStates /\ k.at = "acquire" /\ k.foreign = call[c].foreign
    BY <1>a, <2>2 DEF CallStates
  <2> HIDE DEF k
  <2>4. QED BY <1>b, <2>1, <2>3
<1>2. CASE ~(call[c].attempt < MaxRetries)
  <2>1. Again(c) = [call EXCEPT ![c] = Ended(call[c].foreign)]
    BY <1>2 DEF Again, Ended
  <2>2. QED BY <1>b, <2>1, EndedTyped
<1>3. QED BY <1>1, <1>2

\* A call is done with its connection.
LEMMA CallLeaves ==
  ASSUME NntpInv, NEW c \in Callers, Talking(c),
         NEW k \in CallStates, k.foreign = FALSE, k.at \in {"none", "acquire"},
         call' = [call EXCEPT ![c] = k],
         NEW v \in SocketStates, v.dirty = FALSE, sock' = [sock EXCEPT ![call[c].sock] = v]
  PROVE  NntpInv'
<1>1. PICK s \in Sockets : call[c].sock = s /\ \A d \in Callers \ {c} : Talking(d) => call[d].sock # s
  BY DEF NntpInv, OwnSocket
<1>2. k.at \notin {"GROUP", "OVER", "ALT", "LIST", "BODY"}
  OBVIOUS
<1>3. QED BY <1>1, <1>2, CallMoves

\* The call returns or fails, and its connection is idle or closed.
LEMMA ReturnKeeps ==
  ASSUME NntpInv, NEW c \in Callers, Talking(c), NEW k \in SocketStates, NEW read,
         Return(c, k, read), read = FALSE, k.dirty = FALSE \/ k.spent = TRUE
  PROVE  NntpInv'
<1>1. \E v \in SocketStates : v.dirty = FALSE /\ sock' = [sock EXCEPT ![call[c].sock] = v]
  <2>1. CASE k.spent = TRUE
    BY <2>1, NoCallTyped DEF Return, Keeps
  <2>2. CASE k.spent = FALSE /\ k.dirty = FALSE
    <3>1. [k EXCEPT !.at = "idle"] \in SocketStates /\ [k EXCEPT !.at = "idle"].dirty = k.dirty
      BY DEF SocketStates
    <3>2. sock' = [sock EXCEPT ![call[c].sock] = [k EXCEPT !.at = "idle"]]
      BY <2>2 DEF Return, Keeps
    <3>3. QED BY <2>2, <3>1, <3>2
  <2>3. k.spent \in BOOLEAN
    BY DEF SocketStates
  <2>4. QED BY <2>1, <2>2, <2>3
<1>2. call' = [call EXCEPT ![c] = Ended(read)]
  BY DEF Return, Ended
<1>3. \E n \in CallStates : call' = [call EXCEPT ![c] = n] /\ n.at \in {"none", "acquire"}
                            /\ n.foreign = FALSE
  BY <1>2, EndedTyped
<1>4. QED BY <1>1, <1>3, CallLeaves, Zenon

LEMMA FatalKeeps ==
  ASSUME NntpInv, NEW c \in Callers, Talking(c), ConnFatal(c)
  PROVE  NntpInv'
<1>1. \E k \in CallStates : call' = [call EXCEPT ![c] = k] /\ k.foreign = FALSE
                            /\ k.at \in {"none", "acquire"}
  BY AgainTyped DEF ConnFatal
<1>2. \E v \in SocketStates : v.dirty = FALSE /\ sock' = [sock EXCEPT ![call[c].sock] = v]
  BY NoCallTyped DEF ConnFatal
<1>3. QED BY <1>1, <1>2, CallLeaves, Zenon

LEMMA NntpStepInv == NntpInv /\ [NntpNext]_nntpVars => NntpInv'
<1> SUFFICES ASSUME NntpInv, [NntpNext]_nntpVars PROVE NntpInv'
  OBVIOUS
<1>a. sock \in [Sockets -> SocketStates] /\ call \in [Callers -> CallStates]
  BY DEF NntpInv, NntpTypeOK, CallStates
<1>b. OwnSocket /\ WireClean /\ GroupSelected /\ OwnAnswer
  BY DEF NntpInv
<1>c. ASSUME NEW c \in Callers, Talking(c)
      PROVE  /\ sock[call[c].sock] \in SocketStates /\ sock[call[c].sock].dirty = FALSE
             /\ Foreign(c) = FALSE
             /\ call[c].at \in {"OVER", "ALT"} => OverviewOf(c) = FALSE
  <2>1. call[c].sock \in Sockets
    BY <1>b, <1>c DEF OwnSocket
  <2>2. sock[call[c].sock] \in SocketStates /\ call[c] \in CallStates
    BY <1>a, <2>1
  <2>3. sock[call[c].sock].dirty \in BOOLEAN /\ call[c].foreign \in BOOLEAN
    BY <2>2 DEF SocketStates, CallStates
  <2>4. sock[call[c].sock].dirty = FALSE
    BY <1>b, <2>1, <2>3, Zenon DEF WireClean
  <2>5. call[c].foreign = FALSE
    BY <1>b, <2>3, Zenon DEF OwnAnswer
  <2>6. Foreign(c) = FALSE
    BY <2>4, <2>5, Zenon DEF Foreign
  <2>7. call[c].at \in {"OVER", "ALT"} => OverviewOf(c) = FALSE
    BY <1>b, <2>6, Zenon DEF OverviewOf, GroupSelected
  <2>8. QED BY <2>2, <2>4, <2>6, <2>7
<1>1. ASSUME NEW c \in Callers, NEW op \in Ops, NEW g \in NewsGroups, Call(c, op, g) PROVE NntpInv'
  <2> DEFINE k == [NoCall EXCEPT !.at = "acquire", !.op = op, !.group = g]
  <2>2. k \in CallStates /\ k.foreign = FALSE /\ k.at = "acquire"
    BY NoCallTyped DEF CallStates
  <2>3. call' = [call EXCEPT ![c] = k] /\ UNCHANGED sock
    BY <1>1 DEF Call
  <2> HIDE DEF k
  <2>4. QED BY <2>2, <2>3, CallRests
<1>2. ASSUME NEW c \in Callers, NEW s \in Sockets, Acquire(c, s) PROVE NntpInv'
  <2> DEFINE k == [call[c] EXCEPT !.at = FirstCommand(call[c].op), !.sock = s]
             v == [sock[s] EXCEPT !.at = "busy"]
  <2>1. call' = [call EXCEPT ![c] = k] /\ sock' = [sock EXCEPT ![s] = v] /\ sock[s].at # "busy"
    BY <1>2, <1>a DEF Acquire
  <2>2. call[c] \in CallStates /\ sock[s] \in SocketStates
    BY <1>a
  <2>3. FirstCommand(call[c].op) \in {"GROUP", "LIST", "BODY"}
    BY <2>2 DEF CallStates, Ops, FirstCommand
  <2>4. k \in CallStates /\ k.at \in {"GROUP", "LIST", "BODY"} /\ k.sock = s /\ k.foreign = call[c].foreign
    BY <2>2, <2>3 DEF CallStates
  <2>5. v \in SocketStates /\ v.at = "busy" /\ v.dirty = sock[s].dirty
    BY <2>2 DEF SocketStates
  <2>6. sock[s].dirty = FALSE /\ call[c].foreign = FALSE
    <3>1. sock[s].dirty \in BOOLEAN /\ call[c].foreign \in BOOLEAN
      BY <2>2 DEF SocketStates, CallStates
    <3>2. QED BY <1>b, <3>1, Zenon DEF WireClean, OwnAnswer
  <2>7. \A d \in Callers \ {c} : Talking(d) => call[d].sock # s
    BY <1>b, <2>1 DEF OwnSocket
  <2> HIDE DEF k, v
  <2>8. /\ k.foreign = FALSE /\ v.dirty = FALSE
        /\ k.at \in {"GROUP", "OVER", "ALT", "LIST", "BODY"} => k.sock = s /\ v.at = "busy"
        /\ k.at \in {"OVER", "ALT"} => v.group = k.group
    BY <2>4, <2>5, <2>6
  <2>9. k \in CallStates /\ v \in SocketStates
    BY <2>4, <2>5
  <2>10. QED BY <2>1, <2>7, <2>8, <2>9, CallMoves, Zenon
<1>3. ASSUME NEW c \in Callers, DialFails(c) PROVE NntpInv'
  <2>1. QED BY <1>3, AgainTyped, CallRests DEF DialFails
<1>4. ASSUME NEW c \in Callers, Breaks(c) PROVE NntpInv'
  BY <1>4, FatalKeeps DEF Breaks, Talking
<1>5. ASSUME NEW c \in Callers, SelectGroup(c) PROVE NntpInv'
  <2> DEFINE k == [sock[call[c].sock] EXCEPT !.group = call[c].group]
  <2>1. Talking(c) /\ call[c] \in CallStates
    BY <1>5, <1>a DEF SelectGroup, Talking
  <2>2. k \in SocketStates /\ k.dirty = FALSE /\ k.group = call[c].group /\ k.at = sock[call[c].sock].at
    BY <1>c, <2>1 DEF SocketStates, CallStates
  <2>3. CASE Return(c, k, Foreign(c)) \/ Return(c, sock[call[c].sock], Foreign(c))
    <3> HIDE DEF k
    <3>1. QED BY <1>c, <2>1, <2>2, <2>3, ReturnKeeps
  <2>4. CASE /\ sock' = [sock EXCEPT ![call[c].sock] = k]
             /\ call' = [call EXCEPT ![c].at = "OVER", ![c].foreign = Foreign(c)]
    <3> DEFINE n == [call[c] EXCEPT !.at = "OVER", !.foreign = Foreign(c)]
    <3>1. call' = [call EXCEPT ![c] = n]
      BY <2>4, <1>a
    <3>2. Foreign(c) \in BOOLEAN /\ Foreign(c) = FALSE
      BY <1>c, <2>1, Zenon
    <3>3. /\ n \in CallStates /\ n.at = "OVER" /\ n.sock = call[c].sock /\ n.group = call[c].group
          /\ n.foreign = Foreign(c)
      BY <2>1, <3>2 DEF CallStates
    <3>4. PICK s \in Sockets : /\ call[c].sock = s /\ sock[s].at = "busy"
                               /\ \A d \in Callers \ {c} : Talking(d) => call[d].sock # s
      BY <1>b, <2>1 DEF OwnSocket
    <3> HIDE DEF n, k
    <3>5. n.foreign = FALSE
      BY <3>2, <3>3, Zenon
    <3>6. /\ n \in CallStates /\ n.foreign = FALSE /\ call' = [call EXCEPT ![c] = n]
          /\ k \in SocketStates /\ k.dirty = FALSE /\ sock' = [sock EXCEPT ![s] = k]
          /\ n.at \in {"GROUP", "OVER", "ALT", "LIST", "BODY"} => n.sock = s /\ k.at = "busy"
          /\ n.at \in {"OVER", "ALT"} => k.group = n.group
      BY <2>2, <2>4, <3>1, <3>3, <3>4, <3>5
    <3>7. \A d \in Callers \ {c} : Talking(d) => call[d].sock # s
      BY <3>4
    <3>8. QED BY <3>6, <3>7, CallMoves, Zenon
  <2>5. QED BY <1>5, <2>3, <2>4 DEF SelectGroup
<1>6. ASSUME NEW c \in Callers, Overview(c) PROVE NntpInv'
  <2> DEFINE first == IF sock[call[c].sock].overCmd = "" THEN "XOVER" ELSE sock[call[c].sock].overCmd
             k == [sock[call[c].sock] EXCEPT !.overCmd = first]
  <2>1. Talking(c) /\ call[c] \in CallStates /\ call[c].at = "OVER"
    BY <1>6, <1>a DEF Overview, Talking
  <2>2. sock[call[c].sock] \in SocketStates /\ sock[call[c].sock].dirty = FALSE /\ OverviewOf(c) = FALSE
    BY <1>c, <2>1
  <2>3. /\ k \in SocketStates /\ k.dirty = sock[call[c].sock].dirty
        /\ k.group = sock[call[c].sock].group /\ k.at = sock[call[c].sock].at
    BY <2>2 DEF SocketStates
  <2>4. CASE Return(c, k, OverviewOf(c))
    <3> HIDE DEF k
    <3>1. QED BY <2>1, <2>2, <2>3, <2>4, ReturnKeeps
  <2>5. CASE /\ sock' = [sock EXCEPT ![call[c].sock].overCmd = first]
             /\ call' = [call EXCEPT ![c].at = "ALT"]
    <3> DEFINE n == [call[c] EXCEPT !.at = "ALT"]
    <3>1. call' = [call EXCEPT ![c] = n] /\ sock' = [sock EXCEPT ![call[c].sock] = k]
      BY <2>5, <1>a
    <3>2. /\ n \in CallStates /\ n.at = "ALT" /\ n.sock = call[c].sock /\ n.group = call[c].group
          /\ n.foreign = call[c].foreign
      BY <2>1 DEF CallStates
    <3>3. call[c].foreign = FALSE
      <4>1. call[c].foreign \in BOOLEAN
        BY <2>1 DEF CallStates
      <4>2. QED BY <1>b, <4>1, Zenon DEF OwnAnswer
    <3>4. PICK s \in Sockets : /\ call[c].sock = s /\ sock[s].at = "busy"
                               /\ \A d \in Callers \ {c} : Talking(d) => call[d].sock # s
      BY <1>b, <2>1 DEF OwnSocket
    <3>5. sock[call[c].sock].group = call[c].group
      BY <1>b, <2>1 DEF GroupSelected
    <3> HIDE DEF n, k
    <3>6. /\ n \in CallStates /\ n.foreign = FALSE /\ call' = [call EXCEPT ![c] = n]
          /\ k \in SocketStates /\ k.dirty = FALSE /\ sock' = [sock EXCEPT ![s] = k]
          /\ n.at \in {"GROUP", "OVER", "ALT", "LIST", "BODY"} => n.sock = s /\ k.at = "busy"
          /\ n.at \in {"OVER", "ALT"} => k.group = n.group
      BY <2>2, <2>3, <3>1, <3>2, <3>3, <3>4, <3>5
    <3>7. \A d \in Callers \ {c} : Talking(d) => call[d].sock # s
      BY <3>4
    <3>8. QED BY <3>6, <3>7, CallMoves, Zenon
  <2>6. QED BY <1>6, <2>4, <2>5 DEF Overview
<1>7. ASSUME NEW c \in Callers, OverviewAlt(c) PROVE NntpInv'
  <2> DEFINE alt == IF sock[call[c].sock].overCmd = "OVER" THEN "XOVER" ELSE "OVER"
             k == [sock[call[c].sock] EXCEPT !.overCmd = alt]
  <2>1. Talking(c) /\ call[c].at = "ALT"
    BY <1>7 DEF OverviewAlt, Talking
  <2>2. /\ sock[call[c].sock] \in SocketStates /\ sock[call[c].sock].dirty = FALSE
        /\ OverviewOf(c) = FALSE /\ Foreign(c) = FALSE
    BY <1>c, <2>1
  <2>3. k \in SocketStates /\ k.dirty = sock[call[c].sock].dirty
    BY <2>2 DEF SocketStates
  <2>4. Return(c, k, OverviewOf(c)) \/ Return(c, sock[call[c].sock], Foreign(c))
    BY <1>7 DEF OverviewAlt
  <2> HIDE DEF k
  <2>5. QED BY <2>1, <2>2, <2>3, <2>4, ReturnKeeps
<1>8. ASSUME NEW c \in Callers, ListOrBody(c) PROVE NntpInv'
  <2>1. Talking(c) /\ Return(c, sock[call[c].sock], Foreign(c))
    BY <1>8 DEF ListOrBody, Talking
  <2>2. QED BY <1>c, <2>1, ReturnKeeps
<1>9. ASSUME NEW c \in Callers, BodyHeader(c) PROVE NntpInv'
  <2> DEFINE k == [sock[call[c].sock] EXCEPT !.dirty = TRUE, !.spent = TRUE]
  <2>1. Talking(c)
    BY <1>9 DEF BodyHeader, Talking
  <2>2. /\ sock[call[c].sock] \in SocketStates /\ sock[call[c].sock].dirty = FALSE /\ Foreign(c) = FALSE
    BY <1>c, <2>1
  <2>3. k \in SocketStates /\ k.spent = TRUE
    BY <2>2 DEF SocketStates
  <2>4. Return(c, sock[call[c].sock], Foreign(c)) \/ Return(c, k, Foreign(c)) \/ ConnFatal(c)
    BY <1>9 DEF BodyHeader
  <2> HIDE DEF k
  <2>5. QED BY <2>1, <2>2, <2>3, <2>4, ReturnKeeps, FatalKeeps
<1>10. ASSUME NEW s \in Sockets, HangUp(s) PROVE NntpInv'
  <2>1. sock[s].at = "idle" /\ sock' = [sock EXCEPT ![s] = NoSocket] /\ UNCHANGED call
    BY <1>10 DEF HangUp
  <2>2. \A c \in Callers : Talking(c) => call[c].sock \in Sockets \ {s}
    BY <1>b, <2>1 DEF OwnSocket
  <2>3. sock' \in [Sockets -> SocketStates] /\ \A t \in Sockets \ {s} : sock'[t] = sock[t]
    BY <1>a, <2>1, NoCallTyped
  <2>4. WireClean'
    BY <1>a, <1>b, <2>1, <2>3, NoCallTyped DEF WireClean
  <2>5. OwnSocket' /\ GroupSelected'
    BY <1>b, <2>1, <2>2, <2>3 DEF OwnSocket, GroupSelected, Talking
  <2>6. QED BY <1>a, <1>b, <2>1, <2>3, <2>4, <2>5 DEF NntpInv, NntpTypeOK, CallStates, OwnAnswer
<1>11. CASE UNCHANGED nntpVars
  BY <1>11 DEF nntpVars, NntpInv, NntpTypeOK, OwnSocket, Talking, WireClean, GroupSelected, OwnAnswer
<1>12. QED
  BY <1>1, <1>2, <1>3, <1>4, <1>5, <1>6, <1>7, <1>8, <1>9, <1>10, <1>11 DEF NntpNext

\* No call reads another command's answer or another group's overview: bodyHeader
\* leaves its response on the wire, and spentConn keeps that out of the pool.
THEOREM AnswersAreOwn == NntpSpec => []OwnAnswer
<1>1. NntpInit => NntpInv
  <2> SUFFICES ASSUME NntpInit PROVE NntpInv
    OBVIOUS
  <2>1. sock \in [Sockets -> SocketStates] /\ call \in [Callers -> CallStates]
    BY NoCallTyped DEF NntpInit
  <2>2. /\ \A s \in Sockets : sock[s].dirty = FALSE
        /\ \A c \in Callers : call[c].at = "none" /\ call[c].foreign = FALSE
    BY NoCallTyped DEF NntpInit
  <2>3. OwnSocket /\ GroupSelected
    BY <2>2 DEF OwnSocket, GroupSelected, Talking
  <2>4. WireClean /\ OwnAnswer
    BY <2>2, Zenon DEF WireClean, OwnAnswer
  <2>5. QED BY <2>1, <2>3, <2>4 DEF NntpInv, NntpTypeOK, CallStates
<1>2. NntpInv => OwnAnswer
  BY DEF NntpInv
<1>3. QED BY <1>1, <1>2, NntpStepInv, PTL DEF NntpSpec
-----------------------------------------------------------------------------
(* Enrichment: a row is final *)

\* What the pass knows of its item: the providers in found have its name, the
\* best has it, and without an error or a match nobody asked so far has it; and
\* the names that were listed are those of the releases not renamed since.
EnrichFields == {"at", "items", "names", "ask", "best", "hadErr", "found"}
EnrichShape ==
  /\ meta \in [TvReleases -> ProviderSet \cup {"miss", "none"}]
  /\ ident = [r \in TvReleases |-> ident[r]]
  /\ title = [r \in TvReleases |-> title[r]]
  /\ asked = [r \in TvReleases |-> asked[r]]
  /\ tv \subseteq TvReleases
  /\ enrich.ask \in Seq(ProviderSet) /\ enrich.found \subseteq ProviderSet
  /\ enrich.best \in ProviderSet \cup {"miss"}
  /\ DOMAIN enrich = EnrichFields
LearnedTrue ==
  enrich.at # "idle" =>
    /\ \A p \in enrich.found : Asked \in Knows[p]
    /\ enrich.best \in ProviderSet => Asked \in Knows[enrich.best]
    /\ enrich.best = "miss" /\ ~enrich.hadErr =>
         \A p \in ProviderSet : Asked \in Knows[p] => p \in Range(enrich.ask)

NamesKept == enrich.at # "idle" => \A r \in TvReleases \ renamed : enrich.names[r] = title[r]

EnrichInv == EnrichShape /\ LearnedTrue /\ NamesKept /\ MissIsDefinitive

LEMMA AskHead ==
  ASSUME NEW S, NEW q \in Seq(S), q # <<>>
  PROVE  Head(q) \in S /\ Tail(q) \in Seq(S) /\ Range(q) = {Head(q)} \cup Range(Tail(q))
<1>1. Head(q) \in S /\ Tail(q) \in Seq(S)
  OBVIOUS
<1>2. \A i \in DOMAIN q : i = 1 \/ (i - 1 \in DOMAIN Tail(q) /\ Tail(q)[i - 1] = q[i])
  OBVIOUS
<1>3. \A i \in DOMAIN Tail(q) : i + 1 \in DOMAIN q /\ Tail(q)[i] = q[i + 1]
  OBVIOUS
<1>4. 1 \in DOMAIN q /\ q[1] = Head(q)
  OBVIOUS
<1>5. Range(q) \subseteq {Head(q)} \cup Range(Tail(q))
  BY <1>2, <1>4, ZenonT(40) DEF Range
<1>6. {Head(q)} \cup Range(Tail(q)) \subseteq Range(q)
  BY <1>3, <1>4 DEF Range
<1>7. QED BY <1>1, <1>5, <1>6

LEMMA AskFresh ==
  ASSUME NEW items, NEW names, enrich' = Ask(items, names), EnrichShape,
         items # <<>> => \A r \in TvReleases \ renamed' : names[r] = title[r],
         UNCHANGED <<tv, title, meta, ident, asked>>
  PROVE  EnrichShape' /\ LearnedTrue' /\ NamesKept'
<1>a. Providers \in Seq(ProviderSet) /\ "miss" \notin ProviderSet
  BY EnrichAssumption DEF ProviderSet
<1>b. <<>> \in Seq(ProviderSet)
  OBVIOUS
<1>1. /\ enrich'.ask \in Seq(ProviderSet) /\ enrich'.found = {} /\ enrich'.best = "miss"
      /\ enrich'.at # "idle" => enrich'.ask = Providers /\ enrich'.names = names /\ items # <<>>
      /\ DOMAIN enrich' = EnrichFields
  BY <1>a, <1>b DEF Ask, NoEnrich, EnrichFields
<1>2. EnrichShape'
  BY <1>1 DEF EnrichShape
<1>3. LearnedTrue'
  BY <1>a, <1>1 DEF LearnedTrue, ProviderSet
<1>4. NamesKept'
  BY <1>1 DEF NamesKept
<1>5. QED BY <1>2, <1>3, <1>4

LEMMA EnrichStepInv == EnrichInv /\ [EnrichNext]_enrichVars => EnrichInv'
<1> SUFFICES ASSUME EnrichInv, [EnrichNext]_enrichVars PROVE EnrichInv'
  OBVIOUS
<1>a. EnrichShape /\ LearnedTrue /\ NamesKept /\ MissIsDefinitive
  BY DEF EnrichInv
<1>b. {"miss", "none"} \cap ProviderSet = {}
  BY EnrichAssumption DEF ProviderSet
<1>1. CASE RunEnrich
  <2>1. EnrichShape' /\ LearnedTrue' /\ NamesKept'
    BY <1>1, <1>a, AskFresh DEF RunEnrich
  <2>2. MissIsDefinitive'
    BY <1>1, <1>a DEF RunEnrich, MissIsDefinitive
  <2>3. QED BY <2>1, <2>2 DEF EnrichInv
<1>2. CASE Lookup
  <2> DEFINE p == Head(enrich.ask)
  <2>1. enrich.at = "lookup" /\ enrich.ask # <<>> /\ UNCHANGED enrichRows
    BY <1>2 DEF Lookup
  <2>2. p \in ProviderSet /\ Tail(enrich.ask) \in Seq(ProviderSet)
        /\ Range(enrich.ask) = {p} \cup Range(Tail(enrich.ask))
    BY <1>a, <2>1, AskHead DEF EnrichShape
  <2> HIDE DEF p
  <2>3. /\ enrich'.at = "lookup" /\ Item' = Item /\ Asked' = Asked /\ enrich'.names = enrich.names /\ enrich'.ask = Tail(enrich.ask)
        /\ DOMAIN enrich' = EnrichFields
        /\ \/ /\ Asked \in Knows[p] /\ enrich'.found = enrich.found \cup {p}
              /\ enrich'.best = IF enrich.best = "miss" THEN p ELSE enrich.best
           \/ /\ Asked \notin Knows[p] /\ enrich'.found = enrich.found /\ enrich'.best = enrich.best
              /\ enrich'.hadErr = enrich.hadErr
           \/ enrich'.found = enrich.found /\ enrich'.best = enrich.best /\ enrich'.hadErr = TRUE
    <3>1. DOMAIN enrich = EnrichFields
      BY <1>a DEF EnrichShape
    <3>2. CASE /\ Asked \in Knows[p]
               /\ enrich' = [enrich EXCEPT !.ask = Tail(@), !.found = @ \cup {p},
                                           !.best = IF @ = "miss" THEN p ELSE @]
      BY <2>1, <3>1, <3>2 DEF Item, Asked, EnrichFields
    <3>3. CASE Asked \notin Knows[p] /\ enrich' = [enrich EXCEPT !.ask = Tail(@)]
      BY <2>1, <3>1, <3>3 DEF Item, Asked, EnrichFields
    <3>4. CASE enrich' = [enrich EXCEPT !.ask = Tail(@), !.hadErr = TRUE]
      BY <2>1, <3>1, <3>4 DEF Item, Asked, EnrichFields
    <3>5. QED BY <1>2, <3>2, <3>3, <3>4 DEF Lookup, p
  <2>4. EnrichShape'
    BY <1>a, <2>1, <2>2, <2>3 DEF EnrichShape, enrichRows
  <2>5. LearnedTrue'
    BY <1>a, <1>b, <2>1, <2>2, <2>3 DEF LearnedTrue
  <2>6. NamesKept' /\ MissIsDefinitive'
    BY <1>a, <2>1, <2>3 DEF NamesKept, MissIsDefinitive, enrichRows
  <2>7. QED BY <2>4, <2>5, <2>6 DEF EnrichInv
<1>3. CASE Skip \/ NextItem
  <2>1. /\ enrich' = Ask(Tail(enrich.items), enrich.names) /\ UNCHANGED enrichRows
        /\ enrich.at # "idle"
    BY <1>3 DEF Skip, NextItem
  <2>2. EnrichShape' /\ LearnedTrue' /\ NamesKept'
    BY <1>a, <2>1, AskFresh DEF enrichRows, NamesKept
  <2>3. MissIsDefinitive'
    BY <1>a, <2>1 DEF MissIsDefinitive, enrichRows
  <2>4. QED BY <2>2, <2>3 DEF EnrichInv
<1>4. CASE UpsertReleaseMetadata
  <2>1. /\ enrich.at = "lookup" /\ enrich.ask = <<>> /\ ~NothingLearned
        /\ UNCHANGED <<tv, title, ident, renamed>>
        /\ enrich' = [enrich EXCEPT !.at = "identifiers"]
    BY <1>4 DEF UpsertReleaseMetadata
  <2>2. /\ enrich'.at = "identifiers" /\ Item' = Item /\ Asked' = Asked /\ enrich'.names = enrich.names /\ enrich'.ask = enrich.ask
        /\ enrich'.best = enrich.best /\ enrich'.hadErr = enrich.hadErr /\ enrich'.found = enrich.found
        /\ DOMAIN enrich' = EnrichFields
    BY <1>a, <2>1 DEF EnrichShape, Item, Asked, EnrichFields
  <2>3. enrich.best = "miss" => \A p \in ProviderSet : Asked \notin Knows[p]
    <3>1. Range(enrich.ask) = {}
      BY <2>1 DEF Range
    <3>2. QED BY <1>a, <2>1, <3>1 DEF LearnedTrue, NothingLearned
  <2>4. \/ UNCHANGED <<meta, asked>>
        \/ /\ Item \in TvReleases
           /\ meta' = [meta EXCEPT ![Item] = enrich.best]
           /\ asked' = [asked EXCEPT ![Item] = Asked]
    BY <1>4, <1>a DEF UpsertReleaseMetadata, EnrichShape
  <2>5. EnrichShape'
    BY <1>a, <2>1, <2>2, <2>4 DEF EnrichShape
  <2>6. LearnedTrue' /\ NamesKept'
    BY <1>a, <2>1, <2>2 DEF LearnedTrue, NamesKept
  <2>7. MissIsDefinitive'
    <3>1. CASE UNCHANGED <<meta, asked>>
      BY <1>a, <2>1, <3>1 DEF MissIsDefinitive
    <3>2. CASE /\ Item \in TvReleases
               /\ meta' = [meta EXCEPT ![Item] = enrich.best]
               /\ asked' = [asked EXCEPT ![Item] = Asked]
      <4>1. /\ meta'[Item] = enrich.best /\ asked'[Item] = Asked
            /\ \A r \in TvReleases \ {Item} : meta'[r] = meta[r] /\ asked'[r] = asked[r]
        BY <1>a, <3>2 DEF EnrichShape
      <4>2. Item \notin renamed => Asked = title[Item]
        BY <1>a, <2>1, <3>2 DEF NamesKept, Asked
      <4>3. /\ enrich.best \in ProviderSet => Asked \in Knows[enrich.best]
        BY <1>a, <2>1 DEF LearnedTrue
      <4>4. QED BY <1>a, <2>1, <2>3, <4>1, <4>2, <4>3 DEF MissIsDefinitive
    <3>3. QED BY <2>4, <3>1, <3>2
  <2>8. QED BY <2>5, <2>6, <2>7 DEF EnrichInv
<1>5. CASE AddReleaseIdentifier
  <2>1. PICK p \in enrich.found : /\ ident' = ident \/ (Item \in tv /\ ident' = [ident EXCEPT ![Item] = @ \cup {<<p, Asked>>}])
                                  /\ enrich' = [enrich EXCEPT !.found = @ \ {p}]
    BY <1>5 DEF AddReleaseIdentifier
  <2>2. enrich.at = "identifiers" /\ UNCHANGED <<tv, title, meta, asked, renamed>>
    BY <1>5 DEF AddReleaseIdentifier
  <2>3. /\ enrich'.at = enrich.at /\ Item' = Item /\ Asked' = Asked /\ enrich'.names = enrich.names /\ enrich'.ask = enrich.ask
        /\ enrich'.best = enrich.best /\ enrich'.hadErr = enrich.hadErr
        /\ enrich'.found = enrich.found \ {p}
        /\ DOMAIN enrich' = EnrichFields
    BY <1>a, <2>1 DEF EnrichShape, Item, Asked, EnrichFields
  <2>4. p \in ProviderSet /\ Asked \in Knows[p]
    BY <1>a, <2>2 DEF EnrichShape, LearnedTrue
  <2>5. EnrichShape'
    BY <1>a, <2>1, <2>2, <2>3, <2>4 DEF EnrichShape
  <2>6. LearnedTrue' /\ NamesKept'
    BY <1>a, <2>2, <2>3 DEF LearnedTrue, NamesKept
  <2>7. MissIsDefinitive'
    <3>1. \A r \in TvReleases : ident'[r] \subseteq ident[r] \cup {<<p, Asked>>}
      <4>1. CASE ident' = ident
        BY <4>1
      <4>2. CASE ident' = [ident EXCEPT ![Item] = @ \cup {<<p, Asked>>}]
        <5> SUFFICES ASSUME NEW r \in TvReleases
                     PROVE  ident'[r] \subseteq ident[r] \cup {<<p, Asked>>}
          OBVIOUS
        <5>1. ident'[r] = IF r = Item THEN ident[r] \cup {<<p, Asked>>} ELSE ident[r]
          BY <1>a, <4>2, Zenon DEF EnrichShape
        <5>2. QED BY <5>1
      <4>3. QED BY <2>1, <4>1, <4>2
    <3>2. \A r \in TvReleases : \A i \in ident'[r] : i[2] \in Knows[i[1]]
      BY <1>a, <2>4, <3>1 DEF MissIsDefinitive
    <3>3. QED BY <1>a, <2>2, <3>2 DEF MissIsDefinitive
  <2>8. QED BY <2>5, <2>6, <2>7 DEF EnrichInv
<1>6. CASE EnrichStops
  <2>1. enrich' = Ask(<<>>, <<>>) /\ UNCHANGED enrichRows
    BY <1>6 DEF EnrichStops, Ask
  <2>2. EnrichShape' /\ LearnedTrue' /\ NamesKept'
    BY <1>a, <2>1, AskFresh DEF enrichRows
  <2>3. MissIsDefinitive'
    BY <1>a, <2>1 DEF MissIsDefinitive, enrichRows
  <2>4. QED BY <2>2, <2>3 DEF EnrichInv
<1>7. ASSUME NEW r \in TvReleases, DeleteTvRelease(r) PROVE EnrichInv'
  <2>1. EnrichShape'
    BY <1>7, <1>a DEF DeleteTvRelease, EnrichShape
  <2>2. LearnedTrue' /\ NamesKept'
    BY <1>7, <1>a DEF DeleteTvRelease, LearnedTrue, NamesKept, Item, Asked
  <2>3. MissIsDefinitive'
    BY <1>7, <1>a, <1>b DEF DeleteTvRelease, MissIsDefinitive, EnrichShape
  <2>4. QED BY <2>1, <2>2, <2>3 DEF EnrichInv
<1>8. ASSUME NEW r \in TvReleases, NEW name \in Titles, Rename(r, name) PROVE EnrichInv'
  <2>1. EnrichShape'
    BY <1>8, <1>a DEF Rename, EnrichShape
  <2>2. \A q \in TvReleases \ renamed' : q \notin renamed /\ title'[q] = title[q]
    BY <1>8, <1>a DEF Rename, EnrichShape
  <2>3. LearnedTrue' /\ NamesKept'
    BY <1>8, <1>a, <2>2 DEF Rename, LearnedTrue, NamesKept, Item, Asked
  <2>4. MissIsDefinitive'
    BY <1>8, <1>a, <2>2 DEF Rename, MissIsDefinitive
  <2>5. QED BY <2>1, <2>3, <2>4 DEF EnrichInv
<1>9. CASE UNCHANGED enrichVars
  <2>1. EnrichShape' /\ LearnedTrue' /\ NamesKept'
    BY <1>9, <1>a DEF enrichVars, EnrichShape, LearnedTrue, NamesKept, Item, Asked
  <2>2. MissIsDefinitive'
    BY <1>9, <1>a DEF enrichVars, MissIsDefinitive
  <2>3. QED BY <2>1, <2>2 DEF EnrichInv
<1>10. QED BY <1>1, <1>2, <1>3, <1>4, <1>5, <1>6, <1>7, <1>8, <1>9 DEF EnrichNext

\* Service.Run records a miss only under a name that no provider has and a match
\* only of a provider that has the name, whatever fails on the way, and the name
\* is that of the release unless post-processing renamed it since it was listed.
THEOREM MissesAreFinal == EnrichSpec => []MissIsDefinitive
<1>1. EnrichInit => EnrichInv
  <2> SUFFICES ASSUME EnrichInit PROVE EnrichInv
    OBVIOUS
  <2>1. {"miss", "none"} \cap ProviderSet = {} /\ <<>> \in Seq(ProviderSet)
    BY EnrichAssumption DEF ProviderSet
  <2>2. EnrichShape
    BY <2>1 DEF EnrichInit, EnrichShape, NoEnrich, EnrichFields
  <2>3. LearnedTrue /\ NamesKept
    BY DEF EnrichInit, LearnedTrue, NamesKept, NoEnrich
  <2>4. MissIsDefinitive
    BY <2>1 DEF EnrichInit, MissIsDefinitive
  <2>5. QED BY <2>2, <2>3, <2>4 DEF EnrichInv
<1>2. EnrichInv => MissIsDefinitive
  BY DEF EnrichInv
<1>3. QED BY <1>1, <1>2, EnrichStepInv, PTL DEF EnrichSpec
-----------------------------------------------------------------------------
(* The connection budget *)

BudgetInv == BudgetHolds /\ setup \in BudgetInputs /\ Validate(setup)

\* Both stages have a worker, and together they fill the budget or what was asked.
LEMMA FitFits ==
  ASSUME NEW scan \in Nat \ {0}, NEW pp \in Nat \ {0}, NEW budget \in Nat \ {0}
  PROVE  LET fit == fitWithinBudget(scan, pp, budget)
         IN /\ fit[1] \in Nat \ {0} /\ fit[2] \in Nat \ {0}
            /\ \/ fit[1] + fit[2] = scan + pp /\ scan + pp <= budget
               \/ fit[1] + fit[2] = budget
               \/ budget = 1
<1> DEFINE q == (budget * scan) \div (scan + pp)
           s == clamp(q, 1, budget - 1)
<1>1. q \in Int
  <2>1. budget * scan \in Int /\ scan + pp \in Nat \ {0}
    OBVIOUS
  <2>2. QED BY <2>1
<1>2. CASE scan + pp <= budget
  BY <1>2 DEF fitWithinBudget
<1>3. CASE scan + pp > budget /\ budget <= 2
  BY <1>3 DEF fitWithinBudget
<1>4. CASE scan + pp > budget /\ budget > 2
  <2>1. s \in 1..(budget - 1)
    <3> HIDE DEF q
    <3>1. QED BY <1>1, <1>4 DEF clamp
  <2>2. fitWithinBudget(scan, pp, budget) = <<s, budget - s>>
    BY <1>4 DEF fitWithinBudget
  <2> HIDE DEF s
  <2>3. QED BY <2>1, <2>2
<1>5. QED BY <1>2, <1>3, <1>4

LEMMA BudgetStarts ==
  ASSUME BudgetInv, StartWorkers
  PROVE  BudgetHolds'
<1> DEFINE reserved == clamp(IF setup.reserved < 0 THEN defaultReservedAPIConns(setup.db) ELSE setup.reserved,
                             0, setup.db - 1)
           pipeline == setup.db - reserved
           half == setup.nntp \div 2
           want == clamp(half, 1, 8)
           pp == clamp(half, 1, 4)
           fit == IF setup.scan > 0 THEN <<setup.scan, pp>> ELSE fitWithinBudget(want, pp, pipeline)
<1>a. /\ setup.db \in Int /\ setup.db > 0 /\ setup.reserved \in Int /\ setup.reserved < setup.db
      /\ setup.nntp \in Int /\ setup.nntp > 0 /\ setup.scan \in Int /\ setup.scan >= 0
  BY BudgetAssumption DEF BudgetInv, Validate
<1>1. half \in Int
  BY <1>a
<1>2. want \in Nat \ {0} /\ pp \in Nat \ {0}
  <2> HIDE DEF half
  <2>1. want \in 1..8 /\ pp \in 1..4
    BY <1>1 DEF clamp
  <2>2. QED BY <2>1
<1>3. reserved \in 0..(setup.db - 1) /\ (setup.reserved < 0 /\ setup.db > 1 => reserved >= 1)
  <2>1. CASE setup.reserved >= 0
    BY <1>a, <2>1 DEF clamp
  <2>2. CASE setup.reserved < 0 /\ setup.db <= 1
    BY <1>a, <2>2 DEF defaultReservedAPIConns, clamp
  <2>3. CASE setup.reserved < 0 /\ setup.db > 1
    <3> DEFINE d == defaultReservedAPIConns(setup.db)
    <3>1. PICK m \in Int : m = clamp(setup.db \div 4, 1, 4)
      <4>1. setup.db \div 4 \in Int
        BY <1>a
      <4>2. QED BY <4>1 DEF clamp
    <3>2. d \in 1..(setup.db - 1)
      <4>1. d = clamp(m, 1, setup.db - 1)
        BY <1>a, <2>3, <3>1 DEF defaultReservedAPIConns
      <4> HIDE DEF d
      <4>2. QED BY <1>a, <2>3, <4>1 DEF clamp
    <3>3. reserved = clamp(d, 0, setup.db - 1)
      BY <2>3
    <3> HIDE DEF d, reserved
    <3>4. d \in 0..(setup.db - 1) /\ d \in Int
      BY <1>a, <3>2
    <3>5. reserved = d
      BY <1>a, <3>3, <3>4 DEF clamp
    <3>6. QED BY <3>2, <3>4, <3>5
  <2>4. QED BY <1>a, <2>1, <2>2, <2>3
<1>4. pipeline \in Nat \ {0} /\ reserved + pipeline = setup.db /\ reserved \in Int
  <2> HIDE DEF reserved
  <2>1. QED BY <1>a, <1>3
<1>5. /\ fit[1] \in Nat \ {0} /\ fit[2] \in Nat \ {0}
      /\ setup.scan > 0 => fit[1] = setup.scan /\ fit[2] = pp
      /\ setup.scan = 0 => \/ fit[1] + fit[2] = want + pp /\ want + pp <= pipeline
                           \/ fit[1] + fit[2] = pipeline
                           \/ pipeline = 1
  <2> HIDE DEF want, pp, pipeline
  <2>1. CASE setup.scan > 0
    BY <1>a, <1>2, <2>1
  <2>2. CASE setup.scan = 0
    BY <1>a, <1>2, <1>4, <2>2, FitFits
  <2>3. QED BY <1>a, <2>1, <2>2
<1>6. /\ plan'.reserved = reserved /\ plan'.pipeline = pipeline
      /\ plan'.scanWorkers = fit[1] /\ plan'.ppWorkers = fit[2]
      /\ UNCHANGED setup
  BY DEF StartWorkers, computeBudget
<1>7. ~plan'.overcommit => ~(setup.scan > 0 /\ setup.scan + pp > pipeline)
  BY DEF StartWorkers, computeBudget
<1> HIDE DEF reserved, pipeline, want, pp, fit
<1>8. /\ fit[1] >= 1 /\ fit[2] >= 1
      /\ ~plan'.overcommit => fit[1] + fit[2] + reserved <= setup.db \/ pipeline = 1
      /\ setup.scan = 0 => \/ fit[1] + fit[2] = want + pp
                           \/ fit[1] + fit[2] = pipeline
                           \/ pipeline = 1
  BY <1>a, <1>2, <1>4, <1>5, <1>7
<1>9. QED BY <1>3, <1>4, <1>6, <1>8 DEF BudgetHolds, want, pp

\* computeBudget leaves the API its connections for every valid configuration:
\* any pool, any provider limit, any reserve, any override.
THEOREM BudgetAlwaysHolds == BudgetSpec => []BudgetHolds
<1>1. BudgetInit => BudgetInv
  BY DEF BudgetInit, BudgetInv, BudgetHolds
<1>2. BudgetInv /\ [BudgetNext]_budgetVars => BudgetInv'
  <2> SUFFICES ASSUME BudgetInv, [BudgetNext]_budgetVars PROVE BudgetInv'
    OBVIOUS
  <2>1. CASE StartWorkers
    <3>1. UNCHANGED setup
      BY <2>1 DEF StartWorkers
    <3>2. QED BY <2>1, <3>1, BudgetStarts DEF BudgetInv, Validate
  <2>2. CASE UNCHANGED budgetVars
    BY <2>2 DEF budgetVars, BudgetInv, BudgetHolds, Validate
  <2>3. QED BY <2>1, <2>2 DEF BudgetNext, BudgetRests
<1>3. BudgetInv => BudgetHolds
  BY DEF BudgetInv
<1>4. QED BY <1>1, <1>2, <1>3, PTL DEF BudgetSpec
-----------------------------------------------------------------------------
(* The cadence of the loops *)

\* Period x is right for interval i: the interval, or the faster one of a backlog.
Right(x, i) == x = i \/ (AdaptiveMinInterval # 0 /\ AdaptiveMinInterval < i /\ x = AdaptiveMinInterval)

\* An administrator is about to poke loop l.
Pending(l) == \E a \in Admins : \E i \in DOMAIN update[a].todo : update[a].todo[i] = l

\* No reset is on its way to loop l.
ScheduleSettled(l) == ~poke[l] /\ ~Pending(l)

\* The ticker is right while the loop waits or runs a pass that leaves it alone,
\* and what the loop is about to set it to is right, unless a reset is on its way.
TickerRight ==
  \A l \in LoopSet : ScheduleSettled(l) =>
    /\ timed[l].at \in {"wait", "job"} => Right(ticker[l], opts[l])
    /\ timed[l].at = "set" => Right(timed[l].next, opts[l])

TimedStates == [at : {"wait", "job", "pass", "set"}, next : Nat]
UpdateStates == [at : {"none", "store", "poke"}, sched : [LoopSet -> Intervals \cup {Unchanged}],
                 todo : Seq(LoopSet)]

\* Settings, options, loops and updates keep their types.
SchedShape ==
  /\ settings \in [LoopSet -> Intervals \cup {Unchanged}]
  /\ opts \in [LoopSet -> Intervals]
  /\ DOMAIN ticker = LoopSet /\ DOMAIN poke = LoopSet
  /\ timed \in [LoopSet -> TimedStates]
  /\ update \in [Admins -> UpdateStates]
\* Only an administrator that pokes has loops left to poke.
TodoByPlace ==
  \A a \in Admins : IF update[a].at = "poke" THEN update[a].todo # <<>> ELSE update[a].todo = <<>>

SchedInv == SchedShape /\ TodoByPlace /\ TickerRight

LEMMA RightIsNext ==
  ASSUME NEW x, NEW i \in Nat
  PROVE  Right(x, i) <=> \E busy \in BOOLEAN : x = nextInterval(i, busy)
<1>1. nextInterval(i, FALSE) = i
  BY DEF nextInterval
<1>2. nextInterval(i, TRUE) = IF AdaptiveMinInterval # 0 /\ AdaptiveMinInterval < i
                              THEN AdaptiveMinInterval ELSE i
  BY ScheduleAssumption DEF nextInterval
<1>3. QED BY <1>1, <1>2 DEF Right

LEMMA TailFacts ==
  ASSUME NEW S, NEW s \in Seq(S), s # <<>>
  PROVE  Head(s) \in S /\ Tail(s) \in Seq(S) /\ (Len(s) = 1 <=> Tail(s) = <<>>)
<1>1. Len(s) \in Nat \ {0} /\ DOMAIN s = 1..Len(s) /\ \A i \in 1..Len(s) : s[i] \in S
  OBVIOUS
<1>2. Head(s) \in S
  BY <1>1
<1>3. Tail(s) \in Seq(S) /\ Len(Tail(s)) = Len(s) - 1
  BY <1>1
<1>4. Len(Tail(s)) = 0 <=> Tail(s) = <<>>
  <2> DEFINE t == Tail(s)
  <2>1. t \in Seq(S)
    BY <1>3
  <2> HIDE DEF t
  <2>2. Len(t) = 0 <=> t = <<>>
    BY <2>1
  <2>3. QED BY <2>2 DEF t
<1>5. Len(s) = 1 <=> Len(Tail(s)) = 0
  BY <1>1, <1>3
<1>6. QED BY <1>2, <1>3, <1>4, <1>5

\* One loop moves; the administrators and the other loops do not.
LEMMA LoopMoves ==
  ASSUME SchedInv, NEW l \in LoopSet, NEW k \in TimedStates, timed' = [timed EXCEPT ![l] = k],
         UNCHANGED <<settings, opts, update>>,
         DOMAIN ticker' = LoopSet, DOMAIN poke' = LoopSet,
         \A m \in LoopSet \ {l} : ticker'[m] = ticker[m] /\ poke'[m] = poke[m],
         ScheduleSettled(l)' => /\ k.at \in {"wait", "job"} => Right(ticker'[l], opts[l])
                                /\ k.at = "set" => Right(k.next, opts[l])
  PROVE  SchedInv'
<1>1. SchedShape'
  BY DEF SchedInv, SchedShape
<1>2. TodoByPlace'
  BY DEF SchedInv, TodoByPlace
<1>3. timed'[l] = k /\ \A m \in LoopSet \ {l} : timed'[m] = timed[m]
  BY DEF SchedInv, SchedShape
<1>4. \A m \in LoopSet \ {l} : ScheduleSettled(m)' => ScheduleSettled(m)
  BY DEF ScheduleSettled, Pending
<1>5. TickerRight'
  BY <1>3, <1>4 DEF SchedInv, TickerRight
<1>6. QED BY <1>1, <1>2, <1>5 DEF SchedInv

LEMMA SchedStepInv == SchedInv /\ [ScheduleNext]_schedVars => SchedInv'
<1> SUFFICES ASSUME SchedInv, [ScheduleNext]_schedVars PROVE SchedInv'
  OBVIOUS
<1>a. SchedShape /\ TodoByPlace /\ TickerRight
  BY DEF SchedInv
<1>b. /\ Intervals \subseteq Nat /\ DefaultInterval \in Intervals /\ AdaptiveMinInterval \in Nat
      /\ TimedLoops \in Seq(LoopSet) /\ TimedLoops # <<>>
  BY ScheduleAssumption DEF LoopSet
<1>c. \A l \in LoopSet : InPass(l) \in TimedStates /\ InPass(l).at \in {"job", "pass"}
                         /\ opts[l] \in Nat /\ timed[l] \in TimedStates
  BY <1>a, <1>b DEF InPass, TimedStates, SchedShape
<1>1. ASSUME NEW l \in LoopSet, BeginPass(l) PROVE SchedInv'
  <2>1. timed[l].at = "wait" /\ UNCHANGED <<settings, opts, ticker, poke, update>>
    BY <1>1 DEF BeginPass
  <2>2. PICK k \in TimedStates : timed' = [timed EXCEPT ![l] = k] /\ k.at \in {"job", "pass"}
    <3>1. CASE timed' = [timed EXCEPT ![l] = InPass(l)]
      BY <3>1, <1>c
    <3>2. CASE timed' = [timed EXCEPT ![l].at = "job"]
      <4> DEFINE k == [timed[l] EXCEPT !.at = "job"]
      <4>1. timed' = [timed EXCEPT ![l] = k]
        BY <3>2, <1>a DEF SchedShape
      <4>2. k \in TimedStates /\ k.at = "job"
        BY <1>c DEF TimedStates
      <4> HIDE DEF k
      <4>3. QED BY <4>1, <4>2
    <3>3. QED BY <1>1, <3>1, <3>2 DEF BeginPass
  <2>3. ScheduleSettled(l)' => Right(ticker'[l], opts[l])
    BY <1>a, <2>1 DEF TickerRight, ScheduleSettled, Pending
  <2>4. QED BY <1>a, <2>1, <2>2, <2>3, LoopMoves DEF SchedShape
<1>2. ASSUME NEW l \in LoopSet, EndPass(l) PROVE SchedInv'
  <2>1. UNCHANGED <<settings, opts, ticker, poke, update>>
    BY <1>2 DEF EndPass
  <2>2. CASE timed[l].at = "pass" /\ \E busy \in BOOLEAN :
               timed' = [timed EXCEPT ![l] = [at |-> "set", next |-> nextInterval(opts[l], busy)]]
    <3>1. PICK x : timed' = [timed EXCEPT ![l] = [at |-> "set", next |-> x]] /\ Right(x, opts[l])
      BY <2>2, <1>c, RightIsNext
    <3>2. x \in Nat
      BY <3>1, <1>b, <1>c DEF Right
    <3>3. [at |-> "set", next |-> x] \in TimedStates
      BY <3>2 DEF TimedStates
    <3>4. PICK k \in TimedStates : timed' = [timed EXCEPT ![l] = k] /\ k.at = "set" /\ k.next = x
      BY <3>1, <3>3
    <3>5. QED BY <1>a, <2>1, <3>1, <3>4, LoopMoves DEF SchedShape
  <2>3. CASE timed[l].at = "job" /\ timed' = [timed EXCEPT ![l].at = "wait"]
    <3> DEFINE k == [timed[l] EXCEPT !.at = "wait"]
    <3>1. timed' = [timed EXCEPT ![l] = k]
      BY <2>3, <1>a DEF SchedShape
    <3>2. k \in TimedStates /\ k.at = "wait"
      BY <1>c DEF TimedStates
    <3>3. ScheduleSettled(l)' => Right(ticker'[l], opts[l])
      BY <1>a, <2>1, <2>3 DEF TickerRight, ScheduleSettled, Pending
    <3> HIDE DEF k
    <3>4. QED BY <1>a, <2>1, <3>1, <3>2, <3>3, LoopMoves DEF SchedShape
  <2>4. QED BY <1>2, <2>2, <2>3 DEF EndPass
<1>3. ASSUME NEW l \in LoopSet, TakePoke(l) PROVE SchedInv'
  <2>1. UNCHANGED <<settings, opts, ticker, update>> /\ poke' = [poke EXCEPT ![l] = FALSE]
        /\ timed' = [timed EXCEPT ![l] = [at |-> "set", next |-> opts[l]]]
    BY <1>3 DEF TakePoke
  <2>2. [at |-> "set", next |-> opts[l]] \in TimedStates
    BY <1>c DEF TimedStates
  <2>3. PICK k \in TimedStates : timed' = [timed EXCEPT ![l] = k] /\ k.at = "set" /\ k.next = opts[l]
    BY <2>1, <2>2
  <2>4. Right(opts[l], opts[l])
    BY DEF Right
  <2>5. DOMAIN poke' = LoopSet /\ \A m \in LoopSet \ {l} : poke'[m] = poke[m]
    BY <1>a, <2>1 DEF SchedShape
  <2>6. QED BY <1>a, <2>1, <2>3, <2>4, <2>5, LoopMoves DEF SchedShape
<1>4. ASSUME NEW l \in LoopSet, SetTicker(l) PROVE SchedInv'
  <2>1. /\ timed[l].at = "set" /\ UNCHANGED <<settings, opts, poke, update>>
        /\ ticker' = [ticker EXCEPT ![l] = timed[l].next]
        /\ timed' = [timed EXCEPT ![l] = [at |-> "wait", next |-> 0]]
    BY <1>4 DEF SetTicker
  <2>2. PICK k \in TimedStates : timed' = [timed EXCEPT ![l] = k] /\ k.at = "wait"
    <3>1. [at |-> "wait", next |-> 0] \in TimedStates
      BY DEF TimedStates
    <3>2. QED BY <2>1, <3>1
  <2>3. ScheduleSettled(l)' => Right(ticker'[l], opts[l])
    BY <1>a, <2>1 DEF TickerRight, ScheduleSettled, Pending, SchedShape
  <2>4. DOMAIN ticker' = LoopSet /\ \A m \in LoopSet \ {l} : ticker'[m] = ticker[m]
    BY <1>a, <2>1 DEF SchedShape
  <2>5. QED BY <1>a, <2>1, <2>2, <2>3, <2>4, LoopMoves DEF SchedShape
<1>5. ASSUME NEW a \in Admins, NEW s \in [LoopSet -> Intervals \cup {Unchanged}], SetSettings(a, s)
      PROVE  SchedInv'
  <2>1. /\ update[a].at = "none" /\ settings' = Over(s, settings)
        /\ update' = [update EXCEPT ![a] = [at |-> "store", sched |-> s, todo |-> <<>>]]
        /\ UNCHANGED <<opts, ticker, poke, timed>>
    BY <1>5 DEF SetSettings
  <2>2. settings' \in [LoopSet -> Intervals \cup {Unchanged}]
    BY <1>a, <2>1 DEF SchedShape, Over
  <2>3. PICK u \in UpdateStates : update' = [update EXCEPT ![a] = u] /\ u.at = "store" /\ u.todo = <<>>
    <3>1. [at |-> "store", sched |-> s, todo |-> <<>>] \in UpdateStates
      BY DEF UpdateStates
    <3>2. QED BY <2>1, <3>1
  <2>4. SchedShape'
    BY <1>a, <2>1, <2>2, <2>3 DEF SchedShape
  <2>5. TodoByPlace'
    BY <1>a, <2>3 DEF TodoByPlace, SchedShape
  <2>6. \A b \in Admins : update'[b].todo = update[b].todo
    BY <1>a, <2>1, <2>3 DEF TodoByPlace, SchedShape
  <2>7. TickerRight'
    BY <1>a, <2>1, <2>6 DEF TickerRight, ScheduleSettled, Pending
  <2>8. QED BY <2>4, <2>5, <2>7 DEF SchedInv
<1>6. ASSUME NEW a \in Admins, StoreOptions(a) PROVE SchedInv'
  <2>1. /\ opts' = Over(update[a].sched, opts) /\ UNCHANGED <<settings, ticker, poke, timed>>
        /\ update' = [update EXCEPT ![a].at = "poke", ![a].todo = TimedLoops]
        /\ update[a] \in UpdateStates
    BY <1>6, <1>a DEF StoreOptions, SchedShape
  <2>2. opts' \in [LoopSet -> Intervals]
    BY <1>a, <2>1 DEF SchedShape, UpdateStates, Over
  <2>3. PICK u \in UpdateStates : update' = [update EXCEPT ![a] = u] /\ u.at = "poke" /\ u.todo = TimedLoops
    <3> DEFINE u == [update[a] EXCEPT !.at = "poke", !.todo = TimedLoops]
    <3>1. update' = [update EXCEPT ![a] = u]
      BY <1>a, <2>1 DEF SchedShape
    <3>2. u \in UpdateStates /\ u.at = "poke" /\ u.todo = TimedLoops
      BY <1>b, <2>1 DEF UpdateStates
    <3> HIDE DEF u
    <3>3. QED BY <3>1, <3>2
  <2>4. update'[a] = u /\ \A b \in Admins \ {a} : update'[b] = update[b]
    BY <1>a, <2>3 DEF SchedShape
  <2>5. SchedShape'
    BY <1>a, <2>1, <2>2, <2>3 DEF SchedShape
  <2>6. TodoByPlace'
    BY <1>a, <1>b, <2>3, <2>4 DEF TodoByPlace
  <2>7. \A l \in LoopSet : ~ScheduleSettled(l)'
    BY <2>3, <2>4 DEF ScheduleSettled, Pending, LoopSet
  <2>8. TickerRight'
    BY <2>7 DEF TickerRight
  <2>9. QED BY <2>5, <2>6, <2>8 DEF SchedInv
<1>7. ASSUME NEW a \in Admins, Poke(a) PROVE SchedInv'
  <2> DEFINE q == update[a].todo
  <2>1. update[a] \in UpdateStates /\ q \in Seq(LoopSet) /\ q # <<>>
    BY <1>7, <1>a DEF Poke, SchedShape, UpdateStates, TodoByPlace
  <2>h. Head(q) \in LoopSet /\ Tail(q) \in Seq(LoopSet) /\ (Len(q) # 1 => Tail(q) # <<>>)
        /\ (Len(q) = 1 => Tail(q) = <<>>)
    <3> HIDE DEF q
    <3>1. QED BY <2>1, TailFacts
  <2>l. PICK l \in LoopSet : l = Head(q)
    BY <2>h
  <2>2. /\ poke' = [poke EXCEPT ![l] = TRUE] /\ UNCHANGED <<settings, opts, ticker, timed>>
        /\ update' = IF Len(q) = 1 THEN [update EXCEPT ![a] = NoUpdate]
                     ELSE [update EXCEPT ![a].todo = Tail(@)]
    BY <1>7, <2>l DEF Poke, Poked
  <2>4. PICK u \in UpdateStates : /\ update' = [update EXCEPT ![a] = u] /\ u.todo = Tail(q)
                                  /\ IF u.at = "poke" THEN u.todo # <<>> ELSE u.todo = <<>>
    <3>1. CASE Len(q) = 1
      <4>1. NoUpdate \in UpdateStates /\ NoUpdate.todo = <<>> /\ NoUpdate.at = "none"
        BY DEF NoUpdate, UpdateStates
      <4>2. QED BY <2>2, <2>h, <3>1, <4>1
    <3>2. CASE Len(q) # 1
      <4> DEFINE u == [update[a] EXCEPT !.todo = Tail(q)]
      <4>1. update' = [update EXCEPT ![a] = u]
        BY <1>a, <2>2, <3>2 DEF SchedShape
      <4>2. u \in UpdateStates /\ u.at = "poke" /\ u.todo = Tail(q)
        BY <1>7, <2>1, <2>h DEF UpdateStates, Poke
      <4> HIDE DEF u, q
      <4>3. QED BY <2>h, <3>2, <4>1, <4>2
    <3>3. QED BY <3>1, <3>2
  <2>5. update'[a] = u /\ \A b \in Admins \ {a} : update'[b] = update[b]
    BY <1>a, <2>4 DEF SchedShape
  <2>6. SchedShape'
    BY <1>a, <2>2, <2>4 DEF SchedShape
  <2>7. TodoByPlace'
    BY <1>a, <2>4, <2>5 DEF TodoByPlace
  <2>8. poke'[l] /\ \A m \in LoopSet \ {l} : poke'[m] = poke[m]
    BY <1>a, <2>2, <2>h DEF SchedShape
  <2>9. ASSUME NEW m \in LoopSet, m # l, Pending(m) PROVE Pending(m)'
    <3>0. PICK b \in Admins : \E i \in DOMAIN update[b].todo : update[b].todo[i] = m
      BY <2>9 DEF Pending
    <3>1. PICK i \in DOMAIN update[b].todo : update[b].todo[i] = m
      BY <3>0
    <3>2. CASE b # a
      BY <2>5, <3>1, <3>2 DEF Pending
    <3>3. CASE b = a
      <4>1. i \in DOMAIN q /\ q[i] = m
        BY <3>1, <3>3
      <4> HIDE DEF q
      <4>2. i - 1 \in DOMAIN Tail(q) /\ Tail(q)[i - 1] = m
        BY <2>1, <2>l, <2>9, <4>1
      <4>3. QED BY <2>4, <2>5, <4>2 DEF Pending
    <3>4. QED BY <3>2, <3>3
  <2>10. TickerRight'
    <3>1. ~ScheduleSettled(l)'
      BY <2>8 DEF ScheduleSettled
    <3>2. \A m \in LoopSet \ {l} : ScheduleSettled(m)' => ScheduleSettled(m)
      BY <2>8, <2>9 DEF ScheduleSettled
    <3>3. QED BY <1>a, <2>2, <3>1, <3>2 DEF TickerRight
  <2>11. QED BY <2>6, <2>7, <2>10 DEF SchedInv
<1>8. CASE ScheduleRestart
  <2>1. opts' \in [LoopSet -> Intervals]
    BY <1>8, <1>a, <1>b DEF ScheduleRestart, Over, SchedShape
  <2>2. /\ ticker' = opts' /\ timed' = [l \in LoopSet |-> InPass(l)]
        /\ poke' = [l \in LoopSet |-> FALSE] /\ update' = [a \in Admins |-> NoUpdate] /\ UNCHANGED settings
    BY <1>8 DEF ScheduleRestart
  <2>3. NoUpdate \in UpdateStates /\ NoUpdate.todo = <<>> /\ NoUpdate.at = "none"
    BY DEF NoUpdate, UpdateStates
  <2>4. SchedShape'
    BY <1>a, <1>c, <2>1, <2>2, <2>3 DEF SchedShape
  <2>5. TodoByPlace'
    BY <2>2, <2>3 DEF TodoByPlace
  <2>6. TickerRight'
    BY <1>c, <2>1, <2>2 DEF TickerRight, Right
  <2>7. QED BY <2>4, <2>5, <2>6 DEF SchedInv
<1>9. CASE UNCHANGED schedVars
  BY <1>9, <1>a
     DEF schedVars, SchedInv, SchedShape, TodoByPlace, TickerRight, ScheduleSettled, Pending
<1>10. QED BY <1>1, <1>2, <1>3, <1>4, <1>5, <1>6, <1>7, <1>8, <1>9 DEF ScheduleNext

\* Reconfigure reaches every loop: one that waits with no reset on its way ticks
\* at the interval in force, whatever its pass and the changes overlapped.
THEOREM CadenceApplied == ScheduleSpec => []ScheduleApplied
<1>1. ScheduleInit => SchedInv
  <2> SUFFICES ASSUME ScheduleInit PROVE SchedInv
    OBVIOUS
  <2>1. NoUpdate \in UpdateStates /\ NoUpdate.todo = <<>> /\ NoUpdate.at = "none"
    BY DEF NoUpdate, UpdateStates
  <2>2. \A l \in LoopSet : InPass(l) \in TimedStates /\ InPass(l).at \in {"job", "pass"}
    BY DEF InPass, TimedStates
  <2>3. SchedShape
    BY <2>1, <2>2, ScheduleAssumption DEF ScheduleInit, SchedShape
  <2>4. TodoByPlace
    BY <2>1 DEF ScheduleInit, TodoByPlace
  <2>5. TickerRight
    BY <2>2 DEF ScheduleInit, TickerRight, Right
  <2>6. QED BY <2>3, <2>4, <2>5 DEF SchedInv
<1>2. SchedInv => ScheduleApplied
  <2> SUFFICES ASSUME SchedInv, NEW l \in LoopSet, timed[l].at = "wait", ~poke[l],
                      \A a \in Admins : \A i \in DOMAIN update[a].todo : update[a].todo[i] # l
               PROVE  \E busy \in BOOLEAN : ticker[l] = nextInterval(opts[l], busy)
    BY DEF ScheduleApplied
  <2>1. Right(ticker[l], opts[l])
    BY DEF SchedInv, TickerRight, ScheduleSettled, Pending
  <2>2. opts[l] \in Nat
    BY ScheduleAssumption DEF SchedInv, SchedShape
  <2>3. QED BY <2>1, <2>2, RightIsNext
<1>3. QED BY <1>1, <1>2, SchedStepInv, PTL DEF ScheduleSpec
-----------------------------------------------------------------------------
(* A scan pass over many groups *)

GroupRowStates == [id : Nat, active : BOOLEAN, failures : Nat, err : {"", "failed", "cancelled"},
                   backfill : BOOLEAN, by : Nat, born : Nat]
TargetStates == [name : GroupNames, id : Nat]
PassStates == [at : {"idle", "dispatch", "closed"}, todo : Seq(TargetStates),
               backfill : BOOLEAN, done : BOOLEAN]
ScanStates == [at : {"off", "receive", "scan", "record", "end"}, name : GroupNames \cup {""},
               id : Nat, err : {"", "failed", "cancelled"}]
ProgressStates == [inFlight : SUBSET GroupNames, completed : Nat, total : Nat, backfill : BOOLEAN]

PassShape ==
  /\ groupRow \in [GroupNames -> GroupRowStates]
  /\ scanRun \in PassStates
  /\ scanning \in [ScanWorkers -> ScanStates]
  /\ progress \in ProgressStates
  /\ groupIds \in Nat /\ passNo \in Nat

\* Goroutine w has a group in hand.
Holds(w) == scanning[w].at \in {"scan", "record", "end"}

\* An id that was handed out before the pass began.
OldId(n) == /\ n <= groupIds
            /\ \A g \in GroupNames : n # 0 /\ groupRow[g].id = n => groupRow[g].born < passNo

\* A row that tells of a pass tells of one that began after the row was made, and
\* never of a cancelled scan.
RowsTrue ==
  \A g \in GroupNames : /\ groupRow[g].id <= groupIds /\ groupRow[g].born <= passNo
                        /\ groupRow[g].by # 0 => /\ groupRow[g].by > groupRow[g].born
                                                 /\ groupRow[g].err # "cancelled"
\* Outside a pass no goroutine runs.
IdleIsQuiet == scanRun.at = "idle" => \A w \in ScanWorkers : scanning[w].at = "off"
\* Each group is listed once, under an id the pass may use.
TodoListed ==
  /\ \A i \in DOMAIN scanRun.todo : OldId(scanRun.todo[i].id)
  /\ \A i, j \in DOMAIN scanRun.todo : scanRun.todo[i].name = scanRun.todo[j].name => i = j
\* A group in hand is in one hand and no longer listed; only a cancelled pass
\* cancels its scan.
HandsTrue ==
  /\ \A w \in ScanWorkers : Holds(w) => /\ OldId(scanning[w].id)
                                        /\ scanning[w].name \in GroupNames
                                        /\ scanning[w].err = "cancelled" => scanRun.done = TRUE
                                        /\ \A i \in DOMAIN scanRun.todo :
                                             scanRun.todo[i].name # scanning[w].name
  /\ \A v, w \in ScanWorkers : Holds(v) /\ Holds(w) /\ scanning[v].name = scanning[w].name => v = w
\* Progress shows exactly the groups in hand, and what is done, in hand and
\* listed never exceeds the total.
ShownIsHeld ==
  \A n : n \in progress.inFlight <=> \E w \in ScanWorkers : Holds(w) /\ scanning[w].name = n
Counted ==
  /\ IsFiniteSet(progress.inFlight)
  /\ progress.completed + Cardinality(progress.inFlight) + Len(scanRun.todo) <= progress.total

PassInv == PassShape /\ RowsTrue /\ IdleIsQuiet /\ TodoListed /\ HandsTrue /\ ShownIsHeld /\ Counted

LEMMA TailOf ==
  ASSUME NEW S, NEW q \in Seq(S), q # <<>>
  PROVE  /\ 1 \in DOMAIN q /\ Head(q) = q[1] /\ Head(q) \in S
         /\ Tail(q) \in Seq(S) /\ Len(q) \in Nat /\ Len(Tail(q)) = Len(q) - 1
         /\ \A i \in DOMAIN Tail(q) : /\ i + 1 \in DOMAIN q /\ i + 1 # 1
                                      /\ Tail(q)[i] = q[i + 1]
<1>1. Len(q) \in Nat \ {0} /\ DOMAIN q = 1..Len(q) /\ \A i \in 1..Len(q) : q[i] \in S
  OBVIOUS
<1>2. 1 \in DOMAIN q /\ Head(q) = q[1] /\ Head(q) \in S
  BY <1>1
<1>3. Tail(q) \in Seq(S) /\ Len(Tail(q)) = Len(q) - 1
  BY <1>1
<1>4. \A i \in DOMAIN Tail(q) : i + 1 \in DOMAIN q /\ i + 1 # 1 /\ Tail(q)[i] = q[i + 1]
  BY <1>1
<1>5. QED BY <1>1, <1>2, <1>3, <1>4

\* SetToSeq lists every member once.
LEMMA SetToSeqLists ==
  ASSUME NEW S, IsFiniteSet(S)
  PROVE  /\ SetToSeq(S) \in Seq(S)
         /\ \A i, j \in DOMAIN SetToSeq(S) : SetToSeq(S)[i] = SetToSeq(S)[j] => i = j
<1>1. Cardinality(S) \in Nat /\ ExistsBijection(1..Cardinality(S), S)
  BY FS_CardinalityType
<1>2. PICK f \in [1..Cardinality(S) -> S] : IsInjective(f)
  BY <1>1 DEF ExistsBijection, Bijection, Injection, IsInjective
<1>3. SetToSeq(S) \in [1..Cardinality(S) -> S] /\ IsInjective(SetToSeq(S))
  BY <1>2 DEF SetToSeq
<1>4. SetToSeq(S) \in Seq(S)
  BY <1>1, <1>3
<1>5. QED BY <1>3, <1>4 DEF IsInjective

\* One row moves: its id is new or was that row's before.
LEMMA RowMoves ==
  ASSUME PassInv, NEW g \in GroupNames, NEW r \in GroupRowStates,
         groupRow' = [groupRow EXCEPT ![g] = r], passNo' = passNo,
         groupIds' \in Nat, groupIds' >= groupIds,
         r.id <= groupIds', r.born <= passNo,
         r.by # 0 => r.by > r.born /\ r.err # "cancelled",
         r.id # 0 /\ r.id <= groupIds => r.id = groupRow[g].id /\ r.born = groupRow[g].born
  PROVE  /\ groupRow' \in [GroupNames -> GroupRowStates] /\ RowsTrue'
         /\ \A n \in Nat : OldId(n) => OldId(n)'
<1>1. /\ groupRow \in [GroupNames -> GroupRowStates] /\ groupIds \in Nat /\ passNo \in Nat
      /\ RowsTrue
  BY DEF PassInv, PassShape
<1>2. groupRow' \in [GroupNames -> GroupRowStates]
  BY <1>1
<1>3. groupRow'[g] = r /\ \A f \in GroupNames \ {g} : groupRow'[f] = groupRow[f]
  BY <1>1
<1>4. \A f \in GroupNames : groupRow[f].id \in Nat /\ groupRow[f].born \in Nat /\ groupRow[f].by \in Nat
  BY <1>1 DEF GroupRowStates
<1>5. RowsTrue'
  BY <1>1, <1>3, <1>4 DEF RowsTrue
<1>6. ASSUME NEW n \in Nat, OldId(n) PROVE OldId(n)'
  <2>1. n <= groupIds /\ n <= groupIds'
    BY <1>1, <1>6 DEF OldId
  <2>2. \A f \in GroupNames : n # 0 /\ groupRow'[f].id = n => groupRow'[f].born < passNo
    BY <1>3, <1>6, <2>1 DEF OldId
  <2>3. QED BY <2>1, <2>2 DEF OldId
<1>7. QED BY <1>2, <1>5, <1>6

LEMMA TodoTyped ==
  ASSUME PassShape
  PROVE  /\ scanRun.todo \in Seq(TargetStates)
         /\ \A i \in DOMAIN scanRun.todo : /\ scanRun.todo[i] \in TargetStates
                                           /\ scanRun.todo[i].id \in Nat /\ scanRun.todo[i].name \in GroupNames
<1>1. scanRun.todo \in Seq(TargetStates)
  BY DEF PassShape, PassStates
<1>2. \A i \in DOMAIN scanRun.todo : scanRun.todo[i] \in TargetStates
  BY <1>1
<1>3. \A t \in TargetStates : t.id \in Nat /\ t.name \in GroupNames
  BY DEF TargetStates
<1>4. QED BY <1>1, <1>2, <1>3

\* Rows move and the pass stands still.
LEMMA OnlyRowsMove ==
  ASSUME PassInv, groupRow' \in [GroupNames -> GroupRowStates], RowsTrue',
         \A n \in Nat : OldId(n) => OldId(n)', groupIds' \in Nat,
         UNCHANGED <<scanRun, scanning, progress, passNo>>
  PROVE  PassInv'
<1>1. \A i \in DOMAIN scanRun.todo : scanRun.todo[i].id \in Nat
  BY TodoTyped DEF PassInv
<1>2. \A w \in ScanWorkers : scanning[w].id \in Nat
  BY DEF PassInv, PassShape, ScanStates
<1>3. PassShape'
  BY DEF PassInv, PassShape
<1>4. TodoListed'
  BY <1>1 DEF PassInv, TodoListed
<1>5. HandsTrue'
  BY <1>2 DEF PassInv, HandsTrue, Holds
<1>6. IdleIsQuiet' /\ ShownIsHeld' /\ Counted'
  BY DEF PassInv, IdleIsQuiet, ShownIsHeld, Counted, Holds
<1>7. QED BY <1>3, <1>4, <1>5, <1>6 DEF PassInv

\* A goroutine goes on with the group it has in hand.
LEMMA HandMoves ==
  ASSUME PassInv, NEW w \in ScanWorkers, NEW s \in ScanStates, Holds(w), s.at \in {"record", "end"},
         s.name = scanning[w].name, s.id = scanning[w].id, s.err = "cancelled" => scanRun.done = TRUE,
         scanning' = [scanning EXCEPT ![w] = s], UNCHANGED <<scanRun, progress, passNo>>,
         groupRow' \in [GroupNames -> GroupRowStates], RowsTrue',
         \A n \in Nat : OldId(n) => OldId(n)', groupIds' \in Nat
  PROVE  PassInv'
<1>1. /\ \A i \in DOMAIN scanRun.todo : scanRun.todo[i].id \in Nat
      /\ \A v \in ScanWorkers : scanning[v].id \in Nat
      /\ scanning \in [ScanWorkers -> ScanStates]
  BY TodoTyped DEF PassInv, PassShape, ScanStates
<1>2. scanning'[w] = s /\ \A v \in ScanWorkers \ {w} : scanning'[v] = scanning[v]
  BY <1>1
<1>3. PassShape'
  BY DEF PassInv, PassShape
<1>4. TodoListed'
  BY <1>1 DEF PassInv, TodoListed
<1>5. \A v \in ScanWorkers : /\ Holds(v)' <=> Holds(v)
                             /\ scanning'[v].name = scanning[v].name /\ scanning'[v].id = scanning[v].id
  BY <1>2 DEF Holds
<1>6. HandsTrue'
  BY <1>1, <1>2, <1>5 DEF PassInv, HandsTrue
<1>7. IdleIsQuiet'
  BY <1>2 DEF PassInv, IdleIsQuiet, Holds
<1>8. ShownIsHeld' /\ Counted'
  BY <1>5 DEF PassInv, ShownIsHeld, Counted
<1>9. QED BY <1>3, <1>4, <1>6, <1>7, <1>8 DEF PassInv

\* What comes after a step that leaves the rows and the history alone.
LEMMA SameIds ==
  ASSUME UNCHANGED <<groupRow, groupIds, passNo>>, PassInv
  PROVE  /\ groupRow' \in [GroupNames -> GroupRowStates] /\ RowsTrue' /\ groupIds' \in Nat
         /\ \A n \in Nat : OldId(n) => OldId(n)'
BY DEF PassInv, PassShape, RowsTrue, OldId

\* The outcome goes to a row that is older than the pass, or to none.
LEMMA RecordsTrue ==
  ASSUME PassInv, NEW w \in ScanWorkers, recordGroupScan(w)
  PROVE  PassInv'
<1> DEFINE s == scanning[w]
<1>1. s \in ScanStates /\ s.at = "record" /\ Holds(w) /\ scanRun \in PassStates /\ progress \in ProgressStates
  BY DEF PassInv, PassShape, recordGroupScan, Holds
<1>2. OldId(s.id) /\ s.name \in GroupNames /\ (s.err = "cancelled" => scanRun.done = TRUE)
  BY <1>1 DEF PassInv, HandsTrue
<1>3. UNCHANGED <<scanRun, progress, groupIds, passNo>> /\ scanning' = [scanning EXCEPT ![w].at = "end"]
  BY DEF recordGroupScan
<1>4. /\ groupRow' \in [GroupNames -> GroupRowStates] /\ RowsTrue' /\ groupIds' \in Nat
      /\ \A n \in Nat : OldId(n) => OldId(n)'
  <2>1. CASE UNCHANGED groupRow
    BY <2>1, <1>3, SameIds
  <2>2. CASE /\ Records
             /\ groupRow' = [groupRow EXCEPT ![s.name] = RecordGroupScan(@, s)]
    <3> DEFINE g == s.name
               row == groupRow[g]
               r == RecordGroupScan(row, s)
    <3>1. row \in GroupRowStates /\ groupIds \in Nat /\ passNo \in Nat /\ progress.backfill \in BOOLEAN
      BY <1>1, <1>2 DEF PassInv, PassShape, ProgressStates
    <3>2. /\ row.id <= groupIds /\ row.born <= passNo
          /\ row.by # 0 => row.by > row.born /\ row.err # "cancelled"
      BY <1>2 DEF PassInv, RowsTrue
    <3>3. s.err # "cancelled" /\ s.err \in {"", "failed", "cancelled"}
      BY <1>1, <1>2, <2>2 DEF Records, ScanStates
    <3>4. /\ r \in GroupRowStates /\ r.id = row.id /\ r.born = row.born
          /\ r.by # 0 => r.by > r.born /\ r.err # "cancelled"
      <4>1. CASE row.id # s.id \/ row.id = 0
        BY <4>1, <3>1, <3>2 DEF RecordGroupScan
      <4>2. CASE ~(row.id # s.id \/ row.id = 0)
        <5> DEFINE n == IF s.err = "" THEN 0 ELSE row.failures + 1
                   x == [row EXCEPT !.err = s.err, !.backfill = progress.backfill, !.by = passNo,
                                    !.failures = n]
        <5>0. row.failures \in Nat
          BY <3>1 DEF GroupRowStates
        <5>1. n \in Nat
          <6>1. 0 \in Nat /\ \A c \in Nat : c + 1 \in Nat
            OBVIOUS
          <6>2. QED BY <5>0, <6>1, Zenon
        <5>2. r = x
          BY <4>2 DEF RecordGroupScan
        <5> HIDE DEF n
        <5>3. x \in GroupRowStates /\ x.id = row.id /\ x.born = row.born /\ x.by = passNo /\ x.err = s.err
          BY <3>1, <3>3, <5>1 DEF GroupRowStates
        <5>4. row.born < passNo
          BY <1>2, <4>2 DEF OldId
        <5>5. QED BY <5>2, <5>3, <5>4, <3>3
      <4>3. QED BY <4>1, <4>2
    <3>5. groupRow' = [groupRow EXCEPT ![g] = r]
      BY <2>2
    <3>6. PICK z \in GroupRowStates : z = r
      BY <3>4
    <3>7. /\ groupRow' = [groupRow EXCEPT ![g] = z] /\ z.id <= groupIds' /\ z.born <= passNo
          /\ z.by # 0 => z.by > z.born /\ z.err # "cancelled"
          /\ z.id = groupRow[g].id /\ z.born = groupRow[g].born
      BY <1>3, <3>2, <3>4, <3>5, <3>6
    <3>8. g \in GroupNames /\ groupIds' \in Nat /\ groupIds' >= groupIds /\ passNo' = passNo
      BY <1>2, <1>3, <3>1
    <3> HIDE DEF g, r, row
    <3>9. QED BY <3>7, <3>8, RowMoves
  <2>3. QED BY <2>1, <2>2 DEF recordGroupScan
<1>5. PICK z \in ScanStates : /\ scanning' = [scanning EXCEPT ![w] = z] /\ z.at = "end"
                              /\ z.name = s.name /\ z.id = s.id /\ z.err = s.err
  <2> DEFINE z == [scanning[w] EXCEPT !.at = "end"]
  <2>1. scanning' = [scanning EXCEPT ![w] = z]
    BY <1>3 DEF PassInv, PassShape
  <2>2. z \in ScanStates /\ z.at = "end" /\ z.name = s.name /\ z.id = s.id /\ z.err = s.err
    BY <1>1 DEF ScanStates
  <2> HIDE DEF z
  <2>3. QED BY <2>1, <2>2
<1>6. QED BY <1>1, <1>2, <1>3, <1>4, <1>5, HandMoves

LEMMA TodoShrinks ==
  ASSUME PassInv, UNCHANGED <<groupRow, groupIds, passNo>>, scanRun.todo # <<>>,
         scanRun' = [scanRun EXCEPT !.todo = Tail(@)]
  PROVE  /\ scanRun' \in PassStates /\ scanRun'.at = scanRun.at /\ scanRun'.done = scanRun.done /\ TodoListed'
         /\ Len(scanRun.todo) \in Nat /\ Len(scanRun'.todo) = Len(scanRun.todo) - 1
         /\ Head(scanRun.todo) \in TargetStates /\ OldId(Head(scanRun.todo).id)
         /\ 1 \in DOMAIN scanRun.todo /\ Head(scanRun.todo) = scanRun.todo[1]
         /\ \A i \in DOMAIN scanRun'.todo : /\ i + 1 \in DOMAIN scanRun.todo
                                            /\ scanRun'.todo[i] = scanRun.todo[i + 1]
                                            /\ scanRun'.todo[i].name # Head(scanRun.todo).name
<1> DEFINE q == scanRun.todo
<1>1. scanRun \in PassStates /\ q \in Seq(TargetStates)
  BY TodoTyped DEF PassInv, PassShape
<1>2. /\ 1 \in DOMAIN q /\ Head(q) = q[1] /\ Head(q) \in TargetStates
      /\ Tail(q) \in Seq(TargetStates) /\ Len(q) \in Nat /\ Len(Tail(q)) = Len(q) - 1
      /\ \A i \in DOMAIN Tail(q) : i + 1 \in DOMAIN q /\ i + 1 # 1 /\ Tail(q)[i] = q[i + 1]
  <2> HIDE DEF q
  <2>1. q # <<>>
    BY DEF q
  <2>2. QED BY <1>1, <2>1, TailOf
<1>3. /\ scanRun'.todo = Tail(q) /\ scanRun'.at = scanRun.at /\ scanRun'.done = scanRun.done
      /\ scanRun' \in PassStates
  BY <1>1, <1>2 DEF PassStates
<1>4. \A i \in DOMAIN q : OldId(q[i].id)
  BY DEF PassInv, TodoListed
<1>5. \A i, j \in DOMAIN q : q[i].name = q[j].name => i = j
  BY DEF PassInv, TodoListed
<1>6. \A i \in DOMAIN scanRun'.todo : OldId(scanRun'.todo[i].id)
  <2> HIDE DEF q
  <2>1. QED BY <1>2, <1>3, <1>4
<1>7. \A i \in DOMAIN scanRun'.todo : OldId(scanRun.todo[i].id)'
  BY <1>6 DEF OldId
<1> HIDE DEF q
<1>8. \A i, j \in DOMAIN Tail(q) : Tail(q)[i].name = Tail(q)[j].name => i = j
  <2>1. \A i \in DOMAIN Tail(q) : i \in Int
    BY <1>2
  <2>2. QED BY <1>2, <1>5, <2>1
<1>9. TodoListed'
  BY <1>3, <1>7, <1>8, ZenonT(40) DEF TodoListed
<1>10. \A i \in DOMAIN Tail(q) : Tail(q)[i].name # Head(q).name
  BY <1>2, <1>5
<1>11. OldId(Head(q).id)
  BY <1>2, <1>4
<1>12. QED BY <1>2, <1>3, <1>9, <1>10, <1>11 DEF q

\* A goroutine has no group in hand, or no more.
LEMMA HandFreed ==
  ASSUME PassInv, NEW w \in ScanWorkers, NEW z \in ScanStates, z.at \in {"off", "receive"},
         scanning' = [scanning EXCEPT ![w] = z], UNCHANGED <<groupRow, groupIds, passNo>>,
         scanRun' \in PassStates, scanRun.at # "idle", scanRun'.at = scanRun.at, scanRun'.done = scanRun.done,
         TodoListed',
         \A i \in DOMAIN scanRun'.todo : \E j \in DOMAIN scanRun.todo : scanRun'.todo[i] = scanRun.todo[j],
         progress' \in ProgressStates, Counted',
         progress'.inFlight = IF Holds(w) THEN progress.inFlight \ {scanning[w].name}
                              ELSE progress.inFlight
  PROVE  PassInv'
<1>1. scanning \in [ScanWorkers -> ScanStates]
  BY DEF PassInv, PassShape
<1>2. scanning'[w] = z /\ \A v \in ScanWorkers \ {w} : scanning'[v] = scanning[v]
  BY <1>1
<1>3. ~Holds(w)' /\ \A v \in ScanWorkers \ {w} : Holds(v)' <=> Holds(v)
  BY <1>2 DEF Holds
<1>4. PassShape' /\ RowsTrue'
  BY SameIds DEF PassInv, PassShape
<1>5. IdleIsQuiet'
  BY DEF IdleIsQuiet
<1>6. HandsTrue'
  <2>1. ASSUME NEW v \in ScanWorkers, Holds(v)'
        PROVE  /\ OldId(scanning[v].id)' /\ scanning'[v].name \in GroupNames
               /\ scanning'[v].err = "cancelled" => scanRun'.done = TRUE
               /\ \A i \in DOMAIN scanRun'.todo : scanRun'.todo[i].name # scanning'[v].name
    <3>1. v # w /\ Holds(v) /\ scanning'[v] = scanning[v]
      BY <1>2, <1>3, <2>1
    <3>2. OldId(scanning[v].id)'
      BY <3>1 DEF PassInv, HandsTrue, OldId
    <3>3. QED BY <3>1, <3>2 DEF PassInv, HandsTrue
  <2>2. \A v, u \in ScanWorkers : Holds(v)' /\ Holds(u)' /\ scanning'[v].name = scanning'[u].name => v = u
    BY <1>2, <1>3 DEF PassInv, HandsTrue
  <2>3. QED BY <2>1, <2>2 DEF HandsTrue
<1>7. ShownIsHeld'
  <2>1. ASSUME NEW n, n \in progress'.inFlight
        PROVE  \E v \in ScanWorkers : Holds(v)' /\ scanning'[v].name = n
    BY <2>1, <1>2, <1>3 DEF PassInv, ShownIsHeld
  <2>2. ASSUME NEW v \in ScanWorkers, Holds(v)' PROVE scanning'[v].name \in progress'.inFlight
    <3>1. v # w /\ Holds(v) /\ scanning'[v] = scanning[v]
      BY <1>2, <1>3, <2>2
    <3>2. scanning[v].name \in progress.inFlight
      BY <3>1 DEF PassInv, ShownIsHeld
    <3>3. Holds(w) => scanning[v].name # scanning[w].name
      BY <3>1 DEF PassInv, HandsTrue
    <3>4. QED BY <3>1, <3>2, <3>3
  <2>3. QED BY <2>1, <2>2 DEF ShownIsHeld
<1>8. QED BY <1>4, <1>5, <1>6, <1>7 DEF PassInv

LEMMA HandedOut ==
  ASSUME PassInv, NEW w \in ScanWorkers, HandOut(w)
  PROVE  PassInv'
<1>1. /\ scanRun.at = "dispatch" /\ scanRun.todo # <<>> /\ scanning[w].at = "receive"
      /\ scanRun' = [scanRun EXCEPT !.todo = Tail(@)] /\ UNCHANGED <<groupRow, groupIds, passNo>>
  BY DEF HandOut
<1>2. PICK g \in TargetStates : g = Head(scanRun.todo)
  BY <1>1, TodoShrinks
<1>3. /\ scanRun' \in PassStates /\ scanRun'.at = scanRun.at /\ scanRun'.done = scanRun.done /\ TodoListed'
      /\ Len(scanRun.todo) \in Nat /\ Len(scanRun'.todo) = Len(scanRun.todo) - 1
      /\ OldId(g.id) /\ 1 \in DOMAIN scanRun.todo /\ g = scanRun.todo[1]
      /\ \A i \in DOMAIN scanRun'.todo : /\ i + 1 \in DOMAIN scanRun.todo
                                         /\ scanRun'.todo[i] = scanRun.todo[i + 1]
                                         /\ scanRun'.todo[i].name # g.name
  BY <1>1, <1>2, TodoShrinks
<1>4. /\ g.name \in GroupNames /\ g.id \in Nat /\ progress \in ProgressStates
      /\ scanning \in [ScanWorkers -> ScanStates]
      /\ progress.inFlight \in SUBSET GroupNames /\ progress.completed \in Nat /\ progress.total \in Nat
      /\ ~Holds(w)
  BY <1>1 DEF TargetStates, PassInv, PassShape, ProgressStates, Holds
<1>5. /\ IsFiniteSet(progress.inFlight) /\ Cardinality(progress.inFlight) \in Nat
      /\ progress.completed + Cardinality(progress.inFlight) + Len(scanRun.todo) <= progress.total
  BY FS_CardinalityType DEF PassInv, Counted
<1>6. CASE scanning' = [scanning EXCEPT ![w] = NoScan] /\ UNCHANGED progress
  <2>1. NoScan \in ScanStates /\ NoScan.at = "off"
    BY DEF NoScan, ScanStates
  <2>2. Counted'
    BY <1>3, <1>4, <1>5, <1>6 DEF Counted
  <2>3. progress' \in ProgressStates /\ progress'.inFlight = progress.inFlight
    BY <1>4, <1>6
  <2>4. QED BY <1>1, <1>3, <1>4, <1>6, <2>1, <2>2, <2>3, HandFreed
<1>7. CASE /\ ~scanRun.done
           /\ scanning' = [scanning EXCEPT ![w] = [at |-> "scan", name |-> g.name, id |-> g.id, err |-> ""]]
           /\ progress' = [progress EXCEPT !.inFlight = @ \cup {g.name}]
  <2>1. PICK z \in ScanStates : /\ scanning' = [scanning EXCEPT ![w] = z] /\ z.at = "scan"
                                /\ z.name = g.name /\ z.id = g.id /\ z.err = ""
    <3>1. [at |-> "scan", name |-> g.name, id |-> g.id, err |-> ""] \in ScanStates
      BY <1>4 DEF ScanStates
    <3>2. QED BY <1>7, <3>1
  <2>2. scanning'[w] = z /\ \A v \in ScanWorkers \ {w} : scanning'[v] = scanning[v]
    BY <1>4, <2>1
  <2>3. Holds(w)' /\ \A v \in ScanWorkers \ {w} : Holds(v)' <=> Holds(v)
    BY <2>1, <2>2 DEF Holds
  <2>4. progress' \in ProgressStates /\ progress'.inFlight = progress.inFlight \cup {g.name}
        /\ progress'.completed = progress.completed /\ progress'.total = progress.total
    BY <1>4, <1>7 DEF ProgressStates
  <2>5. g.name \notin progress.inFlight
    BY <1>3 DEF PassInv, ShownIsHeld, HandsTrue
  <2>6. Counted'
    <3>1. /\ IsFiniteSet(progress.inFlight \cup {g.name})
          /\ Cardinality(progress.inFlight \cup {g.name}) = Cardinality(progress.inFlight) + 1
      BY <1>5, <2>5, FS_AddElement
    <3>2. QED BY <1>3, <1>4, <1>5, <2>4, <3>1 DEF Counted
  <2>7. PassShape' /\ RowsTrue'
    BY <1>1, <1>3, <2>1, <2>4, SameIds DEF PassInv, PassShape
  <2>8. IdleIsQuiet'
    BY <1>1, <1>3 DEF IdleIsQuiet
  <2>9. ShownIsHeld'
    <3>1. ASSUME NEW n, n \in progress'.inFlight
          PROVE  \E v \in ScanWorkers : Holds(v)' /\ scanning'[v].name = n
      BY <3>1, <1>4, <2>1, <2>2, <2>3, <2>4 DEF PassInv, ShownIsHeld
    <3>2. ASSUME NEW v \in ScanWorkers, Holds(v)' PROVE scanning'[v].name \in progress'.inFlight
      BY <3>2, <2>1, <2>2, <2>3, <2>4 DEF PassInv, ShownIsHeld
    <3>3. QED BY <3>1, <3>2 DEF ShownIsHeld
  <2>10. HandsTrue'
    <3>1. ASSUME NEW v \in ScanWorkers, Holds(v)'
          PROVE  /\ OldId(scanning[v].id)' /\ scanning'[v].name \in GroupNames
                 /\ scanning'[v].err = "cancelled" => scanRun'.done = TRUE
                 /\ \A i \in DOMAIN scanRun'.todo : scanRun'.todo[i].name # scanning'[v].name
      <4>1. CASE v = w
        <5>0. scanning'[v].id = g.id
          BY <2>1, <2>2, <4>1
        <5>1. OldId(scanning[v].id)'
          BY <1>1, <1>3, <5>0 DEF OldId
        <5>2. QED BY <5>1, <1>3, <1>4, <2>1, <2>2, <4>1
      <4>2. CASE v # w
        <5>1. Holds(v) /\ scanning'[v] = scanning[v]
          BY <2>2, <2>3, <3>1, <4>2
        <5>2. OldId(scanning[v].id)'
          BY <1>1, <5>1 DEF PassInv, HandsTrue, OldId
        <5>3. QED BY <1>3, <5>1, <5>2 DEF PassInv, HandsTrue
      <4>3. QED BY <4>1, <4>2
    <3>2. ASSUME NEW v \in ScanWorkers \ {w}, Holds(v)' PROVE scanning'[v].name # scanning'[w].name
      <4>1. Holds(v) /\ scanning'[v] = scanning[v] /\ scanning'[w].name = g.name
        BY <3>2, <2>1, <2>2, <2>3
      <4>2. scanRun.todo[1].name # scanning[v].name
        BY <4>1, <1>3 DEF PassInv, HandsTrue
      <4>3. QED BY <1>3, <4>1, <4>2
    <3>3. ASSUME NEW v \in ScanWorkers \ {w}, NEW u \in ScanWorkers \ {w}, Holds(v)', Holds(u)',
                 scanning'[v].name = scanning'[u].name
          PROVE  v = u
      BY <3>3, <2>2, <2>3 DEF PassInv, HandsTrue
    <3>4. \A v, u \in ScanWorkers : Holds(v)' /\ Holds(u)' /\ scanning'[v].name = scanning'[u].name => v = u
      BY <3>2, <3>3
    <3>5. QED BY <3>1, <3>4 DEF HandsTrue
  <2>11. QED BY <1>3, <2>6, <2>7, <2>8, <2>9, <2>10 DEF PassInv
<1>8. QED BY <1>2, <1>6, <1>7 DEF HandOut

\* A pass lists each group once, with an id the table had.
LEMMA TargetsListed ==
  ASSUME PassInv, NEW todo \in Targets
  PROVE  /\ todo \in Seq(TargetStates)
         /\ \A i \in DOMAIN todo : \/ todo[i].id = 0
                                   \/ \E g \in GroupNames : todo[i].id = groupRow[g].id
         /\ \A i, j \in DOMAIN todo : todo[i].name = todo[j].name => i = j
<1>1. CASE \E g \in GroupNames : todo = <<[name |-> g, id |-> 0]>>
  <2>1. PICK g \in GroupNames : todo = <<[name |-> g, id |-> 0]>>
    BY <1>1
  <2>2. [name |-> g, id |-> 0] \in TargetStates
    BY DEF TargetStates
  <2>3. QED BY <2>1, <2>2
<1>2. CASE todo = SetToSeq({[name |-> g, id |-> groupRow[g].id] : g \in Listed})
  <2> DEFINE T == {[name |-> g, id |-> groupRow[g].id] : g \in Listed}
  <2>1. Listed \in SUBSET GroupNames /\ IsFiniteSet(Listed)
    BY ScanPassAssumption, FS_Subset DEF Listed
  <2>2. \A g \in GroupNames : groupRow[g].id \in Nat
    BY DEF PassInv, PassShape, GroupRowStates
  <2>3. T \subseteq TargetStates
    BY <2>1, <2>2 DEF TargetStates
  <2>4. \A t \in T : t.name \in Listed /\ t.name \in GroupNames /\ t.id = groupRow[t.name].id
    BY <2>1
  <2>5. \A t, u \in T : t.name = u.name => t = u
    OBVIOUS
  <2> HIDE DEF T
  <2>t. IsFiniteSet(T)
    <3> DEFINE f == [t \in T |-> t.name]
    <3>1. f \in Injection(T, Listed)
      BY <2>4, <2>5 DEF Injection, IsInjective
    <3> HIDE DEF f
    <3>2. QED BY <2>1, <3>1, FS_Injection
  <2>6. todo \in Seq(T) /\ \A i, j \in DOMAIN todo : todo[i] = todo[j] => i = j
    BY <1>2, <2>t, SetToSeqLists DEF T
  <2>7. \A i \in DOMAIN todo : todo[i] \in T
    BY <2>6
  <2>8. todo \in Seq(TargetStates)
    BY <2>3, <2>6, <2>7
  <2>9. QED BY <2>4, <2>5, <2>6, <2>7, <2>8
<1>3. QED BY <1>1, <1>2 DEF Targets

LEMMA PassBegins ==
  ASSUME PassInv, NEW backfill \in BOOLEAN, BeginScan(backfill)
  PROVE  PassInv'
<1>1. scanRun.at = "idle" /\ passNo' = passNo + 1 /\ UNCHANGED <<groupRow, groupIds>>
  BY DEF BeginScan
<1>2. PICK todo \in Targets :
        /\ scanRun' = [at |-> "dispatch", todo |-> todo, backfill |-> backfill, done |-> FALSE]
        /\ progress' = [NoProgress EXCEPT !.total = Len(todo), !.backfill = backfill]
        /\ \E S \in SUBSET ScanWorkers :
             scanning' = [w \in ScanWorkers |->
                            IF w \in S THEN [NoScan EXCEPT !.at = "receive"] ELSE NoScan]
  BY DEF BeginScan
<1>3. /\ groupRow \in [GroupNames -> GroupRowStates] /\ groupIds \in Nat /\ passNo \in Nat
      /\ \A g \in GroupNames : groupRow[g].id \in Nat /\ groupRow[g].born \in Nat
  BY DEF PassInv, PassShape, GroupRowStates
<1>4. todo \in Seq(TargetStates) /\ Len(todo) \in Nat
  BY TargetsListed
<1>5. /\ \A i \in DOMAIN todo : todo[i].id = 0 \/ \E g \in GroupNames : todo[i].id = groupRow[g].id
      /\ \A i, j \in DOMAIN todo : todo[i].name = todo[j].name => i = j
  BY TargetsListed
<1>6. scanRun' \in PassStates /\ scanRun'.todo = todo /\ scanRun'.at = "dispatch"
  BY <1>2, <1>4 DEF PassStates
<1>7. /\ progress' \in ProgressStates /\ progress'.inFlight = {}
      /\ progress'.completed = 0 /\ progress'.total = Len(todo)
  BY <1>2, <1>4 DEF ProgressStates, NoProgress
<1>8. scanning' \in [ScanWorkers -> ScanStates] /\ \A w \in ScanWorkers : scanning'[w].at \in {"off", "receive"}
  <2>1. NoScan \in ScanStates /\ [NoScan EXCEPT !.at = "receive"] \in ScanStates
    BY DEF NoScan, ScanStates
  <2>2. NoScan.at = "off" /\ [NoScan EXCEPT !.at = "receive"].at = "receive"
    BY DEF NoScan
  <2>3. PICK S \in SUBSET ScanWorkers :
          scanning' = [w \in ScanWorkers |->
                         IF w \in S THEN [NoScan EXCEPT !.at = "receive"] ELSE NoScan]
    BY <1>2
  <2>4. \A w \in ScanWorkers : scanning'[w] = NoScan \/ scanning'[w] = [NoScan EXCEPT !.at = "receive"]
    BY <2>3
  <2>5. QED BY <2>1, <2>2, <2>3, <2>4
<1>9. PassShape'
  BY <1>1, <1>3, <1>6, <1>7, <1>8 DEF PassShape
<1>10. RowsTrue'
  BY <1>1, <1>3 DEF PassInv, RowsTrue
<1>11. \A n \in Nat : n <= groupIds => n <= groupIds' /\ \A g \in GroupNames : groupRow'[g].born < passNo'
  BY <1>1, <1>3 DEF PassInv, RowsTrue
<1>12. TodoListed'
  <2>1. \A i \in DOMAIN todo : todo[i].id \in Nat /\ todo[i].id <= groupIds
    BY <1>3, <1>5 DEF PassInv, RowsTrue
  <2>2. \A i \in DOMAIN scanRun'.todo : OldId(scanRun.todo[i].id)'
    BY <1>6, <1>11, <2>1 DEF OldId
  <2>3. QED BY <1>5, <1>6, <2>2 DEF TodoListed
<1>13. \A w \in ScanWorkers : ~Holds(w)'
  BY <1>8 DEF Holds
<1>14. IdleIsQuiet' /\ HandsTrue' /\ ShownIsHeld'
  BY <1>6, <1>7, <1>13 DEF IdleIsQuiet, HandsTrue, ShownIsHeld
<1>15. Counted'
  BY <1>4, <1>6, <1>7, FS_EmptySet DEF Counted
<1>16. QED BY <1>9, <1>10, <1>12, <1>14, <1>15 DEF PassInv

LEMMA PassStepInv == PassInv /\ [ScanPassNext]_passVars => PassInv'
<1> SUFFICES ASSUME PassInv, [ScanPassNext]_passVars PROVE PassInv'
  OBVIOUS
<1>a. /\ PassShape /\ RowsTrue /\ groupRow \in [GroupNames -> GroupRowStates] /\ scanRun \in PassStates
      /\ scanning \in [ScanWorkers -> ScanStates] /\ progress \in ProgressStates
      /\ groupIds \in Nat /\ passNo \in Nat
  BY DEF PassInv, PassShape
<1>b. \A g \in GroupNames : /\ groupRow[g] \in GroupRowStates /\ groupRow[g].id \in Nat
                            /\ groupRow[g].born \in Nat /\ groupRow[g].by \in Nat
  BY <1>a DEF GroupRowStates
<1>c. NoGroupRow \in GroupRowStates /\ NoGroupRow.id = 0 /\ NoGroupRow.born = 0 /\ NoGroupRow.by = 0
  BY DEF NoGroupRow, GroupRowStates
<1>1. ASSUME NEW g \in GroupNames, UpsertGroup(g) PROVE PassInv'
  <2>1. groupIds' = groupIds + 1 /\ UNCHANGED <<scanRun, scanning, progress, passNo>>
    BY <1>1 DEF UpsertGroup
  <2>2. PICK r \in GroupRowStates : /\ groupRow' = [groupRow EXCEPT ![g] = r]
                                    /\ r.id = groupIds + 1 /\ r.born = passNo /\ r.by = 0
    <3> DEFINE n == groupIds + 1
               r == [NoGroupRow EXCEPT !.id = n, !.active = TRUE, !.born = passNo]
    <3>1. groupRow' = [groupRow EXCEPT ![g] = r]
      BY <1>1, <2>1 DEF UpsertGroup
    <3>n. n \in Nat /\ n = groupIds + 1
      BY <1>a
    <3> HIDE DEF n
    <3>2. r \in GroupRowStates /\ r.id = groupIds + 1 /\ r.born = passNo /\ r.by = 0
      BY <1>a, <3>n DEF NoGroupRow, GroupRowStates
    <3> HIDE DEF r
    <3>3. QED BY <3>1, <3>2
  <2>3. /\ groupRow' \in [GroupNames -> GroupRowStates] /\ RowsTrue'
        /\ \A n \in Nat : OldId(n) => OldId(n)'
    <3>1. passNo' = passNo /\ groupIds' \in Nat /\ groupIds' >= groupIds /\ r.id <= groupIds'
          /\ r.born <= passNo /\ ~(r.by # 0) /\ ~(r.id <= groupIds)
      BY <1>a, <2>1, <2>2
    <3>2. groupRow' = [groupRow EXCEPT ![g] = r]
      BY <2>2
    <3>3. QED BY <3>1, <3>2, RowMoves
  <2>4. QED BY <1>a, <2>1, <2>3, OnlyRowsMove
<1>2. ASSUME NEW g \in GroupNames, SetGroupActive(g) PROVE PassInv'
  <2>1. UNCHANGED <<scanRun, scanning, progress, groupIds, passNo>>
    BY <1>2 DEF SetGroupActive
  <2>2. PICK r \in GroupRowStates : /\ groupRow' = [groupRow EXCEPT ![g] = r]
                                    /\ r.id = groupRow[g].id /\ r.born = groupRow[g].born
                                    /\ r.by = groupRow[g].by /\ r.err = groupRow[g].err
    <3> DEFINE b == ~groupRow[g].active
               r == [groupRow[g] EXCEPT !.active = b]
    <3>1. groupRow' = [groupRow EXCEPT ![g] = r]
      BY <1>2, <1>a DEF SetGroupActive
    <3>2. b \in BOOLEAN
      BY Zenon
    <3> HIDE DEF b
    <3>3. /\ r \in GroupRowStates /\ r.id = groupRow[g].id /\ r.born = groupRow[g].born
          /\ r.by = groupRow[g].by /\ r.err = groupRow[g].err
      BY <1>b, <3>2 DEF GroupRowStates
    <3> HIDE DEF r
    <3>4. QED BY <3>1, <3>3
  <2>3. /\ groupRow' \in [GroupNames -> GroupRowStates] /\ RowsTrue'
        /\ \A n \in Nat : OldId(n) => OldId(n)'
    <3>1. passNo' = passNo /\ groupIds' \in Nat /\ groupIds' >= groupIds /\ r.id <= groupIds'
          /\ r.born <= passNo /\ (r.by # 0 => r.by > r.born /\ r.err # "cancelled")
      BY <1>a, <1>b, <2>1, <2>2 DEF RowsTrue
    <3>2. groupRow' = [groupRow EXCEPT ![g] = r] /\ r.id = groupRow[g].id /\ r.born = groupRow[g].born
      BY <2>2
    <3>3. QED BY <3>1, <3>2, RowMoves
  <2>4. QED BY <1>a, <2>1, <2>3, OnlyRowsMove
<1>3. ASSUME NEW g \in GroupNames, DeleteGroup(g) PROVE PassInv'
  <2>1. UNCHANGED <<scanRun, scanning, progress, groupIds, passNo>>
        /\ groupRow' = [groupRow EXCEPT ![g] = NoGroupRow]
    BY <1>3 DEF DeleteGroup
  <2>2. /\ groupRow' \in [GroupNames -> GroupRowStates] /\ RowsTrue'
        /\ \A n \in Nat : OldId(n) => OldId(n)'
    <3>1. PICK r \in GroupRowStates : r = NoGroupRow
      BY <1>c
    <3>2. passNo' = passNo /\ groupIds' \in Nat /\ groupIds' >= groupIds /\ r.id <= groupIds'
          /\ r.born <= passNo /\ ~(r.by # 0) /\ ~(r.id # 0)
      BY <1>a, <1>c, <2>1, <3>1
    <3>3. groupRow' = [groupRow EXCEPT ![g] = r]
      BY <2>1, <3>1
    <3>4. QED BY <3>2, <3>3, RowMoves
  <2>3. QED BY <1>a, <2>1, <2>2, OnlyRowsMove
<1>4. ASSUME NEW backfill \in BOOLEAN, BeginScan(backfill) PROVE PassInv'
  BY <1>4, PassBegins
<1>5. CASE CancelPass
  <2>1. /\ UNCHANGED <<groupRow, scanning, progress, groupIds, passNo>>
        /\ scanRun' \in PassStates /\ scanRun'.at = scanRun.at /\ scanRun'.todo = scanRun.todo
        /\ scanRun'.done = TRUE
    BY <1>5, <1>a DEF CancelPass, PassStates
  <2>2. PassShape' /\ RowsTrue' /\ IdleIsQuiet' /\ ShownIsHeld' /\ Counted' /\ TodoListed'
    BY <1>a, <2>1 DEF PassInv, PassShape, RowsTrue, IdleIsQuiet, ShownIsHeld, Counted, TodoListed,
                      Holds, OldId
  <2>3. HandsTrue'
    BY <2>1 DEF PassInv, HandsTrue, Holds, OldId
  <2>4. QED BY <2>2, <2>3 DEF PassInv
<1>6. CASE CloseScanJobs
  <2>1. /\ UNCHANGED <<groupRow, scanning, progress, groupIds, passNo>>
        /\ scanRun' \in PassStates /\ scanRun'.at = "closed" /\ scanRun'.todo = scanRun.todo
        /\ scanRun'.done = scanRun.done
    BY <1>6, <1>a DEF CloseScanJobs, PassStates
  <2>2. PassShape' /\ RowsTrue' /\ IdleIsQuiet' /\ ShownIsHeld' /\ Counted' /\ TodoListed'
    BY <1>a, <2>1 DEF PassInv, PassShape, RowsTrue, IdleIsQuiet, ShownIsHeld, Counted, TodoListed,
                      Holds, OldId
  <2>3. HandsTrue'
    BY <2>1 DEF PassInv, HandsTrue, Holds, OldId
  <2>4. QED BY <2>2, <2>3 DEF PassInv
<1>7. CASE ScanReturns
  <2>1. /\ UNCHANGED <<groupRow, scanning, groupIds, passNo>> /\ scanRun' = NoPassRun /\ progress' = NoProgress
        /\ \A w \in ScanWorkers : scanning[w].at = "off"
    BY <1>7 DEF ScanReturns
  <2>2. NoPassRun \in PassStates /\ NoPassRun.todo = <<>>
    <3>1. <<>> \in Seq(TargetStates)
      OBVIOUS
    <3>2. QED BY <3>1 DEF NoPassRun, PassStates
  <2>3. /\ NoProgress \in ProgressStates /\ NoProgress.inFlight = {}
        /\ NoProgress.completed = 0 /\ NoProgress.total = 0
    BY DEF NoProgress, ProgressStates
  <2>4. \A w \in ScanWorkers : ~Holds(w)'
    BY <2>1 DEF Holds
  <2>5. PassShape' /\ RowsTrue' /\ IdleIsQuiet'
    BY <1>a, <2>1, <2>2, <2>3 DEF PassShape, RowsTrue, IdleIsQuiet
  <2>6. HandsTrue' /\ ShownIsHeld'
    BY <2>1, <2>3, <2>4 DEF HandsTrue, ShownIsHeld
  <2>7. TodoListed' /\ Counted'
    <3>1. DOMAIN scanRun'.todo = {} /\ Len(scanRun'.todo) = 0
      BY <2>1, <2>2
    <3>2. QED BY <2>1, <2>3, <3>1, FS_EmptySet DEF TodoListed, Counted
  <2>8. QED BY <2>5, <2>6, <2>7 DEF PassInv
<1>8. ASSUME NEW w \in ScanWorkers, HandOut(w) PROVE PassInv'
  BY <1>8, HandedOut
<1>9. ASSUME NEW w \in ScanWorkers, ScannerEnds(w) PROVE PassInv'
  <2>1. /\ UNCHANGED <<groupRow, scanRun, progress, groupIds, passNo>> /\ scanRun.at = "closed"
        /\ scanning' = [scanning EXCEPT ![w] = NoScan] /\ ~Holds(w)
    BY <1>9 DEF ScannerEnds, Holds
  <2>2. NoScan \in ScanStates /\ NoScan.at = "off"
    BY DEF NoScan, ScanStates
  <2>3. TodoListed' /\ Counted'
    BY <2>1 DEF PassInv, TodoListed, Counted, OldId
  <2>4. scanRun' \in PassStates /\ progress' \in ProgressStates /\ scanRun.at # "idle"
    BY <1>a, <2>1
  <2>5. QED BY <2>1, <2>2, <2>3, <2>4, HandFreed
<1>10. ASSUME NEW w \in ScanWorkers, ScanGroup(w) PROVE PassInv'
  <2>1. scanning[w].at = "scan" /\ Holds(w) /\ UNCHANGED <<groupRow, scanRun, progress, groupIds, passNo>>
    BY <1>10 DEF ScanGroup, Holds
  <2>2. PICK err \in {"", "failed", "cancelled"} :
          /\ scanning' = [scanning EXCEPT ![w].at = "record", ![w].err = err]
          /\ err = "cancelled" => scanRun.done = TRUE
    <3>1. scanRun.done \in BOOLEAN
      BY <1>a DEF PassStates
    <3>2. QED BY <1>10, <3>1 DEF ScanGroup
  <2>3. PICK z \in ScanStates : /\ scanning' = [scanning EXCEPT ![w] = z] /\ z.at = "record"
                                /\ z.name = scanning[w].name /\ z.id = scanning[w].id /\ z.err = err
    <3> DEFINE z == [scanning[w] EXCEPT !.at = "record", !.err = err]
    <3>1. scanning' = [scanning EXCEPT ![w] = z]
      BY <1>a, <2>2
    <3>2. /\ z \in ScanStates /\ z.at = "record" /\ z.name = scanning[w].name
          /\ z.id = scanning[w].id /\ z.err = err
      BY <1>a DEF ScanStates
    <3> HIDE DEF z
    <3>3. QED BY <3>1, <3>2
  <2>4. QED BY <2>1, <2>2, <2>3, SameIds, HandMoves
<1>11. ASSUME NEW w \in ScanWorkers, recordGroupScan(w) PROVE PassInv'
  BY <1>11, RecordsTrue
<1>12. ASSUME NEW w \in ScanWorkers, scanGroupEnd(w) PROVE PassInv'
  <2>1. /\ scanning[w].at = "end" /\ Holds(w) /\ UNCHANGED <<groupRow, scanRun, groupIds, passNo>>
        /\ progress' = [progress EXCEPT !.inFlight = @ \ {scanning[w].name}, !.completed = @ + 1]
        /\ scanning' = [scanning EXCEPT ![w] = [NoScan EXCEPT !.at = "receive"]]
    BY <1>12 DEF scanGroupEnd, Holds
  <2>2. PICK z \in ScanStates : z.at = "receive" /\ scanning' = [scanning EXCEPT ![w] = z]
    <3>1. [NoScan EXCEPT !.at = "receive"] \in ScanStates /\ [NoScan EXCEPT !.at = "receive"].at = "receive"
      BY DEF NoScan, ScanStates
    <3>2. QED BY <2>1, <3>1
  <2>3. /\ progress.inFlight \in SUBSET GroupNames /\ progress.completed \in Nat /\ progress.total \in Nat
        /\ progress' \in ProgressStates /\ progress'.inFlight = progress.inFlight \ {scanning[w].name}
        /\ progress'.completed = progress.completed + 1 /\ progress'.total = progress.total
    <3> DEFINE I == progress.inFlight \ {scanning[w].name}
               n == progress.completed + 1
    <3>1. progress.inFlight \in SUBSET GroupNames /\ progress.completed \in Nat /\ progress.total \in Nat
      BY <1>a DEF ProgressStates
    <3>2. I \in SUBSET GroupNames /\ n \in Nat /\ progress' = [progress EXCEPT !.inFlight = I, !.completed = n]
      BY <2>1, <3>1
    <3> HIDE DEF I, n
    <3>3. /\ progress' \in ProgressStates /\ progress'.inFlight = I
          /\ progress'.completed = n /\ progress'.total = progress.total
      BY <1>a, <3>2 DEF ProgressStates
    <3>4. QED BY <3>1, <3>3 DEF I, n
  <2>4. scanning[w].name \in progress.inFlight
    BY <2>1 DEF PassInv, ShownIsHeld
  <2>5. Counted'
    <3>1. /\ IsFiniteSet(progress.inFlight) /\ Cardinality(progress.inFlight) \in Nat
          /\ progress.completed + Cardinality(progress.inFlight) + Len(scanRun.todo) <= progress.total
      BY FS_CardinalityType DEF PassInv, Counted
    <3>2. /\ IsFiniteSet(progress.inFlight \ {scanning[w].name})
          /\ Cardinality(progress.inFlight \ {scanning[w].name}) = Cardinality(progress.inFlight) - 1
      BY <3>1, <2>4, FS_RemoveElement
    <3>3. Len(scanRun.todo) \in Nat
      BY <1>a, TodoTyped
    <3>4. QED BY <2>1, <2>3, <3>1, <3>2, <3>3 DEF Counted
  <2>6. TodoListed' /\ scanRun.at # "idle" /\ scanRun' \in PassStates
    BY <1>a, <2>1 DEF PassInv, TodoListed, IdleIsQuiet, OldId
  <2>7. QED BY <2>1, <2>2, <2>3, <2>5, <2>6, HandFreed
<1>13. CASE UNCHANGED passVars
  BY <1>13 DEF passVars, PassInv, PassShape, RowsTrue, IdleIsQuiet, TodoListed, HandsTrue, ShownIsHeld,
               Counted, Holds, OldId
<1>14. QED BY <1>1, <1>2, <1>3, <1>4, <1>5, <1>6, <1>7, <1>8, <1>9, <1>10, <1>11, <1>12, <1>13
          DEF ScanPassNext, ScanPassStep, ScannerStep, PassRests

\* What a group's row tells of its last pass is about that group and that pass, and
\* the progress of the pass shows exactly the groups in its goroutines' hands,
\* whoever cancels the pass or deletes and adds groups meanwhile.
THEOREM GroupOutcomesTrue == ScanPassSpec => []GroupRowsTrue
<1>1. PassInit => PassInv
  <2> SUFFICES ASSUME PassInit PROVE PassInv
    OBVIOUS
  <2>1. NoGroupRow \in GroupRowStates /\ NoGroupRow.id = 0 /\ NoGroupRow.born = 0 /\ NoGroupRow.by = 0
    BY DEF NoGroupRow, GroupRowStates
  <2>2. NoPassRun \in PassStates /\ NoPassRun.todo = <<>>
    <3>1. <<>> \in Seq(TargetStates)
      OBVIOUS
    <3>2. QED BY <3>1 DEF NoPassRun, PassStates
  <2>3. NoScan \in ScanStates /\ NoScan.at = "off"
    BY DEF NoScan, ScanStates
  <2>4. /\ NoProgress \in ProgressStates /\ NoProgress.inFlight = {}
        /\ NoProgress.completed = 0 /\ NoProgress.total = 0
    BY DEF NoProgress, ProgressStates
  <2>5. PassShape /\ RowsTrue /\ IdleIsQuiet
    BY <2>1, <2>2, <2>3, <2>4 DEF PassInit, PassShape, RowsTrue, IdleIsQuiet
  <2>6. \A w \in ScanWorkers : ~Holds(w)
    BY <2>3 DEF PassInit, Holds
  <2>7. HandsTrue /\ ShownIsHeld
    BY <2>4, <2>6 DEF PassInit, HandsTrue, ShownIsHeld
  <2>8. TodoListed /\ Counted
    <3>1. DOMAIN scanRun.todo = {} /\ Len(scanRun.todo) = 0
      BY <2>2 DEF PassInit
    <3>2. QED BY <2>4, <3>1, FS_EmptySet DEF PassInit, TodoListed, Counted
  <2>9. QED BY <2>5, <2>7, <2>8 DEF PassInv
<1>2. PassInv => GroupRowsTrue
  <2> SUFFICES ASSUME PassInv PROVE GroupRowsTrue
    OBVIOUS
  <2>1. progress.inFlight = {scanning[w].name : w \in {v \in ScanWorkers :
                                                        scanning[v].at \in {"scan", "record", "end"}}}
    BY DEF PassInv, ShownIsHeld, Holds
  <2>2. progress.completed + Cardinality(progress.inFlight) <= progress.total
    <3>1. /\ progress.completed \in Nat /\ progress.total \in Nat
          /\ Len(scanRun.todo) \in Nat /\ Cardinality(progress.inFlight) \in Nat
      BY FS_CardinalityType, TodoTyped DEF PassInv, PassShape, ProgressStates, Counted
    <3>2. QED BY <3>1 DEF PassInv, Counted
  <2>3. QED BY <2>1, <2>2 DEF GroupRowsTrue, PassInv, RowsTrue
<1>3. QED BY <1>1, <1>2, PassStepInv, PTL DEF ScanPassSpec
-----------------------------------------------------------------------------
(* Notifications *)

NotifierStates == [at : {"idle", "send", "backoff", "off"}, event : Seq(EventIds), dest : Nat,
                   attempt : Nat, late : BOOLEAN]
DestinationSet == Range(Destinations)
PostStates == [sent : Nat, acked : Nat]
PostsFine(p) == p.sent <= MaxAttempts /\ (p.acked # 0 => p.acked = p.sent)

\* A worker delivers an event, within its window.
SendsTo(w) == notifier[w].at \in {"send", "backoff"}
Counts(w) == SendsTo(w) /\ ~notifier[w].late

NotifyShape ==
  /\ queue \in Seq(EventIds) /\ seen \subseteq EventIds
  /\ notifier \in [NotifyWorkers -> NotifierStates]
  /\ posts \in [DestinationSet -> [EventIds -> PostStates]]
  /\ \A d \in DestinationSet, e \in EventIds : PostsFine(posts[d][e])

\* Nothing was acknowledged where the event is on its way to, the POSTs made
\* there are the attempts so far, and further down there was none.
AheadIsUnsent(w, e) ==
  /\ \A j \in DOMAIN Destinations : j > notifier[w].dest => posts[Destinations[j]][e] = NoPost
  /\ LET p == posts[Destinations[notifier[w].dest]][e]
         n == notifier[w].attempt
     IN /\ p.acked = 0 /\ n <= MaxAttempts
        /\ p.sent = IF notifier[w].at = "send" THEN n - 1 ELSE n
        /\ notifier[w].at = "backoff" => n < MaxAttempts

\* A worker that delivers has an event, one that was seen unless its window
\* has passed; the others have none.
Informed(w) ==
  IF SendsTo(w)
  THEN \E e \in EventIds : /\ notifier[w].event = <<e>>
                           /\ notifier[w].dest \in DOMAIN Destinations
                           /\ Counts(w) => e \in seen /\ AheadIsUnsent(w, e)
  ELSE notifier[w].event = <<>>
SendersKnow == \A w \in NotifyWorkers : Informed(w)

\* No event is in two hands within its window.
OneSender ==
  \A v, w \in NotifyWorkers : Counts(v) /\ Counts(w) /\ notifier[v].event = notifier[w].event => v = w
\* What the window does not know has been nowhere within it.
UnseenIsUnsent == \A e \in EventIds \ seen : \A d \in DestinationSet : posts[d][e] = NoPost

NotifyInv == NotifyShape /\ SendersKnow /\ OneSender /\ UnseenIsUnsent

LEMMA DestinationFacts ==
  /\ DOMAIN Destinations \in SUBSET Nat
  /\ \A i \in DOMAIN Destinations : Destinations[i] \in DestinationSet
  /\ \A i, j \in DOMAIN Destinations : Destinations[i] = Destinations[j] => i = j
  /\ \A i \in DOMAIN Destinations : i > 0
<1> DEFINE D == Destinations
<1>1. D \in Seq(DestinationSet) /\ IsInjective(D)
  BY NotifyAssumption DEF DestinationSet
<1> HIDE DEF D
<1>2. /\ DOMAIN D \in SUBSET Nat /\ \A i \in DOMAIN D : i > 0 /\ D[i] \in DestinationSet
  BY <1>1
<1>3. \A i, j \in DOMAIN D : D[i] = D[j] => i = j
  BY <1>1 DEF IsInjective
<1>4. QED BY <1>2, <1>3 DEF D

LEMMA NoPostFacts ==
  /\ NoPost \in PostStates /\ NoPost.sent = 0 /\ NoPost.acked = 0 /\ PostsFine(NoPost)
  /\ \A x, y \in EventIds : <<x>> = <<y>> => x = y
<1>1. ASSUME NEW x \in EventIds, NEW y \in EventIds, <<x>> = <<y>> PROVE x = y
  BY <1>1
<1>2. QED BY <1>1, NotifyAssumption DEF NoPost, PostStates, PostsFine

\* The destination that comes next is further down the list.
LEMMA NextIsAhead ==
  ASSUME NEW e \in EventIds, NEW i \in Nat, NEW late \in BOOLEAN
  PROVE  /\ NextDestination(e, i, late) \in NotifierStates
         /\ \/ NextDestination(e, i, late) = NoDispatch
            \/ \E m \in DOMAIN Destinations :
                 /\ m > i
                 /\ NextDestination(e, i, late) =
                      [at |-> "send", event |-> <<e>>, dest |-> m, attempt |-> 1, late |-> late]
<1> DEFINE more == {j \in DOMAIN Destinations : j > i /\ wants(Destinations[j], e)}
<1>1. CASE more = {}
  <2>1. NextDestination(e, i, late) = NoDispatch
    BY <1>1 DEF NextDestination
  <2>2. NoDispatch \in NotifierStates
    <3>1. <<>> \in Seq(EventIds)
      OBVIOUS
    <3>2. QED BY <3>1 DEF NoDispatch, NotifierStates
  <2>3. QED BY <2>1, <2>2
<1>2. CASE more # {}
  <2>1. NextDestination(e, i, late) =
          [at |-> "send", event |-> <<e>>, dest |-> Min(more), attempt |-> 1, late |-> late]
    BY <1>2 DEF NextDestination
  <2>2. more \in SUBSET Nat
    BY DestinationFacts
  <2>3. Min(more) \in more
    <3> HIDE DEF more
    <3>1. QED BY <1>2, <2>2, MinIsMember
  <2>4. PICK m \in Nat : m = Min(more) /\ m \in DOMAIN Destinations /\ m > i
    BY <2>2, <2>3
  <2>5. <<e>> \in Seq(EventIds)
    OBVIOUS
  <2> HIDE DEF more
  <2>6. [at |-> "send", event |-> <<e>>, dest |-> m, attempt |-> 1, late |-> late] \in NotifierStates
    BY <2>5 DEF NotifierStates
  <2>7. QED BY <2>1, <2>4, <2>6
<1>3. QED BY <1>1, <1>2

\* A worker moves on with what it has in hand, or drops it: the other workers
\* see nothing of the POSTs it makes.
LEMMA SenderMoves ==
  ASSUME NotifyInv, NEW w \in NotifyWorkers, NEW n \in NotifierStates,
         notifier' = [notifier EXCEPT ![w] = n], UNCHANGED <<queue, seen>>,
         posts' \in [DestinationSet -> [EventIds -> PostStates]],
         \A d \in DestinationSet, f \in EventIds :
           posts'[d][f] = posts[d][f]
           \/ (Counts(w) /\ notifier[w].event = <<f>> /\ PostsFine(posts'[d][f])),
         Informed(w)',
         Counts(w)' => Counts(w) /\ n.event = notifier[w].event
  PROVE  NotifyInv'
<1>1. notifier'[w] = n /\ \A v \in NotifyWorkers \ {w} : notifier'[v] = notifier[v]
  BY DEF NotifyInv, NotifyShape
<1>2. NotifyShape'
  BY DEF NotifyInv, NotifyShape
<1>3. \A v \in NotifyWorkers \ {w} : (SendsTo(v)' <=> SendsTo(v)) /\ (Counts(v)' <=> Counts(v))
  BY <1>1 DEF SendsTo, Counts
<1>4. OneSender'
  BY <1>1, <1>3 DEF NotifyInv, OneSender
<1>5. ASSUME NEW v \in NotifyWorkers \ {w} PROVE Informed(v)'
  <2>1. Informed(v)
    BY DEF NotifyInv, SendersKnow
  <2>2. CASE ~SendsTo(v)
    BY <1>1, <1>3, <2>1, <2>2 DEF Informed
  <2>3. CASE SendsTo(v)
    <3>1. PICK e \in EventIds : /\ notifier[v].event = <<e>>
                                /\ notifier[v].dest \in DOMAIN Destinations
                                /\ Counts(v) => e \in seen /\ AheadIsUnsent(v, e)
      BY <2>1, <2>3 DEF Informed
    <3>2. Counts(v) => \A d \in DestinationSet : posts'[d][e] = posts[d][e]
      BY <3>1 DEF NotifyInv, OneSender
    <3>3. Counts(v) => AheadIsUnsent(v, e)'
      BY <1>1, <3>1, <3>2, DestinationFacts DEF AheadIsUnsent
    <3>4. QED BY <1>1, <1>3, <2>3, <3>1, <3>3 DEF Informed
  <2>4. QED BY <2>2, <2>3
<1>6. SendersKnow'
  BY <1>5 DEF SendersKnow
<1>7. UnseenIsUnsent'
  <2>1. ASSUME NEW f \in EventIds \ seen, Counts(w), notifier[w].event = <<f>> PROVE FALSE
    BY <2>1, NoPostFacts DEF NotifyInv, SendersKnow, Informed, Counts
  <2>2. QED BY <2>1 DEF NotifyInv, UnseenIsUnsent
<1>8. QED BY <1>2, <1>4, <1>6, <1>7 DEF NotifyInv

\* What a worker that delivers has in hand.
LEMMA InTheHand ==
  ASSUME NotifyInv, NEW w \in NotifyWorkers, SendsTo(w)
  PROVE  \E e \in EventIds, i \in DOMAIN Destinations :
           /\ notifier[w].event = <<e>> /\ notifier[w].dest = i /\ i \in Nat
           /\ EventOf(w) = e /\ DestinationOf(w) = Destinations[i] /\ Destinations[i] \in DestinationSet
           /\ notifier[w].attempt \in Nat /\ notifier[w].late \in BOOLEAN
           /\ posts[Destinations[i]][e] \in PostStates
           /\ Counts(w) => e \in seen /\ AheadIsUnsent(w, e)
<1>1. PICK e \in EventIds : /\ notifier[w].event = <<e>>
                            /\ notifier[w].dest \in DOMAIN Destinations
                            /\ Counts(w) => e \in seen /\ AheadIsUnsent(w, e)
  BY DEF NotifyInv, SendersKnow, Informed
<1>2. notifier[w].attempt \in Nat /\ notifier[w].late \in BOOLEAN
  BY DEF NotifyInv, NotifyShape, NotifierStates
<1>3. EventOf(w) = e
  BY <1>1 DEF EventOf
<1>4. posts[Destinations[notifier[w].dest]][e] \in PostStates
  BY <1>1, DestinationFacts DEF NotifyInv, NotifyShape
<1>5. QED BY <1>1, <1>2, <1>3, <1>4, DestinationFacts DEF DestinationOf

\* The POSTs that count are one more at the destination in hand.
LEMMA PostKeeps ==
  ASSUME NotifyInv, NEW w \in NotifyWorkers, notifier[w].at = "send", NEW ok \in BOOLEAN, Posts(w, ok),
         NEW e \in EventIds, NEW i \in DOMAIN Destinations,
         notifier[w].event = <<e>>, notifier[w].dest = i
  PROVE  /\ posts' \in [DestinationSet -> [EventIds -> PostStates]]
         /\ \A d \in DestinationSet, f \in EventIds :
              posts'[d][f] = posts[d][f]
              \/ (Counts(w) /\ notifier[w].event = <<f>> /\ PostsFine(posts'[d][f]))
         /\ \A d \in DestinationSet : d # Destinations[i] => posts'[d][e] = posts[d][e]
         /\ Counts(w) => /\ posts'[Destinations[i]][e].sent = notifier[w].attempt
                         /\ ~ok => posts'[Destinations[i]][e].acked = 0
<1> DEFINE d0 == Destinations[i]
           p == posts[d0][e]
<1>1. /\ EventOf(w) = e /\ DestinationOf(w) = d0 /\ d0 \in DestinationSet /\ SendsTo(w)
      /\ posts \in [DestinationSet -> [EventIds -> PostStates]] /\ p \in PostStates
      /\ notifier[w].attempt \in Nat
  BY DestinationFacts DEF EventOf, DestinationOf, SendsTo, NotifyInv, NotifyShape, NotifierStates
<1>2. CASE notifier[w].late
  <2>1. posts' = posts /\ ~Counts(w)
    BY <1>2 DEF Posts, Counts
  <2>2. QED BY <1>1, <2>1
<1>3. CASE ~notifier[w].late
  <2>1. Counts(w)
    BY <1>1, <1>3 DEF Counts
  <2>2. PICK k \in EventIds, m \in DOMAIN Destinations :
          notifier[w].event = <<k>> /\ notifier[w].dest = m /\ AheadIsUnsent(w, k)
    BY <1>1, <2>1, InTheHand
  <2>3. AheadIsUnsent(w, e)
    BY <2>2, NoPostFacts
  <2>4. p.acked = 0 /\ p.sent = notifier[w].attempt - 1 /\ notifier[w].attempt <= MaxAttempts
    BY <2>3 DEF AheadIsUnsent
  <2> DEFINE q == OneMore(p, ok)
  <2>5. /\ q \in PostStates /\ q.sent = notifier[w].attempt /\ PostsFine(q)
        /\ ~ok => q.acked = 0
    <3>1. p.sent \in Nat /\ p.acked \in Nat
      BY <1>1 DEF PostStates
    <3> HIDE DEF p
    <3>2. q = [sent |-> notifier[w].attempt, acked |-> IF ok THEN notifier[w].attempt ELSE 0]
      BY <1>1, <2>4, <3>1 DEF OneMore
    <3>3. QED BY <1>1, <2>4, <3>2 DEF PostStates, PostsFine
  <2>6. posts' = [posts EXCEPT ![d0][e] = q]
    BY <1>1, <1>3 DEF Posts
  <2> HIDE DEF q
  <2>7. /\ posts' \in [DestinationSet -> [EventIds -> PostStates]] /\ posts'[d0][e] = q
        /\ \A d \in DestinationSet, f \in EventIds :
             d # d0 \/ f # e => posts'[d][f] = posts[d][f]
    BY <1>1, <2>5, <2>6
  <2>8. QED BY <2>1, <2>5, <2>7
<1>4. QED BY <1>2, <1>3

\* A worker moves to another destination: the one before was acknowledged or
\* given up.
LEMMA SenderGoesOn ==
  ASSUME NotifyInv, NEW w \in NotifyWorkers, SendsTo(w), GoesOn(w), UNCHANGED <<queue, seen>>,
         UNCHANGED posts \/ (notifier[w].at = "send" /\ \E ok \in BOOLEAN : Posts(w, ok))
  PROVE  NotifyInv'
<1>1. PICK e \in EventIds, i \in DOMAIN Destinations :
           /\ notifier[w].event = <<e>> /\ notifier[w].dest = i /\ i \in Nat
           /\ EventOf(w) = e /\ DestinationOf(w) = Destinations[i] /\ Destinations[i] \in DestinationSet
           /\ notifier[w].attempt \in Nat /\ notifier[w].late \in BOOLEAN
           /\ posts[Destinations[i]][e] \in PostStates
           /\ Counts(w) => e \in seen /\ AheadIsUnsent(w, e)
  BY InTheHand
<1>2. PICK n \in NotifierStates :
        /\ notifier' = [notifier EXCEPT ![w] = n]
        /\ \/ n = NoDispatch
           \/ \E m \in DOMAIN Destinations :
                /\ m > i
                /\ n = [at |-> "send", event |-> <<e>>, dest |-> m, attempt |-> 1,
                        late |-> notifier[w].late]
  <2> DEFINE n == NextDestination(e, i, notifier[w].late)
  <2>1. notifier' = [notifier EXCEPT ![w] = n]
    BY <1>1 DEF GoesOn
  <2>2. /\ n \in NotifierStates
        /\ \/ n = NoDispatch
           \/ \E m \in DOMAIN Destinations :
                /\ m > i
                /\ n = [at |-> "send", event |-> <<e>>, dest |-> m, attempt |-> 1,
                        late |-> notifier[w].late]
    BY <1>1, NextIsAhead
  <2> HIDE DEF n
  <2>3. QED BY <2>1, <2>2
<1>3. notifier'[w] = n
  BY <1>2 DEF NotifyInv, NotifyShape
<1>4. /\ posts' \in [DestinationSet -> [EventIds -> PostStates]]
      /\ \A d \in DestinationSet, f \in EventIds :
           posts'[d][f] = posts[d][f]
           \/ (Counts(w) /\ notifier[w].event = <<f>> /\ PostsFine(posts'[d][f]))
      /\ \A d \in DestinationSet : d # Destinations[i] => posts'[d][e] = posts[d][e]
  <2>1. CASE UNCHANGED posts
    BY <2>1 DEF NotifyInv, NotifyShape
  <2>2. CASE notifier[w].at = "send" /\ \E ok \in BOOLEAN : Posts(w, ok)
    BY <1>1, <2>2, PostKeeps
  <2>3. QED BY <2>1, <2>2
<1>5. CASE n = NoDispatch
  <2>1. ~SendsTo(w)' /\ Informed(w)'
    BY <1>3, <1>5 DEF NoDispatch, SendsTo, Informed
  <2>2. QED BY <1>2, <1>4, <2>1, SenderMoves DEF Counts
<1>6. ASSUME NEW m \in DOMAIN Destinations, m > i,
             n = [at |-> "send", event |-> <<e>>, dest |-> m, attempt |-> 1, late |-> notifier[w].late]
      PROVE  NotifyInv'
  <2>1. SendsTo(w)' /\ (Counts(w)' <=> Counts(w))
    BY <1>3, <1>6 DEF SendsTo, Counts
  <2>2. Counts(w) => \A j \in DOMAIN Destinations : j >= m => posts'[Destinations[j]][e] = NoPost
    BY <1>1, <1>4, <1>6, DestinationFacts DEF AheadIsUnsent
  <2>3. Counts(w) => AheadIsUnsent(w, e)'
    <3>1. m \in Nat /\ m >= m /\ 1 <= MaxAttempts
      BY DestinationFacts, NotifyAssumption
    <3>2. /\ notifier'[w].dest = m /\ notifier'[w].at = "send" /\ notifier'[w].attempt = 1
      BY <1>3, <1>6
    <3>3. \A j \in DOMAIN Destinations : j > m => j >= m
      BY <3>1, DestinationFacts
    <3>4. QED BY <2>2, <3>1, <3>2, <3>3, NoPostFacts DEF AheadIsUnsent
  <2>4. Informed(w)'
    BY <1>1, <1>3, <1>6, <2>1, <2>3 DEF Informed
  <2>5. QED BY <1>1, <1>2, <1>4, <1>6, <2>1, <2>4, SenderMoves
<1>7. QED BY <1>2, <1>5, <1>6

\* The attempt was not the last: the worker waits, and tries again.
LEMMA SenderRetries ==
  ASSUME NotifyInv, NEW w \in NotifyWorkers, UNCHANGED <<queue, seen>>,
         \/ /\ notifier[w].at = "send" /\ notifier[w].attempt < MaxAttempts
            /\ notifier' = [notifier EXCEPT ![w].at = "backoff"]
            /\ Posts(w, FALSE)
         \/ /\ notifier[w].at = "backoff"
            /\ notifier' = [notifier EXCEPT ![w].at = "send", ![w].attempt = @ + 1]
            /\ UNCHANGED posts
  PROVE  NotifyInv'
<1>a. SendsTo(w) /\ notifier \in [NotifyWorkers -> NotifierStates] /\ MaxAttempts \in Nat
  BY NotifyAssumption DEF SendsTo, NotifyInv, NotifyShape
<1>1. PICK e \in EventIds, i \in DOMAIN Destinations :
           /\ notifier[w].event = <<e>> /\ notifier[w].dest = i /\ i \in Nat
           /\ EventOf(w) = e /\ DestinationOf(w) = Destinations[i] /\ Destinations[i] \in DestinationSet
           /\ notifier[w].attempt \in Nat /\ notifier[w].late \in BOOLEAN
           /\ posts[Destinations[i]][e] \in PostStates
           /\ Counts(w) => e \in seen /\ AheadIsUnsent(w, e)
  BY <1>a, InTheHand
<1>2. CASE /\ notifier[w].at = "send" /\ notifier[w].attempt < MaxAttempts
           /\ notifier' = [notifier EXCEPT ![w].at = "backoff"]
           /\ Posts(w, FALSE)
  <2> DEFINE n == [notifier[w] EXCEPT !.at = "backoff"]
  <2>1. notifier' = [notifier EXCEPT ![w] = n]
    BY <1>a, <1>2
  <2>2. /\ n \in NotifierStates /\ n.at = "backoff" /\ n.event = <<e>> /\ n.dest = i
        /\ n.attempt = notifier[w].attempt /\ n.late = notifier[w].late
    BY <1>a, <1>1 DEF NotifierStates
  <2> HIDE DEF n
  <2>3. notifier'[w] = n
    BY <1>a, <2>1
  <2>4. SendsTo(w)' /\ (Counts(w)' <=> Counts(w))
    BY <1>a, <2>2, <2>3 DEF SendsTo, Counts
  <2>5. /\ posts' \in [DestinationSet -> [EventIds -> PostStates]]
        /\ \A d \in DestinationSet, f \in EventIds :
             posts'[d][f] = posts[d][f]
             \/ (Counts(w) /\ notifier[w].event = <<f>> /\ PostsFine(posts'[d][f]))
        /\ \A d \in DestinationSet : d # Destinations[i] => posts'[d][e] = posts[d][e]
        /\ Counts(w) => posts'[Destinations[i]][e].sent = notifier[w].attempt
                        /\ posts'[Destinations[i]][e].acked = 0
    BY <1>1, <1>2, PostKeeps, ZenonT(40)
  <2>6. Counts(w) => AheadIsUnsent(w, e)'
    <3>1. ASSUME Counts(w), NEW j \in DOMAIN Destinations, j > i
          PROVE  posts'[Destinations[j]][e] = NoPost
      <4>1. Destinations[j] \in DestinationSet /\ Destinations[j] # Destinations[i]
        BY <1>1, <3>1, DestinationFacts
      <4>2. QED BY <1>1, <2>5, <3>1, <4>1 DEF AheadIsUnsent
    <3>2. QED BY <1>1, <1>2, <2>2, <2>3, <2>5, <3>1 DEF AheadIsUnsent
  <2>7. Informed(w)'
    BY <1>1, <2>2, <2>3, <2>4, <2>6 DEF Informed
  <2>8. QED BY <1>1, <2>1, <2>2, <2>4, <2>5, <2>7, SenderMoves
<1>3. CASE /\ notifier[w].at = "backoff"
           /\ notifier' = [notifier EXCEPT ![w].at = "send", ![w].attempt = @ + 1]
           /\ UNCHANGED posts
  <2> DEFINE k == notifier[w].attempt + 1
             n == [notifier[w] EXCEPT !.at = "send", !.attempt = k]
  <2>1. notifier' = [notifier EXCEPT ![w] = n]
    BY <1>a, <1>3
  <2>2. k \in Nat /\ k - 1 = notifier[w].attempt /\ (notifier[w].attempt < MaxAttempts => k <= MaxAttempts)
    BY <1>a, <1>1
  <2> HIDE DEF k
  <2>3. /\ n \in NotifierStates /\ n.at = "send" /\ n.event = <<e>> /\ n.dest = i
        /\ n.attempt = k /\ n.late = notifier[w].late
    BY <1>a, <1>1, <2>2, ZenonT(40) DEF NotifierStates
  <2> HIDE DEF n
  <2>4. notifier'[w] = n
    BY <1>a, <2>1
  <2>5. SendsTo(w)' /\ (Counts(w)' <=> Counts(w))
    BY <1>a, <2>3, <2>4 DEF SendsTo, Counts
  <2>6. Counts(w) => AheadIsUnsent(w, e)'
    BY <1>1, <1>3, <2>2, <2>3, <2>4 DEF AheadIsUnsent
  <2>7. Informed(w)'
    BY <1>1, <2>3, <2>4, <2>5, <2>6 DEF Informed
  <2>8. posts' \in [DestinationSet -> [EventIds -> PostStates]]
    BY <1>3 DEF NotifyInv, NotifyShape
  <2>9. QED BY <1>1, <1>3, <2>1, <2>3, <2>5, <2>7, <2>8, SenderMoves
<1>4. QED BY <1>2, <1>3

\* deduped lets one worker take an id, and nobody has sent it anywhere.
LEMMA DispatchOnce ==
  ASSUME NotifyInv, NEW w \in NotifyWorkers, Dispatch(w)
  PROVE  NotifyInv'
<1>1. /\ notifier \in [NotifyWorkers -> NotifierStates] /\ seen \subseteq EventIds
      /\ queue \in Seq(EventIds) /\ queue # <<>>
      /\ ~SendsTo(w) /\ UNCHANGED posts
  BY DEF NotifyInv, NotifyShape, Dispatch, SendsTo
<1>2. PICK e \in EventIds : e = Head(queue)
  BY <1>1
<1>3. queue' = Tail(queue) /\ queue' \in Seq(EventIds)
  BY <1>1, TailFacts DEF Dispatch
<1>4. seen' = seen \cup {e}
  BY <1>2 DEF Dispatch, deduped
<1>5. CASE e \in seen
  <2>1. UNCHANGED notifier /\ seen' = seen
    BY <1>2, <1>4, <1>5 DEF Dispatch, deduped
  <2>2. QED BY <1>1, <1>3, <2>1
            DEF NotifyInv, NotifyShape, SendersKnow, Informed, OneSender, UnseenIsUnsent, SendsTo,
                Counts, AheadIsUnsent
<1>6. CASE e \notin seen
  <2>1. PICK n \in NotifierStates :
          /\ notifier' = [notifier EXCEPT ![w] = n]
          /\ \/ n = NoDispatch
             \/ \E m \in DOMAIN Destinations :
                  n = [at |-> "send", event |-> <<e>>, dest |-> m, attempt |-> 1, late |-> FALSE]
    <3>1. notifier' = [notifier EXCEPT ![w] = NextDestination(e, 0, FALSE)]
      BY <1>2, <1>6 DEF Dispatch, deduped
    <3>2. QED BY <3>1, NextIsAhead
  <2>2. notifier'[w] = n /\ \A v \in NotifyWorkers \ {w} : notifier'[v] = notifier[v]
    BY <1>1, <2>1
  <2>3. NotifyShape'
    BY <1>1, <1>3, <1>4, <2>1 DEF NotifyInv, NotifyShape
  <2>4. \A v \in NotifyWorkers \ {w} : (SendsTo(v)' <=> SendsTo(v)) /\ (Counts(v)' <=> Counts(v))
    BY <2>2 DEF SendsTo, Counts
  <2>5. ASSUME NEW v \in NotifyWorkers \ {w}
        PROVE  Informed(v)' /\ (Counts(v) => notifier[v].event # <<e>>)
    <3>1. Informed(v)
      BY DEF NotifyInv, SendersKnow
    <3>2. CASE ~SendsTo(v)
      BY <2>2, <2>4, <3>1, <3>2 DEF Informed, Counts
    <3>3. CASE SendsTo(v)
      <4>1. PICK f \in EventIds : /\ notifier[v].event = <<f>>
                                  /\ notifier[v].dest \in DOMAIN Destinations
                                  /\ Counts(v) => f \in seen /\ AheadIsUnsent(v, f)
        BY <3>1, <3>3 DEF Informed
      <4>2. Counts(v) => AheadIsUnsent(v, f)'
        BY <1>1, <2>2, <4>1 DEF AheadIsUnsent
      <4>3. Informed(v)'
        BY <1>4, <2>2, <2>4, <3>3, <4>1, <4>2 DEF Informed
      <4>4. QED BY <1>6, <4>1, <4>3, NoPostFacts
    <3>4. QED BY <3>2, <3>3
  <2>6. \A d \in DestinationSet : posts'[d][e] = NoPost
    BY <1>1, <1>6 DEF NotifyInv, UnseenIsUnsent
  <2>7. Informed(w)' /\ (Counts(w)' => notifier'[w].event = <<e>>)
    <3>1. CASE n = NoDispatch
      BY <2>2, <3>1 DEF NoDispatch, Informed, SendsTo, Counts
    <3>2. ASSUME NEW m \in DOMAIN Destinations,
                 n = [at |-> "send", event |-> <<e>>, dest |-> m, attempt |-> 1, late |-> FALSE]
          PROVE  Informed(w)' /\ (Counts(w)' => notifier'[w].event = <<e>>)
      <4>1. /\ notifier'[w].at = "send" /\ notifier'[w].event = <<e>> /\ notifier'[w].dest = m
            /\ notifier'[w].attempt = 1
        BY <2>2, <3>2
      <4>2. 1 <= MaxAttempts
        BY NotifyAssumption
      <4>3. AheadIsUnsent(w, e)'
        BY <2>6, <4>1, <4>2, DestinationFacts, NoPostFacts DEF AheadIsUnsent
      <4>4. e \in seen' /\ SendsTo(w)'
        BY <1>4, <4>1 DEF SendsTo
      <4>5. QED BY <3>2, <4>1, <4>3, <4>4 DEF Informed
    <3>3. QED BY <2>1, <3>1, <3>2
  <2>8. SendersKnow'
    BY <2>5, <2>7 DEF SendersKnow
  <2>9. OneSender'
    <3>1. \A v \in NotifyWorkers \ {w} : Counts(v)' /\ Counts(w)' => notifier'[v].event # notifier'[w].event
      BY <2>2, <2>4, <2>5, <2>7
    <3>2. QED BY <2>2, <2>4, <3>1 DEF NotifyInv, OneSender
  <2>10. UnseenIsUnsent'
    BY <1>1, <1>4 DEF NotifyInv, UnseenIsUnsent
  <2>11. QED BY <2>3, <2>8, <2>9, <2>10 DEF NotifyInv
<1>7. QED BY <1>5, <1>6

\* The window of an id passes: what was sent counts no more, and whoever still
\* sends it is late.
LEMMA WindowForgets ==
  ASSUME NotifyInv, NEW e \in EventIds, WindowPasses(e)
  PROVE  NotifyInv'
<1>a. /\ notifier \in [NotifyWorkers -> NotifierStates] /\ seen \subseteq EventIds
      /\ queue \in Seq(EventIds) /\ posts \in [DestinationSet -> [EventIds -> PostStates]]
  BY DEF NotifyInv, NotifyShape
<1>1. /\ seen' = seen \ {e} /\ UNCHANGED queue
      /\ notifier' = [w \in NotifyWorkers |->
                       IF notifier[w].event = <<e>> THEN [notifier[w] EXCEPT !.late = TRUE]
                                                    ELSE notifier[w]]
      /\ posts' = [d \in DestinationSet |-> [posts[d] EXCEPT ![e] = NoPost]]
  BY DEF WindowPasses, DestinationSet
<1>2. /\ posts' \in [DestinationSet -> [EventIds -> PostStates]]
      /\ \A d \in DestinationSet : posts'[d][e] = NoPost
      /\ \A d \in DestinationSet : \A f \in EventIds \ {e} : posts'[d][f] = posts[d][f]
  BY <1>a, <1>1, NoPostFacts
<1>3. ASSUME NEW w \in NotifyWorkers
      PROVE  /\ notifier'[w] \in NotifierStates
             /\ notifier'[w].at = notifier[w].at /\ notifier'[w].event = notifier[w].event
             /\ notifier'[w].dest = notifier[w].dest /\ notifier'[w].attempt = notifier[w].attempt
             /\ Counts(w)' => Counts(w) /\ notifier[w].event # <<e>>
             /\ SendsTo(w)' <=> SendsTo(w)
  <2>1. notifier[w] \in NotifierStates
    BY <1>a
  <2>2. CASE notifier[w].event = <<e>>
    <3>1. notifier'[w] = [notifier[w] EXCEPT !.late = TRUE]
      BY <1>1, <2>2
    <3>2. QED BY <2>1, <3>1 DEF NotifierStates, Counts, SendsTo
  <2>3. CASE notifier[w].event # <<e>>
    <3>1. notifier'[w] = notifier[w]
      BY <1>1, <2>3
    <3>2. QED BY <2>1, <2>3, <3>1 DEF Counts, SendsTo
  <2>4. QED BY <2>2, <2>3
<1>4. NotifyShape'
  <2>1. notifier' \in [NotifyWorkers -> NotifierStates]
    BY <1>1, <1>3
  <2>2. \A d \in DestinationSet, f \in EventIds : PostsFine(posts'[d][f])
    BY <1>2, NoPostFacts DEF NotifyInv, NotifyShape
  <2>3. QED BY <1>a, <1>1, <1>2, <2>1, <2>2 DEF NotifyShape
<1>5. OneSender'
  BY <1>3 DEF NotifyInv, OneSender
<1>6. UnseenIsUnsent'
  BY <1>a, <1>1, <1>2 DEF NotifyInv, UnseenIsUnsent
<1>7. ASSUME NEW w \in NotifyWorkers PROVE Informed(w)'
  <2>1. Informed(w)
    BY DEF NotifyInv, SendersKnow
  <2>2. CASE ~SendsTo(w)
    BY <1>3, <2>1, <2>2 DEF Informed
  <2>3. CASE SendsTo(w)
    <3>1. PICK f \in EventIds : /\ notifier[w].event = <<f>>
                                /\ notifier[w].dest \in DOMAIN Destinations
                                /\ Counts(w) => f \in seen /\ AheadIsUnsent(w, f)
      BY <2>1, <2>3 DEF Informed
    <3>2. Counts(w)' => f # e /\ f \in seen' /\ AheadIsUnsent(w, f)
      BY <1>1, <1>3, <3>1
    <3>3. Counts(w)' => AheadIsUnsent(w, f)'
      BY <1>2, <1>3, <3>1, <3>2, DestinationFacts DEF AheadIsUnsent
    <3>4. QED BY <1>3, <2>3, <3>1, <3>2, <3>3 DEF Informed
  <2>4. QED BY <2>2, <2>3
<1>8. QED BY <1>4, <1>5, <1>6, <1>7 DEF NotifyInv, SendersKnow

LEMMA NotifyStepInv == NotifyInv /\ [NotifyNext]_notifyVars => NotifyInv'
<1> SUFFICES ASSUME NotifyInv, [NotifyNext]_notifyVars PROVE NotifyInv'
  OBVIOUS
<1>a. /\ notifier \in [NotifyWorkers -> NotifierStates] /\ seen \subseteq EventIds
      /\ queue \in Seq(EventIds) /\ posts \in [DestinationSet -> [EventIds -> PostStates]]
  BY DEF NotifyInv, NotifyShape
<1>b. ASSUME queue' \in Seq(EventIds), UNCHANGED <<notifier, seen, posts>> PROVE NotifyInv'
  BY <1>a, <1>b DEF NotifyInv, NotifyShape, SendersKnow, Informed, OneSender, UnseenIsUnsent, SendsTo,
                    Counts, AheadIsUnsent
<1>1. ASSUME NEW e \in EventIds, Emit(e) PROVE NotifyInv'
  <2>1. queue' \in Seq(EventIds)
    BY <1>1, <1>a DEF Emit
  <2>2. QED BY <1>1, <1>b, <2>1 DEF Emit
<1>2. ASSUME NEW e \in EventIds, WindowPasses(e) PROVE NotifyInv'
  BY <1>2, WindowForgets
<1>3. ASSUME NEW w \in NotifyWorkers, Dispatch(w) PROVE NotifyInv'
  BY <1>3, DispatchOnce
<1>4. ASSUME NEW w \in NotifyWorkers, SendSucceeds(w) PROVE NotifyInv'
  <2>1. SendsTo(w) /\ notifier[w].at = "send" /\ GoesOn(w) /\ UNCHANGED <<queue, seen>> /\ Posts(w, TRUE)
    BY <1>4 DEF SendSucceeds, SendsTo
  <2>2. QED BY <2>1, SenderGoesOn
<1>5. ASSUME NEW w \in NotifyWorkers, SendFails(w) PROVE NotifyInv'
  <2>1. SendsTo(w) /\ notifier[w].at = "send" /\ UNCHANGED <<queue, seen>> /\ Posts(w, FALSE)
    BY <1>5 DEF SendFails, SendsTo
  <2>2. CASE GivesUp(w)
    BY <2>1, <2>2, SenderGoesOn DEF GivesUp
  <2>3. CASE notifier[w].attempt < MaxAttempts /\ notifier' = [notifier EXCEPT ![w].at = "backoff"]
    BY <2>1, <2>3, SenderRetries
  <2>4. QED BY <1>5, <2>2, <2>3 DEF SendFails
<1>6. ASSUME NEW w \in NotifyWorkers, Backoff(w) PROVE NotifyInv'
  <2>1. SendsTo(w) /\ notifier[w].at = "backoff" /\ UNCHANGED <<queue, seen, posts>>
    BY <1>6 DEF Backoff, SendsTo
  <2>2. CASE GivesUp(w)
    BY <2>1, <2>2, SenderGoesOn DEF GivesUp
  <2>3. CASE notifier' = [notifier EXCEPT ![w].at = "send", ![w].attempt = @ + 1]
    BY <2>1, <2>3, SenderRetries
  <2>4. QED BY <1>6, <2>2, <2>3 DEF Backoff
<1>7. ASSUME NEW w \in NotifyWorkers, NotifierLeaves(w) PROVE NotifyInv'
  <2>1. ~SendsTo(w) /\ UNCHANGED <<queue, seen, posts>> /\ notifier' = [notifier EXCEPT ![w].at = "off"]
    BY <1>7 DEF NotifierLeaves, SendsTo
  <2> DEFINE n == [notifier[w] EXCEPT !.at = "off"]
  <2>2. notifier' = [notifier EXCEPT ![w] = n]
    BY <1>a, <2>1
  <2>3. n \in NotifierStates /\ n.at = "off" /\ n.event = notifier[w].event
    BY <1>a DEF NotifierStates
  <2> HIDE DEF n
  <2>4. notifier'[w] = n
    BY <1>a, <2>2
  <2>5. ~SendsTo(w)' /\ Informed(w)'
    BY <2>1, <2>3, <2>4 DEF SendsTo, Informed, NotifyInv, SendersKnow
  <2>6. QED BY <1>a, <2>1, <2>2, <2>3, <2>5, SenderMoves DEF Counts
<1>8. CASE Stop
  BY <1>8, <1>a, <1>b DEF Stop
<1>9. CASE UNCHANGED notifyVars
  BY <1>9, <1>a, <1>b DEF notifyVars
<1>10. QED BY <1>1, <1>2, <1>3, <1>4, <1>5, <1>6, <1>7, <1>8, <1>9 DEF NotifyNext, NotifyRests

\* deduped and deliver: however often an event is emitted and however many
\* workers there are, the dispatches of one window make no more POSTs of it to a
\* destination than one has attempts, and none after an acknowledged one.
THEOREM RetriesAreBounded == NotifySpec => []RetriedOnlyUnacked
<1>1. NotifyInit => NotifyInv
  <2> SUFFICES ASSUME NotifyInit PROVE NotifyInv
    OBVIOUS
  <2>1. /\ NoDispatch \in NotifierStates /\ NoDispatch.at = "idle" /\ NoDispatch.event = <<>>
    <3>1. <<>> \in Seq(EventIds)
      OBVIOUS
    <3>2. QED BY <3>1 DEF NoDispatch, NotifierStates
  <2>2. NotifyShape
    BY <2>1, NoPostFacts DEF NotifyInit, NotifyShape, DestinationSet
  <2>3. SendersKnow /\ OneSender
    BY <2>1 DEF NotifyInit, SendersKnow, Informed, OneSender, SendsTo, Counts
  <2>4. UnseenIsUnsent
    BY DEF NotifyInit, UnseenIsUnsent, DestinationSet
  <2>5. QED BY <2>2, <2>3, <2>4 DEF NotifyInv
<1>2. NotifyInv => RetriedOnlyUnacked
  BY DEF NotifyInv, NotifyShape, RetriedOnlyUnacked, DestinationSet, PostsFine
<1>3. QED BY <1>1, <1>2, NotifyStepInv, PTL DEF NotifySpec
-----------------------------------------------------------------------------
(* The log buffer and its streams *)

\* Where the i-th oldest entry of a full ring is.
Slot(i) == IF next + i - 1 < BufferCap THEN next + i - 1 ELSE next + i - 1 - BufferCap

\* What a stream got, sent or still in its channel.
Got(s) == subs[s].sent \o subs[s].chan
SubStates == [at : {"none", "live", "closed"}, chan : Seq(Nat), sent : Seq(Nat),
              lost : BOOLEAN, begin : Nat]

\* Entries are numbered in the order of their logging.
LogShape ==
  /\ ring \in [0..(BufferCap - 1) -> Nat] /\ next \in 0..(BufferCap - 1) /\ full \in BOOLEAN
  /\ logged \in Seq(Nat) /\ \A i \in 1..Len(logged) : logged[i] = i
  /\ writer \in [Writers -> 0..Len(logged)]
  /\ subs \in [Streams -> SubStates] /\ \A s \in Streams : Len(subs[s].chan) <= ChannelCap
\* The ring holds everything until it wraps, and the newest entries after it.
RingHolds ==
  /\ full = FALSE => /\ Len(logged) = next
                     /\ \A i \in 1..next : ring[i - 1] = i
  /\ full = TRUE => /\ Len(logged) >= BufferCap
                    /\ \A i \in 1..BufferCap : ring[Slot(i)] = Len(logged) - BufferCap + i
\* Two writers never have the same entry to publish.
WritersApart == \A v, w \in Writers : writer[v] # 0 /\ writer[v] = writer[w] => v = w
\* What a stream got was logged and published, each entry once.
GotOnce ==
  \A s \in Streams :
    /\ \A i \in DOMAIN Got(s) : Got(s)[i] \in 1..Len(logged) /\ \A w \in Writers : writer[w] # Got(s)[i]
    /\ \A i, j \in DOMAIN Got(s) : Got(s)[i] = Got(s)[j] => i = j
\* What a live stream that kept up lacks, its writer has yet to publish.
NoneMissed ==
  \A s \in Streams : subs[s].at = "live" /\ subs[s].lost = FALSE =>
    \A e \in (subs[s].begin + 1)..Len(logged) : \/ \E i \in DOMAIN Got(s) : Got(s)[i] = e
                                                \/ \E w \in Writers : writer[w] = e

LogInv == LogShape /\ RingHolds /\ WritersApart /\ GotOnce /\ NoneMissed

LEMMA Around ==
  ASSUME NEW c \in Nat \ {0}, NEW x \in Nat, x < c + c
  PROVE  x % c = IF x < c THEN x ELSE x - c
<1>1. CASE x < c
  BY <1>1
<1>2. CASE c <= x
  BY <1>2
<1>3. QED BY <1>1, <1>2

\* add keeps the newest entries in the ring, in their order.
LEMMA AddKeeps ==
  ASSUME LogInv, NEW w \in Writers, Add(w)
  PROVE  RingHolds' /\ ring' \in [0..(BufferCap - 1) -> Nat] /\ next' \in 0..(BufferCap - 1)
         /\ full' \in BOOLEAN /\ Len(logged') = Len(logged) + 1
<1> DEFINE n == Len(logged)
<1>1. /\ ring \in [0..(BufferCap - 1) -> Nat] /\ next \in 0..(BufferCap - 1) /\ full \in BOOLEAN
      /\ logged \in Seq(Nat) /\ n \in Nat /\ BufferCap \in Nat \ {0} /\ RingHolds
  BY LogAssumption DEF LogInv, LogShape
<1>2. /\ ring' = [ring EXCEPT ![next] = n + 1] /\ logged' = Append(logged, n + 1)
      /\ next' = (next + 1) % BufferCap /\ full' = (full \/ next' = 0)
  BY DEF Add, Wraps
<1>3. Len(logged') = n + 1
  BY <1>1, <1>2
<1>4. next' = IF next + 1 < BufferCap THEN next + 1 ELSE 0
  <2>1. PICK x \in Nat : x = next + 1
    BY <1>1
  <2>a. x < BufferCap + BufferCap /\ BufferCap \in Nat \ {0}
    BY <1>1, <2>1
  <2>2. x % BufferCap = IF x < BufferCap THEN x ELSE x - BufferCap
    BY <2>a, Around
  <2>3. next' = x % BufferCap
    BY <1>2, <2>1
  <2>4. QED BY <1>1, <2>1, <2>2, <2>3
<1>5. ring' \in [0..(BufferCap - 1) -> Nat] /\ next' \in 0..(BufferCap - 1)
  BY <1>1, <1>2, <1>4
<1>6. ring'[next] = n + 1 /\ \A i \in 0..(BufferCap - 1) : i # next => ring'[i] = ring[i]
  BY <1>1, <1>2
<1>7. full' \in BOOLEAN
  BY <1>2, Zenon
<1>8. CASE full = FALSE /\ next' # 0
  <2>1. full' = FALSE
    BY <1>2, <1>8
  <2>2. next' = next + 1 /\ n = next /\ \A i \in 1..next : ring[i - 1] = i
    BY <1>1, <1>4, <1>8 DEF RingHolds
  <2>3. \A i \in 1..next' : ring'[i - 1] = i
    BY <1>1, <1>6, <2>2, SMTT(30)
  <2>4. QED BY <1>3, <1>5, <1>7, <2>1, <2>2, <2>3 DEF RingHolds
<1>9. CASE full = FALSE /\ next' = 0
  <2>1. full' = TRUE
    BY <1>2, <1>9
  <2>2. next + 1 = BufferCap /\ n = next /\ \A i \in 1..next : ring[i - 1] = i
    BY <1>1, <1>4, <1>9 DEF RingHolds
  <2>3. \A i \in 1..BufferCap : Slot(i)' = i - 1
    BY <1>1, <1>9 DEF Slot
  <2>4. ASSUME NEW i \in 1..BufferCap PROVE ring'[i - 1] = i
    <3>1. CASE i = BufferCap
      <4>1. i - 1 = next /\ n + 1 = i
        BY <1>1, <2>2, <3>1
      <4>2. QED BY <1>6, <4>1
    <3>2. CASE i # BufferCap
      <4>1. i \in 1..next /\ i - 1 \in 0..(BufferCap - 1) /\ i - 1 # next
        BY <1>1, <2>2, <3>2
      <4>2. QED BY <1>6, <2>2, <4>1
    <3>3. QED BY <3>1, <3>2
  <2>5. ASSUME NEW i \in 1..BufferCap PROVE ring'[Slot(i)'] = Len(logged') - BufferCap + i
    <3>1. Len(logged') - BufferCap + i = i
      BY <1>1, <1>3, <2>2
    <3>2. QED BY <2>3, <2>4, <3>1
  <2>6. QED BY <1>1, <1>3, <1>5, <1>7, <2>1, <2>2, <2>5 DEF RingHolds
<1>10. CASE full = TRUE
  <2>1. full' = TRUE
    BY <1>2, <1>10
  <2>2. n >= BufferCap /\ \A i \in 1..BufferCap : ring[Slot(i)] = n - BufferCap + i
    BY <1>1, <1>10 DEF RingHolds
  <2>3. ASSUME NEW i \in 1..(BufferCap - 1)
        PROVE  ring'[Slot(i)'] = n + 1 - BufferCap + i
    <3>1. i + 1 \in 1..BufferCap /\ i \in Nat
      BY <1>1
    <3>2. Slot(i)' = Slot(i + 1) /\ Slot(i + 1) # next /\ Slot(i + 1) \in 0..(BufferCap - 1)
      BY <1>1, <1>4, <3>1 DEF Slot
    <3>3. ring[Slot(i + 1)] = n - BufferCap + (i + 1)
      BY <2>2, <3>1
    <3>4. QED BY <1>1, <1>6, <3>1, <3>2, <3>3
  <2>4. ring'[Slot(BufferCap)'] = n + 1
    <3>1. Slot(BufferCap)' = next
      BY <1>1, <1>4 DEF Slot
    <3>2. QED BY <1>6, <3>1
  <2>5. ASSUME NEW i \in 1..BufferCap PROVE ring'[Slot(i)'] = Len(logged') - BufferCap + i
    <3>1. CASE i = BufferCap
      <4>1. Len(logged') - BufferCap + i = n + 1
        BY <1>1, <1>3, <3>1
      <4>2. QED BY <2>4, <3>1, <4>1
    <3>2. CASE i # BufferCap
      <4>1. i \in 1..(BufferCap - 1) /\ Len(logged') - BufferCap + i = n + 1 - BufferCap + i
        BY <1>1, <1>3, <3>2
      <4>2. QED BY <2>3, <4>1
    <3>3. QED BY <3>1, <3>2
  <2>6. QED BY <1>1, <1>3, <1>5, <1>7, <2>1, <2>2, <2>5 DEF RingHolds
<1>11. QED BY <1>1, <1>8, <1>9, <1>10

LEMMA ConcatAppend ==
  ASSUME NEW S, NEW a \in Seq(S), NEW b \in Seq(S), NEW e \in S
  PROVE  a \o b \in Seq(S) /\ a \o Append(b, e) = Append(a \o b, e)
<1>1. a \o b \in Seq(S) /\ a \o Append(b, e) \in Seq(S) /\ Append(a \o b, e) \in Seq(S)
  OBVIOUS
<1>2. Len(a \o Append(b, e)) = Len(a) + Len(b) + 1 /\ Len(Append(a \o b, e)) = Len(a) + Len(b) + 1
  OBVIOUS
<1>3. \A i \in 1..(Len(a) + Len(b) + 1) : (a \o Append(b, e))[i] = Append(a \o b, e)[i]
  OBVIOUS
<1>4. QED BY <1>1, <1>2, <1>3

LEMMA ConcatShift ==
  ASSUME NEW S, NEW a \in Seq(S), NEW b \in Seq(S), b # <<>>
  PROVE  Append(a, Head(b)) \o Tail(b) = a \o b
<1>1. Len(b) \in Nat \ {0} /\ Head(b) \in S /\ Head(b) = b[1] /\ Tail(b) \in Seq(S)
      /\ Len(Tail(b)) = Len(b) - 1 /\ \A i \in 1..(Len(b) - 1) : Tail(b)[i] = b[i + 1]
  OBVIOUS
<1>2. PICK h \in S, t \in Seq(S) : h = Head(b) /\ t = Tail(b)
  BY <1>1
<1>3. Len(t) = Len(b) - 1 /\ h = b[1] /\ \A i \in 1..(Len(b) - 1) : t[i] = b[i + 1]
  BY <1>1, <1>2
<1>4. Append(a, h) \in Seq(S) /\ Len(Append(a, h)) = Len(a) + 1
      /\ Append(a, h)[Len(a) + 1] = h /\ \A i \in 1..Len(a) : Append(a, h)[i] = a[i]
  OBVIOUS
<1>5. PICK c \in Seq(S) : c = Append(a, h)
  BY <1>4
<1>c. Len(a) \in Nat /\ Len(b) \in Nat /\ Len(t) \in Nat /\ Len(c) \in Nat /\ Len(c) = Len(a) + 1
  BY <1>4, <1>5
<1>6. /\ c \o t \in Seq(S) /\ a \o b \in Seq(S)
      /\ Len(c \o t) = Len(a) + Len(b) /\ Len(a \o b) = Len(a) + Len(b)
  <2>1. c \o t \in Seq(S) /\ Len(c \o t) = Len(c) + Len(t)
    OBVIOUS
  <2>2. a \o b \in Seq(S) /\ Len(a \o b) = Len(a) + Len(b)
    OBVIOUS
  <2>3. Len(c) + Len(t) = Len(a) + Len(b)
    BY <1>3, <1>c
  <2>4. QED BY <2>1, <2>2, <2>3
<1>7. ASSUME NEW i \in 1..(Len(a) + Len(b)) PROVE (c \o t)[i] = (a \o b)[i]
  <2>1. CASE i <= Len(a)
    BY <2>1, <1>3, <1>4, <1>5
  <2>2. CASE i = Len(a) + 1
    BY <2>2, <1>1, <1>3, <1>4, <1>5
  <2>3. CASE i > Len(a) + 1
    <3>1. (c \o t)[i] = t[i - (Len(a) + 1)]
      BY <2>3, <1>1, <1>3, <1>4, <1>5
    <3>2. (a \o b)[i] = b[i - Len(a)]
      BY <2>3
    <3>3. i - (Len(a) + 1) \in 1..(Len(b) - 1) /\ i - (Len(a) + 1) + 1 = i - Len(a)
      BY <2>3
    <3>4. QED BY <1>3, <3>1, <3>2, <3>3
  <2>4. i <= Len(a) \/ i = Len(a) + 1 \/ i > Len(a) + 1
    BY <1>c
  <2>5. QED BY <2>1, <2>2, <2>3, <2>4, Zenon
<1>8. c \o t = a \o b
  BY <1>6, <1>7, SMTT(30)
<1>9. QED BY <1>2, <1>5, <1>8

\* What a subscription is before and after a step of its own.
LEMMA SubMoves ==
  ASSUME LogInv, NEW s \in Streams, NEW r \in SubStates, subs' = [subs EXCEPT ![s] = r],
         UNCHANGED <<ring, next, full, writer, logged>>, Len(r.chan) <= ChannelCap,
         \/ r.sent \o r.chan = Got(s)
         \/ r.sent \o r.chan = <<>>,
         r.at = "live" /\ r.lost = FALSE =>
           \/ /\ subs[s].at = "live" /\ subs[s].lost = FALSE /\ r.begin = subs[s].begin
              /\ r.sent \o r.chan = Got(s)
           \/ r.begin = Len(logged)
  PROVE  LogInv'
<1>1. subs'[s] = r /\ \A q \in Streams \ {s} : subs'[q] = subs[q]
  BY DEF LogInv, LogShape
<1>2. Got(s)' = r.sent \o r.chan /\ \A q \in Streams \ {s} : Got(q)' = Got(q)
  BY <1>1 DEF Got
<1>3. LogShape'
  <2>1. subs' \in [Streams -> SubStates]
    BY DEF LogInv, LogShape
  <2>2. \A q \in Streams : Len(subs'[q].chan) <= ChannelCap
    BY <1>1 DEF LogInv, LogShape
  <2>3. QED BY <2>1, <2>2 DEF LogInv, LogShape
<1>4. RingHolds' /\ WritersApart'
  BY DEF LogInv, RingHolds, WritersApart, Slot
<1>5. GotOnce'
  <2>1. CASE Got(s)' = Got(s)
    BY <1>2, <2>1 DEF LogInv, GotOnce
  <2>2. CASE Got(s)' = <<>>
    <3>1. DOMAIN Got(s)' = {}
      BY <2>2
    <3>2. QED BY <1>2, <3>1 DEF LogInv, GotOnce
  <2>3. QED BY <1>2, <2>1, <2>2
<1>6. NoneMissed'
  <2>1. ASSUME NEW q \in Streams, subs'[q].at = "live", subs'[q].lost = FALSE,
               NEW e \in (subs'[q].begin + 1)..Len(logged')
        PROVE  \/ \E i \in DOMAIN Got(q)' : Got(q)'[i] = e
               \/ \E w \in Writers : writer'[w] = e
    <3>1. CASE q # s
      BY <1>1, <1>2, <2>1, <3>1 DEF LogInv, NoneMissed
    <3>2. CASE q = s /\ r.begin = Len(logged)
      <4>1. Len(logged) \in Nat
        BY DEF LogInv, LogShape
      <4>2. FALSE
        BY <1>1, <2>1, <3>2, <4>1
      <4>3. QED BY <4>2
    <3>3. CASE /\ q = s /\ subs[s].at = "live" /\ subs[s].lost = FALSE /\ r.begin = subs[s].begin
               /\ r.sent \o r.chan = Got(s)
      <4>1. Got(q)' = Got(s) /\ e \in (subs[s].begin + 1)..Len(logged)
        BY <1>1, <1>2, <2>1, <3>3
      <4>2. (\E i \in DOMAIN Got(s) : Got(s)[i] = e) \/ \E w \in Writers : writer[w] = e
        BY <3>3, <4>1 DEF LogInv, NoneMissed
      <4>3. QED BY <4>1, <4>2
    <3>4. QED BY <1>1, <2>1, <3>1, <3>2, <3>3
  <2>2. QED BY <2>1 DEF NoneMissed
<1>7. QED BY <1>3, <1>4, <1>5, <1>6 DEF LogInv

LEMMA SubTyped ==
  ASSUME LogShape, NEW s \in Streams
  PROVE  /\ subs[s] \in SubStates /\ subs[s].chan \in Seq(Nat) /\ subs[s].sent \in Seq(Nat)
         /\ subs[s].lost \in BOOLEAN /\ Len(subs[s].chan) <= ChannelCap /\ Len(subs[s].chan) \in Nat
         /\ Got(s) \in Seq(Nat) /\ ChannelCap \in Nat
<1>1. subs[s] \in SubStates /\ Len(subs[s].chan) <= ChannelCap
  BY DEF LogShape
<1>2. subs[s].chan \in Seq(Nat) /\ subs[s].sent \in Seq(Nat) /\ subs[s].lost \in BOOLEAN
  BY <1>1 DEF SubStates
<1>3. Got(s) \in Seq(Nat) /\ Len(subs[s].chan) \in Nat
  BY <1>2 DEF Got
<1>4. QED BY <1>1, <1>2, <1>3, LogAssumption

LEMMA AddStreams ==
  ASSUME LogInv, NEW w \in Writers, Add(w)
  PROVE  LogInv'
<1> DEFINE n == Len(logged)
<1>1. /\ logged \in Seq(Nat) /\ n \in Nat /\ \A i \in 1..n : logged[i] = i
      /\ writer \in [Writers -> 0..n]
  BY DEF LogInv, LogShape
<1>2. /\ writer[w] = 0 /\ writer' = [writer EXCEPT ![w] = n + 1] /\ UNCHANGED subs
      /\ logged' = Append(logged, n + 1)
  BY DEF Add
<1>3. Len(logged') = n + 1 /\ logged' \in Seq(Nat) /\ \A i \in 1..(n + 1) : logged'[i] = i
  BY <1>1, <1>2
<1>4. /\ writer' \in [Writers -> 0..(n + 1)] /\ writer'[w] = n + 1
      /\ \A v \in Writers \ {w} : writer'[v] = writer[v]
  BY <1>1, <1>2
<1>5. LogShape' /\ RingHolds'
  BY <1>2, <1>3, <1>4, AddKeeps DEF LogInv, LogShape
<1>6. WritersApart'
  BY <1>1, <1>4 DEF LogInv, WritersApart
<1>7. \A s \in Streams : Got(s)' = Got(s)
  BY <1>2 DEF Got
<1>8. GotOnce'
  <2>1. ASSUME NEW s \in Streams, NEW i \in DOMAIN Got(s)
        PROVE  Got(s)[i] \in 1..(n + 1) /\ \A v \in Writers : writer'[v] # Got(s)[i]
    <3>1. Got(s)[i] \in 1..n /\ \A v \in Writers : writer[v] # Got(s)[i]
      BY DEF LogInv, GotOnce
    <3>2. QED BY <1>1, <1>4, <3>1
  <2>2. QED BY <1>3, <1>7, <2>1 DEF LogInv, GotOnce
<1>9. NoneMissed'
  <2>1. ASSUME NEW s \in Streams, subs[s].at = "live", subs[s].lost = FALSE,
               NEW e \in (subs[s].begin + 1)..(n + 1)
        PROVE  \/ \E i \in DOMAIN Got(s) : Got(s)[i] = e
               \/ \E v \in Writers : writer'[v] = e
    <3>1. CASE e = n + 1
      BY <1>4, <3>1
    <3>2. CASE e # n + 1
      <4>1. subs[s].begin \in Nat
        BY DEF LogInv, LogShape, SubStates
      <4>2. e \in (subs[s].begin + 1)..n /\ e # 0
        BY <1>1, <2>1, <3>2, <4>1
      <4>3. \/ \E i \in DOMAIN Got(s) : Got(s)[i] = e
            \/ \E v \in Writers : writer[v] = e
        BY <2>1, <4>2 DEF LogInv, NoneMissed
      <4>4. QED BY <1>2, <1>4, <4>2, <4>3
    <3>3. QED BY <3>1, <3>2
  <2>2. ASSUME NEW s \in Streams, subs'[s].at = "live", subs'[s].lost = FALSE,
               NEW e \in (subs'[s].begin + 1)..Len(logged')
        PROVE  \/ \E i \in DOMAIN Got(s)' : Got(s)'[i] = e
               \/ \E v \in Writers : writer'[v] = e
    <3>1. subs'[s] = subs[s] /\ Got(s)' = Got(s) /\ Len(logged') = n + 1
      BY <1>2, <1>3, <1>7
    <3>2. e \in (subs[s].begin + 1)..(n + 1) /\ subs[s].at = "live" /\ subs[s].lost = FALSE
      BY <2>2, <3>1
    <3>3. (\E i \in DOMAIN Got(s) : Got(s)[i] = e) \/ \E v \in Writers : writer'[v] = e
      BY <2>1, <3>2, Zenon
    <3>4. QED BY <3>1, <3>3
  <2>3. QED BY <2>2 DEF NoneMissed
<1>10. QED BY <1>5, <1>6, <1>8, <1>9 DEF LogInv

\* publish hands the entry to every stream that has room.
LEMMA PublishReaches ==
  ASSUME LogInv, NEW w \in Writers, Publish(w)
  PROVE  LogInv'
<1> DEFINE n == Len(logged)
<1>1. PICK e \in Nat : e = writer[w] /\ e \in 1..n /\ n \in Nat
  <2>1. logged \in Seq(Nat) /\ writer \in [Writers -> 0..n] /\ writer[w] # 0
    BY DEF LogInv, LogShape, Publish
  <2>2. n \in Nat /\ writer[w] \in 0..n
    BY <2>1
  <2>3. QED BY <2>1, <2>2
<1>2. writer' = [writer EXCEPT ![w] = 0] /\ UNCHANGED <<ring, next, full, logged>>
  BY DEF Publish
<1>3. writer'[w] = 0 /\ \A v \in Writers \ {w} : writer'[v] = writer[v] /\ writer[v] # e
  BY <1>1, <1>2 DEF LogInv, LogShape, WritersApart
<1>4. ASSUME NEW s \in Streams
      PROVE  /\ subs'[s] \in SubStates /\ Len(subs'[s].chan) <= ChannelCap
             /\ subs'[s].at = subs[s].at /\ subs'[s].begin = subs[s].begin
             /\ \/ Got(s)' = Got(s) /\ (subs[s].at = "live" => subs'[s].lost = TRUE)
                \/ Got(s)' = Append(Got(s), e)
             /\ subs'[s].lost = FALSE => subs[s].lost = FALSE
  <2>1. /\ subs[s] \in SubStates /\ subs[s].chan \in Seq(Nat) /\ subs[s].sent \in Seq(Nat)
        /\ subs[s].lost \in BOOLEAN /\ Len(subs[s].chan) <= ChannelCap /\ Len(subs[s].chan) \in Nat
        /\ ChannelCap \in Nat
    BY SubTyped DEF LogInv
  <2>2. CASE ~Live(s)
    <3>1. subs'[s] = subs[s] /\ subs[s].at # "live"
      BY <2>2 DEF Publish, Live
    <3>2. QED BY <2>1, <3>1 DEF Got
  <2>3. CASE Live(s)
    <3> DEFINE c == IF Room(subs[s].chan) THEN Append(subs[s].chan, e) ELSE subs[s].chan
               b == subs[s].lost \/ Len(subs[s].chan) = ChannelCap
               r == [subs[s] EXCEPT !.chan = c, !.lost = b]
    <3>1. subs'[s] = r
      BY <1>1, <2>3 DEF Publish
    <3>2. b \in BOOLEAN
      BY Zenon
    <3>3. b = FALSE => subs[s].lost = FALSE /\ Len(subs[s].chan) # ChannelCap
      BY <2>1, Zenon
    <3>4. c \in Seq(Nat) /\ Len(c) <= ChannelCap
      BY <1>1, <2>1 DEF Room
    <3>5. \/ c = Append(subs[s].chan, e)
          \/ c = subs[s].chan /\ Len(subs[s].chan) = ChannelCap
      BY <2>1 DEF Room
    <3>6. Len(subs[s].chan) = ChannelCap => b = TRUE
      BY Zenon
    <3> HIDE DEF b, c
    <3>7. r \in SubStates /\ r.chan = c /\ r.lost = b /\ r.at = subs[s].at /\ r.begin = subs[s].begin
          /\ r.sent = subs[s].sent
      BY <2>1, <3>2, <3>4 DEF SubStates
    <3>8. c = Append(subs[s].chan, e) => subs[s].sent \o c = Append(subs[s].sent \o subs[s].chan, e)
      <4>1. PICK x \in Seq(Nat), y \in Seq(Nat) : x = subs[s].sent /\ y = subs[s].chan
        BY <2>1
      <4>2. x \o Append(y, e) = Append(x \o y, e)
        BY ConcatAppend
      <4>3. QED BY <4>1, <4>2
    <3> HIDE DEF r
    <3>9. Got(s)' = subs[s].sent \o c /\ Got(s) = subs[s].sent \o subs[s].chan
      BY <3>1, <3>7 DEF Got
    <3>10. \/ Got(s)' = Got(s) /\ subs'[s].lost = TRUE
           \/ Got(s)' = Append(Got(s), e)
      BY <3>1, <3>5, <3>6, <3>7, <3>8, <3>9
    <3>11. QED BY <3>1, <3>3, <3>4, <3>7, <3>10
  <2>4. QED BY <2>2, <2>3
<1>5. LogShape'
  <2>1. subs' \in [Streams -> SubStates]
    BY <1>4 DEF Publish
  <2>2. writer' \in [Writers -> 0..Len(logged')]
    BY <1>1, <1>2 DEF LogInv, LogShape
  <2>3. QED BY <1>2, <1>4, <2>1, <2>2 DEF LogInv, LogShape
<1>6. RingHolds' /\ WritersApart'
  BY <1>2, <1>3 DEF LogInv, RingHolds, WritersApart, Slot
<1>7. ASSUME NEW s \in Streams
      PROVE  /\ \A i \in DOMAIN Got(s)' : Got(s)'[i] \in 1..n /\ \A v \in Writers : writer'[v] # Got(s)'[i]
             /\ \A i, j \in DOMAIN Got(s)' : Got(s)'[i] = Got(s)'[j] => i = j
  <2>1. PICK g \in Seq(Nat) : g = Got(s)
    BY SubTyped DEF LogInv
  <2>2. /\ \A i \in DOMAIN g : g[i] \in 1..n /\ \A v \in Writers : writer[v] # g[i]
        /\ \A i, j \in DOMAIN g : g[i] = g[j] => i = j
    BY <2>1 DEF LogInv, GotOnce
  <2>3. \A i \in DOMAIN g : g[i] # e /\ \A v \in Writers : writer'[v] # g[i]
    BY <1>1, <1>3, <2>2
  <2>4. CASE Got(s)' = g
    BY <2>2, <2>3, <2>4
  <2>5. CASE Got(s)' = Append(g, e)
    <3>1. DOMAIN Append(g, e) = 1..(Len(g) + 1) /\ DOMAIN g = 1..Len(g) /\ Len(g) \in Nat
          /\ Append(g, e)[Len(g) + 1] = e /\ \A i \in 1..Len(g) : Append(g, e)[i] = g[i]
      BY <1>1
    <3>2. PICK h : h = Append(g, e)
      OBVIOUS
    <3>3. \A v \in Writers : writer'[v] # e
      BY <1>1, <1>3
    <3>4. \A i \in DOMAIN h : i = Len(g) + 1 \/ i \in DOMAIN g
      BY <3>1, <3>2
    <3>5. \A i \in DOMAIN h : /\ i = Len(g) + 1 => h[i] = e
                              /\ i \in DOMAIN g => h[i] = g[i]
      BY <3>1, <3>2
    <3>6. \A i \in DOMAIN h : h[i] \in 1..n /\ \A v \in Writers : writer'[v] # h[i]
      BY <1>1, <2>2, <2>3, <3>3, <3>4, <3>5
    <3>7. \A i, j \in DOMAIN h : h[i] = h[j] => i = j
      BY <2>2, <2>3, <3>4, <3>5
    <3>8. QED BY <2>5, <3>2, <3>6, <3>7
  <2>6. QED BY <1>4, <2>1, <2>4, <2>5
<1>8. GotOnce'
  BY <1>2, <1>7 DEF GotOnce
<1>9. NoneMissed'
  <2>1. ASSUME NEW s \in Streams, subs'[s].at = "live", subs'[s].lost = FALSE,
               NEW f \in (subs'[s].begin + 1)..n
        PROVE  \/ \E i \in DOMAIN Got(s)' : Got(s)'[i] = f
               \/ \E v \in Writers : writer'[v] = f
    <3>1. subs[s].at = "live" /\ subs[s].lost = FALSE /\ f \in (subs[s].begin + 1)..n
      BY <1>4, <2>1
    <3>2. PICK g \in Seq(Nat) : g = Got(s)
      BY SubTyped DEF LogInv
    <3>3. PICK h : h = Got(s)' /\ h = Append(g, e)
      BY <1>4, <2>1, <3>1, <3>2
    <3>4. /\ Len(g) + 1 \in DOMAIN h /\ h[Len(g) + 1] = e
          /\ \A i \in DOMAIN g : i \in DOMAIN h /\ h[i] = g[i]
      BY <1>1, <3>3
    <3>5. (\E i \in DOMAIN g : g[i] = f) \/ \E v \in Writers : writer[v] = f
      BY <3>1, <3>2 DEF LogInv, NoneMissed
    <3>6. CASE \E i \in DOMAIN g : g[i] = f
      BY <3>3, <3>4, <3>6
    <3>7. CASE \E v \in Writers : writer[v] = f
      <4>1. PICK v \in Writers : writer[v] = f
        BY <3>7
      <4>2. v = w => f = e
        BY <1>1, <4>1
      <4>3. QED BY <1>3, <3>3, <3>4, <4>1, <4>2
    <3>8. QED BY <3>5, <3>6, <3>7
  <2>2. QED BY <1>2, <2>1 DEF NoneMissed
<1>10. QED BY <1>5, <1>6, <1>8, <1>9 DEF LogInv

LEMMA LogStepInv == LogInv /\ [LogNext]_logVars => LogInv'
<1> SUFFICES ASSUME LogInv, [LogNext]_logVars PROVE LogInv'
  OBVIOUS
<1>a. ASSUME NEW s \in Streams
      PROVE  /\ subs[s] \in SubStates /\ subs[s].chan \in Seq(Nat) /\ subs[s].sent \in Seq(Nat)
             /\ Len(subs[s].chan) <= ChannelCap /\ Len(subs[s].chan) \in Nat /\ ChannelCap \in Nat
             /\ subs \in [Streams -> SubStates]
  BY SubTyped DEF LogInv, LogShape
<1>1. ASSUME NEW w \in Writers, Add(w) PROVE LogInv'
  BY <1>1, AddStreams
<1>2. ASSUME NEW w \in Writers, Publish(w) PROVE LogInv'
  BY <1>2, PublishReaches
<1>3. ASSUME NEW s \in Streams, Subscribe(s) PROVE LogInv'
  <2>1. UNCHANGED <<ring, next, full, writer, logged>> /\ Len(logged) \in Nat
        /\ subs' = [subs EXCEPT ![s] = [NoSub EXCEPT !.at = "live", !.begin = Len(logged)]]
    BY <1>3 DEF Subscribe, LogInv, LogShape
  <2>2. PICK r \in SubStates : /\ subs' = [subs EXCEPT ![s] = r]
                               /\ r.chan = <<>> /\ r.sent = <<>> /\ r.begin = Len(logged)
    <3>1. PICK b \in Nat : b = Len(logged)
      BY <2>1
    <3> DEFINE r == [NoSub EXCEPT !.at = "live", !.begin = b]
    <3>2. <<>> \in Seq(Nat)
      OBVIOUS
    <3>3. r \in SubStates /\ r.chan = <<>> /\ r.sent = <<>> /\ r.begin = b
      BY <3>2 DEF NoSub, SubStates
    <3>4. subs' = [subs EXCEPT ![s] = r]
      BY <2>1, <3>1
    <3> HIDE DEF r
    <3>5. QED BY <3>1, <3>3, <3>4
  <2>3. r.sent \o r.chan = <<>> /\ Len(r.chan) <= ChannelCap
    BY <1>a, <2>2
  <2>4. QED BY <2>1, <2>2, <2>3, SubMoves
<1>4. ASSUME NEW s \in Streams, Forward(s) PROVE LogInv'
  <2>1. UNCHANGED <<ring, next, full, writer, logged>> /\ subs[s].at = "live" /\ subs[s].chan # <<>>
        /\ subs' = [subs EXCEPT ![s].chan = Tail(@), ![s].sent = Append(@, Head(subs[s].chan))]
    BY <1>4 DEF Forward, Live
  <2>2. PICK a \in Seq(Nat), b \in Seq(Nat) : a = subs[s].sent /\ b = subs[s].chan
    BY <1>a
  <2>3. Tail(b) \in Seq(Nat) /\ Len(Tail(b)) = Len(b) - 1 /\ Len(b) \in Nat /\ Head(b) \in Nat
    BY <2>1, <2>2, TailOf
  <2>h. PICK h \in Nat : h = Head(b)
    BY <2>3
  <2>4. PICK t \in Seq(Nat), c \in Seq(Nat) : t = Tail(b) /\ c = Append(a, Head(b))
    <3>1. Append(a, h) \in Seq(Nat)
      OBVIOUS
    <3>2. QED BY <2>3, <2>h, <3>1
  <2>5. c \o t = a \o b
    BY <2>1, <2>2, <2>4, ConcatShift
  <2>6. PICK r \in SubStates : /\ subs' = [subs EXCEPT ![s] = r] /\ r.chan = t /\ r.sent = c
                               /\ r.at = subs[s].at /\ r.lost = subs[s].lost /\ r.begin = subs[s].begin
    <3> DEFINE r == [subs[s] EXCEPT !.chan = t, !.sent = c]
    <3>1. subs' = [subs EXCEPT ![s] = r]
      BY <1>a, <2>1, <2>2, <2>4
    <3>2. /\ r \in SubStates /\ r.chan = t /\ r.sent = c
          /\ r.at = subs[s].at /\ r.lost = subs[s].lost /\ r.begin = subs[s].begin
      BY <1>a DEF SubStates
    <3> HIDE DEF r
    <3>3. QED BY <3>1, <3>2
  <2>7. r.sent \o r.chan = Got(s)
    BY <2>2, <2>5, <2>6 DEF Got
  <2>8. Len(r.chan) <= ChannelCap
    BY <1>a, <2>2, <2>3, <2>4, <2>6
  <2>9. QED BY <2>1, <2>6, <2>7, <2>8, SubMoves
<1>5. ASSUME NEW s \in Streams, CancelSub(s) PROVE LogInv'
  <2>1. UNCHANGED <<ring, next, full, writer, logged>> /\ subs' = [subs EXCEPT ![s].at = "closed"]
    BY <1>5 DEF CancelSub
  <2>2. PICK r \in SubStates : /\ subs' = [subs EXCEPT ![s] = r] /\ r.at = "closed"
                               /\ r.chan = subs[s].chan /\ r.sent = subs[s].sent
    <3> DEFINE r == [subs[s] EXCEPT !.at = "closed"]
    <3>1. subs' = [subs EXCEPT ![s] = r]
      BY <1>a, <2>1
    <3>2. r \in SubStates /\ r.at = "closed" /\ r.chan = subs[s].chan /\ r.sent = subs[s].sent
      BY <1>a DEF SubStates
    <3> HIDE DEF r
    <3>3. QED BY <3>1, <3>2
  <2>3. r.sent \o r.chan = Got(s) /\ Len(r.chan) <= ChannelCap /\ r.at # "live"
    BY <1>a, <2>2 DEF Got
  <2>4. QED BY <2>1, <2>2, <2>3, SubMoves
<1>6. CASE UNCHANGED logVars
  <2>1. UNCHANGED <<ring, next, full, writer, subs, logged>>
    BY <1>6 DEF logVars
  <2>2. LogShape' /\ RingHolds' /\ WritersApart'
    BY <2>1 DEF LogInv, LogShape, RingHolds, WritersApart, Slot
  <2>3. \A s \in Streams : Got(s)' = Got(s)
    BY <2>1 DEF Got
  <2>4. GotOnce' /\ NoneMissed'
    BY <2>1, <2>3 DEF LogInv, GotOnce, NoneMissed
  <2>5. QED BY <2>2, <2>4 DEF LogInv
<1>7. QED BY <1>1, <1>2, <1>3, <1>4, <1>5, <1>6 DEF LogNext, LogRests

\* Recent reads the ring from the newest entry back.
LEMMA RecentIsNewest ==
  ASSUME LogInv, NEW limit \in 0..(BufferCap + 1)
  PROVE  LET kept == IF Len(logged) < BufferCap THEN Len(logged) ELSE BufferCap
             n == IF limit \in 1..kept THEN limit ELSE kept
         IN Recent(limit) = [i \in 1..n |-> logged[Len(logged) + 1 - i]]
<1> DEFINE kept == IF Len(logged) < BufferCap THEN Len(logged) ELSE BufferCap
           n == IF limit \in 1..kept THEN limit ELSE kept
<1>1. /\ ring \in [0..(BufferCap - 1) -> Nat] /\ next \in 0..(BufferCap - 1) /\ full \in BOOLEAN
      /\ logged \in Seq(Nat) /\ Len(logged) \in Nat /\ BufferCap \in Nat \ {0}
      /\ \A i \in 1..Len(logged) : logged[i] = i
  BY LogAssumption DEF LogInv, LogShape
<1>2. kept \in Nat /\ n \in Nat /\ n <= kept
  BY <1>1
<1>3. Len(Ordered) = kept /\ \A i \in 1..kept : Ordered[i] = Len(logged) - kept + i
  <2>1. CASE full = FALSE
    <3>1. Len(logged) = next /\ \A i \in 1..next : ring[i - 1] = i
      BY <2>1 DEF LogInv, RingHolds
    <3>2. kept = next /\ next \in Nat
      BY <1>1, <3>1
    <3>3. Ordered = [i \in 1..next |-> ring[i - 1]]
      BY <2>1 DEF Ordered
    <3>4. Len(Ordered) = next
      BY <3>2, <3>3
    <3>5. \A i \in 1..next : Ordered[i] = i
      BY <3>1, <3>3
    <3> HIDE DEF kept
    <3>6. QED BY <3>1, <3>2, <3>4, <3>5
  <2>2. CASE full = TRUE
    <3>1. Len(logged) >= BufferCap /\ \A i \in 1..BufferCap : ring[Slot(i)] = Len(logged) - BufferCap + i
      BY <2>2 DEF LogInv, RingHolds
    <3>2. kept = BufferCap
      BY <1>1, <3>1
    <3>3. Ordered = [i \in 1..BufferCap |-> ring[(next + i - 1) % BufferCap]]
      BY <2>2 DEF Ordered
    <3>4. Len(Ordered) = BufferCap
      BY <1>1, <3>3
    <3>5. ASSUME NEW i \in 1..BufferCap PROVE Ordered[i] = Len(logged) - BufferCap + i
      <4>1. PICK x \in Nat : x = next + i - 1 /\ x < BufferCap + BufferCap
        BY <1>1
      <4>2. x % BufferCap = IF x < BufferCap THEN x ELSE x - BufferCap
        BY <1>1, <4>1, Around
      <4>3. x % BufferCap = Slot(i)
        <5>1. Slot(i) = IF x < BufferCap THEN x ELSE x - BufferCap
          BY <1>1, <4>1 DEF Slot
        <5>2. QED BY <4>2, <5>1
      <4>4. Ordered[i] = ring[x % BufferCap]
        BY <3>3, <4>1
      <4>5. QED BY <3>1, <4>3, <4>4
    <3> HIDE DEF kept
    <3>6. QED BY <3>2, <3>4, <3>5
  <2>3. QED BY <1>1, <2>1, <2>2
<1>4. kept <= Len(logged)
  BY <1>1
<1>5. n = IF limit > 0 /\ limit < Len(Ordered) THEN limit ELSE Len(Ordered)
  BY <1>1, <1>2, <1>3
<1> HIDE DEF kept, n
<1>6. Recent(limit) = [i \in 1..n |-> Ordered[kept + 1 - i]]
  BY <1>3, <1>5 DEF Recent
<1>7. ASSUME NEW i \in 1..n PROVE Ordered[kept + 1 - i] = logged[Len(logged) + 1 - i]
  <2>1. kept + 1 - i \in 1..kept /\ Len(logged) + 1 - i \in 1..Len(logged)
    BY <1>1, <1>2, <1>4
  <2>2. Ordered[kept + 1 - i] = Len(logged) - kept + (kept + 1 - i)
    BY <1>3, <2>1
  <2>3. logged[Len(logged) + 1 - i] = Len(logged) + 1 - i
    BY <1>1, <2>1
  <2>4. Len(logged) - kept + (kept + 1 - i) = Len(logged) + 1 - i
    BY <1>1, <1>2
  <2>5. QED BY <2>2, <2>3, <2>4
<1>8. Recent(limit) = [i \in 1..n |-> logged[Len(logged) + 1 - i]]
  BY <1>6, <1>7
<1>9. QED BY <1>8 DEF n, kept

\* A stream that never fell behind misses nothing logged after it subscribed and gets
\* nothing twice, and Recent is right across every wrap, for every capacity of the
\* ring and of the channels and any number of writers and streams.
THEOREM StreamsComplete == LogSpec => []StreamComplete
<1>1. LogInit => LogInv
  <2> SUFFICES ASSUME LogInit PROVE LogInv
    OBVIOUS
  <2>1. /\ NoSub \in SubStates /\ NoSub.at = "none" /\ NoSub.chan = <<>> /\ NoSub.sent = <<>>
    <3>1. <<>> \in Seq(Nat)
      OBVIOUS
    <3>2. QED BY <3>1 DEF NoSub, SubStates
  <2>2. logged = <<>> /\ Len(logged) = 0 /\ logged \in Seq(Nat)
    BY DEF LogInit
  <2>3. \A s \in Streams : subs[s] = NoSub
    BY DEF LogInit
  <2>4. \A s \in Streams : Len(subs[s].chan) <= ChannelCap
    BY <2>1, <2>3, LogAssumption
  <2>5. LogShape
    <3>1. ring \in [0..(BufferCap - 1) -> Nat] /\ next \in 0..(BufferCap - 1) /\ full \in BOOLEAN
      <4>1. full \in BOOLEAN
        BY DEF LogInit
      <4>2. next = 0 /\ ring = [i \in 0..(BufferCap - 1) |-> 0]
        BY DEF LogInit
      <4>3. next \in 0..(BufferCap - 1)
        BY <4>2, LogAssumption
      <4>4. ring \in [0..(BufferCap - 1) -> Nat]
        BY <4>2
      <4>5. QED BY <4>1, <4>3, <4>4
    <3>2. writer \in [Writers -> 0..Len(logged)]
      BY <2>2 DEF LogInit
    <3>3. subs \in [Streams -> SubStates]
      BY <2>1 DEF LogInit
    <3>4. QED BY <2>2, <2>4, <3>1, <3>2, <3>3 DEF LogShape
  <2>6. RingHolds /\ WritersApart
    BY <2>2 DEF LogInit, RingHolds, WritersApart
  <2>7. GotOnce
    <3>1. \A s \in Streams : Got(s) = <<>>
      BY <2>1, <2>3 DEF Got
    <3>2. \A s \in Streams : DOMAIN Got(s) = {}
      BY <3>1
    <3>3. QED BY <3>2 DEF GotOnce
  <2>8. NoneMissed
    BY <2>1, <2>3 DEF NoneMissed
  <2>9. QED BY <2>5, <2>6, <2>7, <2>8 DEF LogInv
<1>2. LogInv => StreamComplete
  <2> SUFFICES ASSUME LogInv PROVE StreamComplete
    OBVIOUS
  <2>1. ASSUME NEW s \in Streams, Live(s), ~subs[s].lost
        PROVE  /\ IsInjective(Got(s))
               /\ \A e \in (subs[s].begin + 1)..Len(logged) : \/ e \in Range(Got(s))
                                                              \/ \E w \in Writers : writer[w] = e
    <3>1. subs[s].lost = FALSE
      <4>1. subs[s].lost \in BOOLEAN
        BY SubTyped DEF LogInv
      <4>2. QED BY <2>1, <4>1, Zenon
    <3>2. IsInjective(Got(s))
      BY DEF LogInv, GotOnce, IsInjective
    <3>3. QED BY <2>1, <3>1, <3>2 DEF LogInv, NoneMissed, Range, Live
  <2>2. QED BY <2>1, RecentIsNewest DEF StreamComplete, Got
<1>3. QED BY <1>1, <1>2, LogStepInv, PTL DEF LogSpec
-----------------------------------------------------------------------------
(* Servers: the endpoints of the failover pool *)

ServerRows == [prio : Int, conns : Int, enabled : BOOLEAN]
EndpointRows == [id : ServerIds \cup {0}, prio : Int, conns : Int]
HandlerStates == [at : {"none", "list", "set"}, eps : Seq(EndpointRows)]

\* As long as nothing disturbed it, the pool is in line with the table, or one
\* handler is on its way to make it so.
InLine ==
  disturbed = FALSE =>
    \/ Busy = {} /\ endpoints \in buildEndpoints(servers, TRUE)
    \/ \E h \in Handlers : /\ Busy = {h}
                           /\ handler[h].at = "set" => handler[h].eps \in buildEndpoints(servers, TRUE)

ServersInv == /\ servers \in [ServerIds -> ServerRows \cup {NoServer}]
              /\ handler \in [Handlers -> HandlerStates]
              /\ disturbed \in BOOLEAN
              /\ InLine

LEMMA EnabledFacts ==
  ASSUME NEW table, NEW on, on = {i \in ServerIds : table[i] # NoServer /\ enabledOf(table, i)}
  PROVE  on \subseteq ServerIds /\ IsFiniteSet(on) /\ Cardinality(on) \in Nat
<1>1. on \in SUBSET ServerIds
  OBVIOUS
<1>2. IsFiniteSet(on)
  BY <1>1, FS_Subset, ServersAssumption
<1>3. QED BY <1>1, <1>2, FS_CardinalityType

\* buildEndpoints makes a list of rows, whatever the table.
LEMMA EndpointsTyped ==
  ASSUME NEW table \in [ServerIds -> ServerRows \cup {NoServer}], NEW read \in BOOLEAN,
         NEW eps \in buildEndpoints(table, read)
  PROVE  eps \in Seq(EndpointRows)
<1> DEFINE on == {i \in ServerIds : table[i] # NoServer /\ enabledOf(table, i)}
<1>1. CASE read /\ on # {}
  <2>1. PICK s \in ListServers(table, on) :
          eps = [n \in DOMAIN s |-> [id |-> s[n], prio |-> table[s[n]].prio, conns |-> table[s[n]].conns]]
    BY <1>1 DEF buildEndpoints
  <2>2. Cardinality(on) \in Nat /\ s \in [1..Cardinality(on) -> on] /\ on \subseteq ServerIds
    BY EnabledFacts DEF ListServers
  <2>3. \A n \in DOMAIN s : s[n] \in ServerIds /\ table[s[n]] \in ServerRows
    BY <2>2
  <2>4. \A n \in DOMAIN s : [id |-> s[n], prio |-> table[s[n]].prio, conns |-> table[s[n]].conns] \in EndpointRows
    BY <2>3 DEF ServerRows, EndpointRows
  <2>5. DOMAIN s = 1..Cardinality(on)
    BY <2>2
  <2> HIDE DEF on
  <2>6. QED BY <2>1, <2>2, <2>4, <2>5
<1>2. CASE ~(read /\ on # {})
  <2>1. eps = <<Fallback>> /\ Fallback \in EndpointRows
    BY <1>2, ServersAssumption DEF buildEndpoints, Fallback, EndpointRows
  <2> HIDE DEF on
  <2>2. QED BY <2>1
<1>3. QED BY <1>1, <1>2

LEMMA ServerRowTyped ==
  ASSUME NEW p \in Int, NEW l \in Int, NEW e \in BOOLEAN
  PROVE  ServerRow(p, l, e) \in ServerRows
<1> DEFINE c == IF l <= 0 THEN 10 ELSE l
<1>1. c \in Int
  OBVIOUS
<1> HIDE DEF c
<1>2. QED BY <1>1 DEF ServerRow, ServerRows, c

LEMMA SeededTyped ==
  ASSUME NEW table \in [ServerIds -> ServerRows \cup {NoServer}]
  PROVE  Seeded(table) \in [ServerIds -> ServerRows \cup {NoServer}]
<1>1. ServerRow(0, ConfigLimit, TRUE) \in ServerRows
  <2>1. 0 \in Int /\ ConfigLimit \in Int /\ TRUE \in BOOLEAN
    BY ServersAssumption
  <2>2. QED BY <2>1, ServerRowTyped, Zenon
<1>2. QED BY <1>1 DEF Seeded

LEMMA ServersInvInit == ServersInit => ServersInv
<1> SUFFICES ASSUME ServersInit PROVE ServersInv
  OBVIOUS
<1>1. servers \in [ServerIds -> ServerRows \cup {NoServer}]
  <2>1. [i \in ServerIds |-> NoServer] \in [ServerIds -> ServerRows \cup {NoServer}]
    OBVIOUS
  <2>2. QED BY <2>1, SeededTyped DEF ServersInit
<1>2. NoHandler \in HandlerStates
  BY DEF NoHandler, HandlerStates
<1>3. Busy = {} /\ endpoints \in buildEndpoints(servers, TRUE)
  BY DEF Busy, ServersInit, NoHandler
<1>4. QED BY <1>1, <1>2, <1>3 DEF ServersInv, InLine, ServersInit

\* A change by one handler while another is busy disturbs; by itself it leaves
\* that handler the only one under way.
LEMMA ChangedStep ==
  ASSUME ServersInv, NEW h \in Handlers, NEW table \in [ServerIds -> ServerRows \cup {NoServer}],
         Changed(h, table)
  PROVE  ServersInv'
<1>1. /\ servers' = table /\ handler[h].at = "none"
      /\ handler' = [handler EXCEPT ![h] = [at |-> "list", eps |-> <<>>]]
      /\ disturbed' = (disturbed \/ Busy # {})
  BY DEF Changed
<1>2. [at |-> "list", eps |-> <<>>] \in HandlerStates
  BY DEF HandlerStates
<1>3. handler' \in [Handlers -> HandlerStates] /\ disturbed' \in BOOLEAN
  BY <1>1, <1>2 DEF ServersInv
<1>4. ASSUME disturbed' = FALSE PROVE Busy' = {h} /\ handler'[h].at # "set"
  <2>1. Busy = {}
    BY <1>1, <1>4
  <2>2. QED BY <1>1, <2>1 DEF Busy, ServersInv
<1>5. InLine'
  BY <1>4 DEF InLine
<1>6. QED BY <1>1, <1>3, <1>5 DEF ServersInv

LEMMA ServersInvStep == ServersInv /\ [ServersNext]_serversVars => ServersInv'
<1> SUFFICES ASSUME ServersInv, [ServersNext]_serversVars PROVE ServersInv'
  OBVIOUS
<1>1. ASSUME NEW h \in Handlers, NEW i \in ServerIds, NEW p \in Priorities, NEW l \in Limits,
             NEW on \in BOOLEAN,
             handleCreateServer(h, i, ServerRow(p, l, on)) \/ handleUpdateServer(h, i, ServerRow(p, l, on))
      PROVE  ServersInv'
  <2>1. PICK row \in ServerRows : row = ServerRow(p, l, on)
    BY ServerRowTyped, ServersAssumption
  <2>2. PICK table \in [ServerIds -> ServerRows \cup {NoServer}] : table = [servers EXCEPT ![i] = row]
    BY DEF ServersInv
  <2>3. Changed(h, table)
    BY <1>1, <2>1, <2>2 DEF handleCreateServer, handleUpdateServer
  <2>4. QED BY <2>3, ChangedStep
<1>2. ASSUME NEW h \in Handlers, NEW i \in ServerIds, handleDeleteServer(h, i) PROVE ServersInv'
  <2>1. PICK table \in [ServerIds -> ServerRows \cup {NoServer}] : table = [servers EXCEPT ![i] = NoServer]
    BY DEF ServersInv
  <2>2. Changed(h, table)
    BY <1>2, <2>1 DEF handleDeleteServer
  <2>3. QED BY <2>2, ChangedStep
<1>3. ASSUME NEW h \in Handlers, NEW read \in BOOLEAN, ReadServers(h, read) PROVE ServersInv'
  <2>1. PICK eps \in buildEndpoints(servers, read) :
          handler' = [handler EXCEPT ![h] = [at |-> "set", eps |-> eps]]
    BY <1>3 DEF ReadServers
  <2>2. handler[h].at = "list" /\ disturbed' = (disturbed \/ ~read) /\ servers' = servers
    BY <1>3 DEF ReadServers
  <2>3. eps \in Seq(EndpointRows)
    BY EndpointsTyped DEF ServersInv
  <2>4. [at |-> "set", eps |-> eps] \in HandlerStates
    BY <2>3 DEF HandlerStates
  <2>5. handler' \in [Handlers -> HandlerStates] /\ disturbed' \in BOOLEAN
    BY <2>1, <2>2, <2>4 DEF ServersInv
  <2>6. Busy' = Busy /\ h \in Busy /\ handler'[h].eps = eps
    BY <2>1, <2>2 DEF Busy, ServersInv
  <2>7. ASSUME disturbed' = FALSE
        PROVE  Busy' = {h} /\ handler'[h].eps \in buildEndpoints(servers', TRUE)
    <3>1. disturbed = FALSE /\ read = TRUE
      BY <2>2, <2>7 DEF ServersInv
    <3>2. Busy = {h}
      BY <2>6, <3>1 DEF ServersInv, InLine
    <3>3. QED BY <2>2, <2>6, <3>1, <3>2
  <2>8. InLine'
    BY <2>7 DEF InLine
  <2>9. QED BY <2>2, <2>5, <2>8 DEF ServersInv
<1>4. ASSUME NEW h \in Handlers, SetEndpoints(h) PROVE ServersInv'
  <2>1. /\ handler[h].at = "set" /\ endpoints' = handler[h].eps /\ servers' = servers
        /\ handler' = [handler EXCEPT ![h] = NoHandler]
        /\ disturbed' = (disturbed /\ ~(Busy = {h} /\ endpoints' \in buildEndpoints(servers, TRUE)))
    BY <1>4 DEF SetEndpoints
  <2>2. NoHandler \in HandlerStates
    BY DEF NoHandler, HandlerStates
  <2>3. handler' \in [Handlers -> HandlerStates] /\ disturbed' \in BOOLEAN
    BY <2>1, <2>2 DEF ServersInv
  <2>4. Busy' = Busy \ {h} /\ h \in Busy
    BY <2>1 DEF Busy, ServersInv, NoHandler
  <2>5. ASSUME disturbed' = FALSE PROVE Busy' = {} /\ endpoints' \in buildEndpoints(servers', TRUE)
    <3>1. CASE disturbed = FALSE
      <4>1. Busy = {h} /\ handler[h].eps \in buildEndpoints(servers, TRUE)
        BY <2>1, <2>4, <3>1 DEF ServersInv, InLine
      <4>2. QED BY <2>1, <2>4, <4>1
    <3>2. CASE disturbed = TRUE
      BY <2>1, <2>4, <2>5, <3>2
    <3>3. QED BY <3>1, <3>2 DEF ServersInv
  <2>6. InLine'
    BY <2>5 DEF InLine
  <2>7. QED BY <2>1, <2>3, <2>6 DEF ServersInv
<1>5. CASE ServersRestart
  <2>1. NoHandler \in HandlerStates
    BY DEF NoHandler, HandlerStates
  <2>2. servers' \in [ServerIds -> ServerRows \cup {NoServer}]
    BY <1>5, SeededTyped DEF ServersRestart, ServersInv
  <2>3. Busy' = {} /\ endpoints' \in buildEndpoints(servers', TRUE)
    BY <1>5 DEF ServersRestart, Busy, NoHandler
  <2>4. InLine'
    BY <2>3 DEF InLine
  <2>5. QED BY <1>5, <2>1, <2>2, <2>4 DEF ServersInv, ServersRestart
<1>6. CASE UNCHANGED serversVars
  BY <1>6 DEF serversVars, ServersInv, InLine, Busy
<1>7. QED BY <1>1, <1>2, <1>3, <1>4, <1>5, <1>6 DEF ServersNext

\* With no handler under way the pool's endpoints are the enabled servers, the
\* one of the lowest priority number first, with the stored limits, unless
\* changes overlapped or the servers could not be read (ApplyActive,
\* buildEndpoints).
THEOREM ServersLive == ServersSpec => []ServersApplied
<1>1. ServersInv => ServersApplied
  <2> DEFINE on == {i \in ServerIds : servers[i] # NoServer /\ servers[i].enabled}
             used == {endpoints[n].id : n \in DOMAIN endpoints}
  <2> SUFFICES ASSUME ServersInv, Busy = {}, ~disturbed
               PROVE  /\ used = IF on = {} THEN {0} ELSE on
                      /\ \A n \in DOMAIN endpoints : endpoints[n].id # 0 =>
                           /\ endpoints[n].conns = servers[endpoints[n].id].conns
                           /\ servers[endpoints[1].id].prio <= servers[endpoints[n].id].prio
    BY DEF ServersApplied
  <2>1. endpoints \in buildEndpoints(servers, TRUE)
    BY DEF ServersInv, InLine
  <2>2. on = {i \in ServerIds : servers[i] # NoServer /\ enabledOf(servers, i)}
    BY DEF enabledOf
  <2>3. CASE on = {}
    <3>1. endpoints = <<Fallback>>
      BY <2>1, <2>2, <2>3 DEF buildEndpoints
    <3>2. DOMAIN endpoints = {1} /\ endpoints[1].id = 0
      BY <3>1 DEF Fallback
    <3>3. used = {0}
      BY <3>2
    <3>4. QED BY <2>3, <3>2, <3>3
  <2>4. CASE on # {}
    <3>1. PICK s \in ListServers(servers, on) :
            endpoints = [n \in DOMAIN s |-> [id |-> s[n], prio |-> servers[s[n]].prio,
                                             conns |-> servers[s[n]].conns]]
      BY <2>1, <2>2, <2>4 DEF buildEndpoints
    <3>2. /\ s \in [1..Cardinality(on) -> on] /\ Range(s) = on
          /\ \A m, n \in DOMAIN s : m < n => ServerBefore(servers, s[m], s[n])
          /\ Cardinality(on) \in Nat
      BY <2>2, EnabledFacts DEF ListServers
    <3>3. DOMAIN endpoints = DOMAIN s /\ DOMAIN s = 1..Cardinality(on)
      BY <3>1, <3>2
    <3>4. \A n \in DOMAIN s : /\ endpoints[n].id = s[n]
                              /\ endpoints[n].conns = servers[s[n]].conns
                              /\ s[n] \in on
      BY <3>1, <3>2
    <3>5. used = on
      BY <3>2, <3>3, <3>4 DEF Range
    <3>6. \A i \in on : servers[i].prio \in Int /\ i # 0
      BY ServersAssumption DEF ServersInv, ServerRows
    <3>7. ASSUME NEW n \in DOMAIN s PROVE servers[s[1]].prio <= servers[s[n]].prio
      <4>1. n \in 1..Cardinality(on) /\ 1 \in DOMAIN s
        BY <3>2, <3>3
      <4>2. servers[s[1]].prio \in Int /\ servers[s[n]].prio \in Int
        BY <3>4, <3>6, <4>1
      <4>3. n = 1 \/ ServerBefore(servers, s[1], s[n])
        BY <3>2, <4>1
      <4>4. QED BY <4>2, <4>3 DEF ServerBefore
    <3>8. 1 \in DOMAIN s
      BY <2>4, <3>2 DEF Range
    <3> HIDE DEF on
    <3>9. QED BY <2>4, <3>3, <3>4, <3>5, <3>7, <3>8
  <2>5. QED BY <2>3, <2>4
<1>2. QED BY <1>1, ServersInvInit, ServersInvStep, PTL DEF ServersSpec
-----------------------------------------------------------------------------
(* The search index: a rebuild beside the pipeline *)

\* A row has no name, its first, its recovered one, or is deleted; a page and
\* the index have names only.
PageRows == [id : ReleaseIds, name : {1, 2}]
RebuildStates == [at : {"idle", "page", "index", "complete"}, cursor : ReleaseIds \cup {0},
                  page : Seq(PageRows), more : BOOLEAN, stays : [ReleaseIds -> {0, 1, 2}],
                  alone : BOOLEAN]

SearchTypeOK == /\ rows \in [ReleaseIds -> {0, 1, 2, Gone}]
                /\ docs \in [ReleaseIds -> {0, 1, 2}]
                /\ rebuild \in [Rebuilds -> RebuildStates]

\* A release that stays is there, under the name it had or a later one.
StaysThere == \A b \in Rebuilds : \A r \in ReleaseIds : rebuild[b].stays[r] # 0 =>
                rows[r] # Gone /\ rows[r] >= rebuild[b].stays[r]

\* Nobody writes to the index beside a rebuild that is alone.
AloneIsAlone == \A b, a \in Rebuilds : rebuild[b].at # "idle" /\ rebuild[b].alone = TRUE /\ Running(a) => a = b

\* The rows of a page are no older than the rebuild.
PageIsFresh == \A b \in Rebuilds :
                 /\ \A i \in 1..Len(rebuild[b].page) :
                      rebuild[b].page[i].name >= rebuild[b].stays[rebuild[b].page[i].id]
                 /\ rebuild[b].at # "index" => rebuild[b].page = <<>>

\* Where a release is that stays: in the index, on the page, or after it.
Put(b, r) == docs[r] # 0 /\ (rebuild[b].alone = TRUE => docs[r] >= rebuild[b].stays[r])
OnPage(b, r) == \E i \in 1..Len(rebuild[b].page) : rebuild[b].page[i].id = r
AfterPage(b, r) == IF rebuild[b].page = <<>> THEN Beyond(r, rebuild[b].cursor)
                   ELSE Newer(rebuild[b].page[Len(rebuild[b].page)].id, r)
NoneLost == \A b \in Rebuilds : \A r \in ReleaseIds :
              rebuild[b].at # "idle" /\ rebuild[b].stays[r] # 0 =>
                \/ Put(b, r)
                \/ OnPage(b, r)
                \/ AfterPage(b, r)
                     /\ (rebuild[b].at = "page" \/ (rebuild[b].at = "index" /\ rebuild[b].more = TRUE))

SearchInv == SearchTypeOK /\ StaysThere /\ AloneIsAlone /\ PageIsFresh /\ NoneLost

LEMMA RebuildAlone ==
  ASSUME NEW s \in RebuildStates, NEW x \in BOOLEAN
  PROVE  [s EXCEPT !.alone = x] \in RebuildStates
BY DEF RebuildStates

LEMMA RebuildFields ==
  ASSUME SearchTypeOK, NEW b \in Rebuilds
  PROVE  /\ rebuild[b] \in RebuildStates
         /\ rebuild[b].at \in {"idle", "page", "index", "complete"}
         /\ rebuild[b].cursor \in ReleaseIds \cup {0}
         /\ rebuild[b].page \in Seq(PageRows)
         /\ rebuild[b].more \in BOOLEAN
         /\ rebuild[b].stays \in [ReleaseIds -> {0, 1, 2}]
         /\ rebuild[b].alone \in BOOLEAN
<1>1. rebuild[b] \in RebuildStates
  BY DEF SearchTypeOK
<1>2. QED BY <1>1 DEF RebuildStates

LEMMA NoRebuildTyped == NoRebuild \in RebuildStates
BY DEF NoRebuild, RebuildStates

\* A step that only the pipeline takes: names grow, and what it deletes stays no
\* longer.
LEMMA PipelineStep ==
  ASSUME SearchInv, docs' = docs, NEW r \in ReleaseIds,
         rows' \in [ReleaseIds -> {0, 1, 2, Gone}],
         \A q \in ReleaseIds \ {r} : rows'[q] = rows[q],
         \/ rebuild' = rebuild /\ rows'[r] # Gone /\ rows[r] # Gone /\ rows'[r] >= rows[r]
         \/ rebuild' = [b \in Rebuilds |-> [rebuild[b] EXCEPT !.stays[r] = 0]]
  PROVE  SearchInv'
<1>1. SearchTypeOK
  BY DEF SearchInv
<1>2. ASSUME NEW b \in Rebuilds
      PROVE  /\ rebuild'[b].at = rebuild[b].at /\ rebuild'[b].cursor = rebuild[b].cursor
             /\ rebuild'[b].page = rebuild[b].page /\ rebuild'[b].more = rebuild[b].more
             /\ rebuild'[b].alone = rebuild[b].alone
             /\ rebuild'[b].stays \in [ReleaseIds -> {0, 1, 2}]
             /\ \A q \in ReleaseIds : rebuild'[b].stays[q] = rebuild[b].stays[q] \/ rebuild'[b].stays[q] = 0
             /\ rebuild'[b].stays[r] = 0 \/ (rows'[r] # Gone /\ rows'[r] >= rows[r])
             /\ rebuild'[b] \in RebuildStates
  <2>1. CASE rebuild' = rebuild /\ rows'[r] # Gone /\ rows[r] # Gone /\ rows'[r] >= rows[r]
    BY <1>1, <2>1, RebuildFields
  <2>2. CASE rebuild' = [a \in Rebuilds |-> [rebuild[a] EXCEPT !.stays[r] = 0]]
    <3> DEFINE f == [rebuild[b].stays EXCEPT ![r] = 0]
    <3>1. f \in [ReleaseIds -> {0, 1, 2}] /\ f[r] = 0 /\ \A q \in ReleaseIds : f[q] = rebuild[b].stays[q] \/ f[q] = 0
      BY <1>1, RebuildFields
    <3>2. rebuild'[b] = [rebuild[b] EXCEPT !.stays = f]
      BY <1>1, <2>2, RebuildFields
    <3> HIDE DEF f
    <3>3. rebuild'[b] \in RebuildStates
      <4>1. PICK s \in RebuildStates : s = rebuild[b]
        BY <1>1, RebuildFields
      <4>2. rebuild'[b] = [s EXCEPT !.stays = f]
        BY <3>2, <4>1
      <4>3. f \in [ReleaseIds -> {0, 1, 2}]
        BY <3>1
      <4>4. QED BY <4>2, <4>3 DEF RebuildStates
    <3>4. QED BY <1>1, <3>1, <3>2, <3>3, RebuildFields DEF RebuildStates
  <2>3. QED BY <2>1, <2>2
<1>3. SearchTypeOK'
  <2>1. rebuild' \in [Rebuilds -> RebuildStates]
    BY <1>1, <1>2 DEF SearchTypeOK
  <2>2. QED BY <1>1, <2>1 DEF SearchTypeOK
<1>4. StaysThere'
  <2>1. SUFFICES ASSUME NEW b \in Rebuilds, NEW q \in ReleaseIds, rebuild'[b].stays[q] # 0
                 PROVE  rows'[q] # Gone /\ rows'[q] >= rebuild'[b].stays[q]
    BY DEF StaysThere
  <2>2. rebuild'[b].stays[q] = rebuild[b].stays[q]
    BY <1>2, <2>1
  <2>3. rows[q] # Gone /\ rows[q] >= rebuild[b].stays[q]
    BY <2>1, <2>2 DEF SearchInv, StaysThere
  <2>4. CASE q # r
    BY <2>2, <2>3, <2>4
  <2>5. CASE q = r
    <3>1. rows'[r] >= rows[r] /\ rows'[r] # Gone
      BY <1>2, <2>1, <2>5
    <3>2. rows[r] \in Nat /\ rows'[r] \in Nat
      BY <1>1 DEF SearchTypeOK, Gone
    <3>4. rebuild[b].stays[r] \in {0, 1, 2}
      BY <1>1, RebuildFields
    <3>3. QED BY <2>2, <2>3, <2>5, <3>1, <3>2, <3>4
  <2>6. QED BY <2>4, <2>5
<1>5. AloneIsAlone'
  BY <1>2 DEF SearchInv, AloneIsAlone, Running
<1>6. PageIsFresh'
  <2>1. SUFFICES ASSUME NEW b \in Rebuilds
                 PROVE  /\ \A i \in 1..Len(rebuild'[b].page) :
                             rebuild'[b].page[i].name >= rebuild'[b].stays[rebuild'[b].page[i].id]
                        /\ rebuild'[b].at # "index" => rebuild'[b].page = <<>>
    BY DEF PageIsFresh
  <2>2. ASSUME NEW i \in 1..Len(rebuild[b].page)
        PROVE  rebuild[b].page[i].name >= rebuild'[b].stays[rebuild[b].page[i].id]
    <3>1. rebuild[b].page[i] \in PageRows
      BY <1>1, RebuildFields
    <3>2. rebuild[b].page[i].id \in ReleaseIds /\ rebuild[b].page[i].name \in {1, 2}
      BY <3>1 DEF PageRows
    <3>3. rebuild[b].page[i].name >= rebuild[b].stays[rebuild[b].page[i].id]
      BY DEF SearchInv, PageIsFresh
    <3>4. QED BY <1>2, <3>2, <3>3
  <2>3. QED BY <1>2, <2>2 DEF SearchInv, PageIsFresh
<1>7. NoneLost'
  <2>1. SUFFICES ASSUME NEW b \in Rebuilds, NEW q \in ReleaseIds,
                        rebuild'[b].at # "idle", rebuild'[b].stays[q] # 0
                 PROVE  \/ Put(b, q)'
                        \/ OnPage(b, q)'
                        \/ AfterPage(b, q)'
                             /\ (rebuild'[b].at = "page" \/ (rebuild'[b].at = "index" /\ rebuild'[b].more = TRUE))
    BY DEF NoneLost
  <2>2. rebuild'[b].stays[q] = rebuild[b].stays[q]
    BY <1>2, <2>1
  <2>3. (Put(b, q)' <=> Put(b, q)) /\ (OnPage(b, q)' <=> OnPage(b, q)) /\ (AfterPage(b, q)' <=> AfterPage(b, q))
    BY <1>2, <2>2 DEF Put, OnPage, AfterPage, Beyond, Newer
  <2>4. QED BY <1>2, <2>1, <2>2, <2>3 DEF SearchInv, NoneLost
<1>8. QED BY <1>3, <1>4, <1>5, <1>6, <1>7 DEF SearchInv

LEMMA StartStep ==
  ASSUME SearchInv, NEW b \in Rebuilds, StartReindex(b)
  PROVE  SearchInv'
<1> DEFINE others == {a \in Rebuilds \ {b} : Running(a)}
           now == [r \in ReleaseIds |-> IF Present(r) THEN rows[r] ELSE 0]
<1>1. SearchTypeOK /\ ~Running(b) /\ rows' = rows /\ docs' = docs
  BY DEF SearchInv, StartReindex
<1>2. \A r \in ReleaseIds : now[r] \in {0, 1, 2} /\ (now[r] # 0 => rows[r] = now[r] /\ rows[r] # Gone)
  BY <1>1 DEF SearchTypeOK, Present
<1>3. PICK x \in BOOLEAN : x = (others = {})
  OBVIOUS
<1>4. /\ rebuild'[b] = [NoRebuild EXCEPT !.at = "page", !.alone = x, !.stays = now]
      /\ \A a \in Rebuilds \ {b} : rebuild'[a] = IF Running(a) THEN [rebuild[a] EXCEPT !.alone = FALSE] ELSE NoRebuild
      /\ rebuild' = [a \in Rebuilds |-> rebuild'[a]]
  BY <1>3 DEF StartReindex
<1>5. now \in [ReleaseIds -> {0, 1, 2}]
  BY <1>2
<1> HIDE DEF now
<1>6. /\ rebuild'[b].at = "page" /\ rebuild'[b].cursor = 0 /\ rebuild'[b].page = <<>>
      /\ rebuild'[b].stays = now /\ rebuild'[b].alone = x /\ rebuild'[b] \in RebuildStates
  <2>1. rebuild'[b] = [at |-> "page", cursor |-> 0, page |-> <<>>, more |-> FALSE, stays |-> now, alone |-> x]
    BY <1>4 DEF NoRebuild
  <2>2. QED BY <1>5, <2>1 DEF RebuildStates
<1>7. ASSUME NEW a \in Rebuilds \ {b}, Running(a)
      PROVE  /\ rebuild'[a].at = rebuild[a].at /\ rebuild'[a].cursor = rebuild[a].cursor
             /\ rebuild'[a].page = rebuild[a].page /\ rebuild'[a].more = rebuild[a].more
             /\ rebuild'[a].stays = rebuild[a].stays /\ rebuild'[a].alone = FALSE
             /\ rebuild'[a] \in RebuildStates
  <2>1. rebuild'[a] = [rebuild[a] EXCEPT !.alone = FALSE] /\ rebuild[a] \in RebuildStates
    BY <1>1, <1>4, <1>7, RebuildFields
  <2>2. PICK f \in BOOLEAN : f = FALSE
    OBVIOUS
  <2>3. PICK s \in RebuildStates : s = rebuild[a]
    BY <2>1
  <2>4. rebuild'[a] = [s EXCEPT !.alone = f]
    BY <2>1, <2>2, <2>3, Zenon
  <2>5. rebuild'[a] \in RebuildStates
    BY <2>4, RebuildAlone, Zenon
  <2>6. rebuild'[a].alone = f /\ rebuild'[a].at = s.at /\ rebuild'[a].cursor = s.cursor
        /\ rebuild'[a].page = s.page /\ rebuild'[a].more = s.more /\ rebuild'[a].stays = s.stays
    BY <2>4 DEF RebuildStates
  <2>7. QED BY <2>2, <2>3, <2>5, <2>6, Zenon
<1>8. ASSUME NEW a \in Rebuilds \ {b}, ~Running(a)
      PROVE  /\ rebuild'[a] = NoRebuild /\ rebuild'[a].at = "idle" /\ rebuild'[a].page = <<>>
             /\ \A r \in ReleaseIds : rebuild'[a].stays[r] = 0
  BY <1>4, <1>8 DEF NoRebuild
<1>9. SearchTypeOK'
  <2>1. \A a \in Rebuilds : rebuild'[a] \in RebuildStates
    BY <1>6, <1>7, <1>8, NoRebuildTyped
  <2>2. rebuild' \in [Rebuilds -> RebuildStates]
    BY <1>4, <2>1
  <2>3. QED BY <1>1, <2>2 DEF SearchTypeOK
<1>10. StaysThere'
  <2>1. SUFFICES ASSUME NEW a \in Rebuilds, NEW q \in ReleaseIds, rebuild'[a].stays[q] # 0
                 PROVE  rows[q] # Gone /\ rows[q] >= rebuild'[a].stays[q]
    BY <1>1 DEF StaysThere
  <2>2. CASE a = b
    BY <1>2, <1>6, <2>1, <2>2
  <2>3. CASE a # b
    BY <1>7, <1>8, <2>1, <2>3 DEF SearchInv, StaysThere
  <2>4. QED BY <2>2, <2>3
<1>11. AloneIsAlone'
  <2>1. SUFFICES ASSUME NEW c \in Rebuilds, NEW a \in Rebuilds, rebuild'[c].at # "idle", rebuild'[c].alone = TRUE,
                        rebuild'[a].at \in {"page", "index"}
                 PROVE  a = c
    BY DEF AloneIsAlone, Running
  <2>2. c = b
    BY <1>7, <1>8, <2>1
  <2>3. others = {}
    BY <1>3, <1>6, <2>1, <2>2
  <2>4. QED BY <1>8, <2>1, <2>2, <2>3
<1>12. PageIsFresh'
  <2>1. SUFFICES ASSUME NEW a \in Rebuilds
                 PROVE  /\ \A i \in 1..Len(rebuild'[a].page) :
                             rebuild'[a].page[i].name >= rebuild'[a].stays[rebuild'[a].page[i].id]
                        /\ rebuild'[a].at # "index" => rebuild'[a].page = <<>>
    BY DEF PageIsFresh
  <2>2. CASE rebuild'[a].page = <<>>
    BY <2>2
  <2>3. CASE a # b /\ Running(a)
    BY <1>7, <2>3 DEF SearchInv, PageIsFresh
  <2>4. QED BY <1>6, <1>8, <2>2, <2>3
<1>13. NoneLost'
  <2>1. SUFFICES ASSUME NEW a \in Rebuilds, NEW q \in ReleaseIds,
                        rebuild'[a].at # "idle", rebuild'[a].stays[q] # 0
                 PROVE  \/ Put(a, q)'
                        \/ OnPage(a, q)'
                        \/ AfterPage(a, q)'
                             /\ (rebuild'[a].at = "page" \/ (rebuild'[a].at = "index" /\ rebuild'[a].more = TRUE))
    BY DEF NoneLost
  <2>2. CASE a = b
    BY <1>6, <2>2 DEF AfterPage, Beyond
  <2>3. CASE a # b
    <3>1. Running(a)
      BY <1>8, <2>1, <2>3
    <3>2. (Put(a, q) => Put(a, q)')
            /\ (OnPage(a, q)' <=> OnPage(a, q)) /\ (AfterPage(a, q)' <=> AfterPage(a, q))
      BY <1>1, <1>7, <2>3, <3>1 DEF Put, OnPage, AfterPage, Beyond, Newer
    <3>3. QED BY <1>7, <2>1, <2>3, <3>1, <3>2 DEF SearchInv, NoneLost, Running
  <2>4. QED BY <2>2, <2>3
<1>14. QED BY <1>9, <1>10, <1>11, <1>12, <1>13 DEF SearchInv

\* The next page: a release that was ahead is on it, or it is full and the
\* release comes after it.
LEMMA FetchStep ==
  ASSUME SearchInv, NEW b \in Rebuilds, FetchPage(b)
  PROVE  SearchInv'
<1> DEFINE found == {r \in ReleaseIds : Present(r) /\ Beyond(r, rebuild[b].cursor)}
<1>1. SearchTypeOK /\ rebuild[b].at = "page" /\ rows' = rows /\ docs' = docs
  BY DEF SearchInv, FetchPage
<1>2. PICK page \in SearchReleasesPage(rebuild[b].cursor) :
        rebuild' = [rebuild EXCEPT ![b].at = "index", ![b].page = page, ![b].more = Len(page) = PageSize]
  BY DEF FetchPage
<1>3. PICK p \in FirstPage(found) : page = [i \in DOMAIN p |-> [id |-> p[i], name |-> rows[p[i]]]]
  BY <1>2 DEF SearchReleasesPage
<1>4. PICK n \in 0..PageSize : p \in [1..n -> found]
  BY <1>3 DEF FirstPage
<1>5. n \in Nat /\ DOMAIN p = 1..n /\ found \subseteq ReleaseIds
  BY <1>4, SearchIndexAssumption
<1>6. Len(p) = n
  BY <1>4, <1>5
<1>7. ASSUME NEW i \in 1..n
      PROVE  p[i] \in ReleaseIds /\ rows[p[i]] \in {1, 2}
  BY <1>1, <1>4, <1>5 DEF SearchTypeOK, Present
<1>8. \A i \in 1..n : [id |-> p[i], name |-> rows[p[i]]] \in PageRows
  BY <1>7 DEF PageRows
<1>9. /\ page \in Seq(PageRows) /\ Len(page) = n
      /\ \A i \in 1..n : page[i].id = p[i] /\ page[i].name = rows[p[i]]
  <2>1. page = [i \in 1..n |-> [id |-> p[i], name |-> rows[p[i]]]]
    BY <1>3, <1>5
  <2>2. page \in [1..n -> PageRows]
    BY <1>8, <2>1
  <2>3. QED BY <1>5, <2>1, <2>2
<1>10. PICK m \in BOOLEAN : m = (Len(page) = PageSize)
  OBVIOUS
<1>11. PICK s \in RebuildStates : s = rebuild[b]
  BY <1>1, RebuildFields
<1>12. /\ rebuild'[b] = [s EXCEPT !.at = "index", !.page = page, !.more = m]
       /\ \A a \in Rebuilds \ {b} : rebuild'[a] = rebuild[a]
       /\ rebuild' = [a \in Rebuilds |-> rebuild'[a]]
  BY <1>1, <1>2, <1>10, <1>11 DEF SearchTypeOK
<1>13. /\ rebuild'[b].at = "index" /\ rebuild'[b].page = page /\ rebuild'[b].more = m
       /\ rebuild'[b].stays = rebuild[b].stays /\ rebuild'[b].alone = rebuild[b].alone
       /\ rebuild'[b].cursor = rebuild[b].cursor
  BY <1>11, <1>12 DEF RebuildStates
<1>14. SearchTypeOK'
  <2>1. rebuild'[b] \in RebuildStates
    <3>1. page \in Seq(PageRows)
      BY <1>9
    <3>2. rebuild'[b] = [s EXCEPT !.at = "index", !.page = page, !.more = m]
      BY <1>12
    <3>3. QED BY <3>1, <3>2 DEF RebuildStates
  <2>2. \A a \in Rebuilds : rebuild'[a] \in RebuildStates
    BY <1>1, <1>12, <2>1, RebuildFields
  <2>3. rebuild' \in [Rebuilds -> RebuildStates]
    BY <1>12, <2>2
  <2>4. QED BY <1>1, <2>3 DEF SearchTypeOK
<1>15. StaysThere'
  <2>1. \A a \in Rebuilds : rebuild'[a].stays = rebuild[a].stays
    BY <1>12, <1>13
  <2>2. QED BY <1>1, <2>1 DEF SearchInv, StaysThere
<1>16. AloneIsAlone'
  <2>1. \A a \in Rebuilds : /\ rebuild'[a].alone = rebuild[a].alone
                            /\ rebuild'[a].at # "idle" => rebuild[a].at # "idle"
                            /\ rebuild'[a].at \in {"page", "index"} => Running(a)
    BY <1>1, <1>12, <1>13 DEF Running
  <2>2. QED BY <2>1 DEF SearchInv, AloneIsAlone, Running
<1>17. PageIsFresh'
  <2>1. ASSUME NEW i \in 1..n PROVE page[i].name >= rebuild[b].stays[page[i].id]
    <3>1. PICK r \in ReleaseIds : page[i].id = r /\ page[i].name = rows[r] /\ rows[r] \in {1, 2}
      BY <1>7, <1>9
    <3>2. rebuild[b].stays[r] \in {0, 1, 2}
      BY <1>1, RebuildFields
    <3>3. rebuild[b].stays[r] # 0 => rows[r] >= rebuild[b].stays[r]
      BY DEF SearchInv, StaysThere
    <3>4. QED BY <3>1, <3>2, <3>3
  <2>2. SUFFICES ASSUME NEW a \in Rebuilds
                 PROVE  /\ \A i \in 1..Len(rebuild'[a].page) :
                             rebuild'[a].page[i].name >= rebuild'[a].stays[rebuild'[a].page[i].id]
                        /\ rebuild'[a].at # "index" => rebuild'[a].page = <<>>
    BY DEF PageIsFresh
  <2>3. CASE a = b
    BY <1>9, <1>13, <2>1, <2>3
  <2>4. CASE a # b
    BY <1>12, <2>4 DEF SearchInv, PageIsFresh
  <2>5. QED BY <2>3, <2>4
<1>18. NoneLost'
  <2>1. SUFFICES ASSUME NEW a \in Rebuilds, NEW q \in ReleaseIds,
                        rebuild'[a].at # "idle", rebuild'[a].stays[q] # 0
                 PROVE  \/ Put(a, q)'
                        \/ OnPage(a, q)'
                        \/ AfterPage(a, q)'
                             /\ (rebuild'[a].at = "page" \/ (rebuild'[a].at = "index" /\ rebuild'[a].more = TRUE))
    BY DEF NoneLost
  <2>2. CASE a = b
    <3>1. rebuild[b].page = <<>> /\ rebuild[b].stays[q] # 0
      BY <1>1, <1>13, <2>1, <2>2 DEF SearchInv, PageIsFresh
    <3>2. ~OnPage(b, q)
      BY <3>1 DEF OnPage
    <3>3. Put(b, q) \/ Beyond(q, rebuild[b].cursor)
      BY <1>1, <3>1, <3>2 DEF SearchInv, NoneLost, AfterPage
    <3>4. CASE Put(b, q)
      BY <1>1, <1>13, <2>2, <3>4 DEF Put
    <3>5. CASE Beyond(q, rebuild[b].cursor)
      <4>1. q \in found
        <5>1. rows[q] # Gone /\ rows[q] >= rebuild[b].stays[q]
          BY <3>1 DEF SearchInv, StaysThere
        <5>2. rebuild[b].stays[q] \in {0, 1, 2}
          BY <1>1, RebuildFields
        <5>3. rows[q] # 0
          BY <3>1, <5>1, <5>2
        <5>4. QED BY <3>5, <5>1, <5>3 DEF Present
      <4>2. CASE q \in Range(p)
        <5>1. PICK i \in 1..n : p[i] = q
          BY <1>5, <4>2 DEF Range
        <5>2. QED BY <1>9, <1>13, <2>2, <5>1 DEF OnPage
      <4>3. CASE q \notin Range(p)
        <5>1. n = PageSize /\ Newer(p[n], q)
          BY <1>3, <1>6, <4>1, <4>3 DEF FirstPage
        <5>2. n \in 1..n /\ page # <<>> /\ m = TRUE
          <6>1. n \in 1..n /\ n # 0
            BY <1>5, <5>1, SearchIndexAssumption
          <6>2. page # <<>>
            BY <1>9, <6>1
          <6>3. Len(page) = PageSize
            BY <1>9, <5>1
          <6>4. m = TRUE
            BY <1>10, <6>3, Zenon
          <6>5. QED BY <6>1, <6>2, <6>4
        <5>3. AfterPage(b, q)'
          BY <1>9, <1>13, <5>1, <5>2 DEF AfterPage, Newer
        <5>4. QED BY <1>13, <2>2, <5>2, <5>3
      <4>4. QED BY <4>2, <4>3
    <3>6. QED BY <3>3, <3>4, <3>5
  <2>3. CASE a # b
    <3>1. rebuild'[a] = rebuild[a]
      BY <1>12, <2>3
    <3>2. (Put(a, q)' <=> Put(a, q))
            /\ (OnPage(a, q)' <=> OnPage(a, q)) /\ (AfterPage(a, q)' <=> AfterPage(a, q))
      BY <1>1, <3>1 DEF Put, OnPage, AfterPage, Beyond, Newer
    <3>3. QED BY <2>1, <3>1, <3>2 DEF SearchInv, NoneLost
  <2>4. QED BY <2>2, <2>3
<1>19. QED BY <1>14, <1>15, <1>16, <1>17, <1>18 DEF SearchInv

\* One document: its release is in the index now, and the cursor is on it.
LEMMA IndexStep ==
  ASSUME SearchInv, NEW b \in Rebuilds, IndexRelease(b)
  PROVE  SearchInv'
<1>1. SearchTypeOK /\ rebuild[b].at = "index" /\ rebuild[b].page # <<>> /\ rows' = rows
  BY DEF SearchInv, IndexRelease
<1>2. PICK s \in RebuildStates, page \in Seq(PageRows) : s = rebuild[b] /\ page = rebuild[b].page
  BY <1>1, RebuildFields
<1>3. PICK x \in PageRows : x = Head(page)
  BY <1>1, <1>2
<1>4. PICK id \in ReleaseIds, name \in {1, 2} : x.id = id /\ x.name = name
  BY DEF PageRows
<1>5. /\ docs' = [docs EXCEPT ![id] = name]
      /\ rebuild' = [rebuild EXCEPT ![b].page = Tail(page), ![b].cursor = id]
  BY <1>2, <1>3, <1>4 DEF IndexRelease
<1>6. /\ Tail(page) \in Seq(PageRows) /\ Len(page) \in Nat \ {0} /\ Len(Tail(page)) = Len(page) - 1
      /\ \A i \in 1..Len(Tail(page)) : i + 1 \in 1..Len(page) /\ Tail(page)[i] = page[i + 1]
      /\ page[1] = x
      /\ Tail(page) = <<>> <=> Len(page) = 1
  <2>1. page # <<>>
    BY <1>1, <1>2
  <2>2. /\ 1 \in DOMAIN page /\ Head(page) = page[1]
        /\ Tail(page) \in Seq(PageRows) /\ Len(page) \in Nat /\ Len(Tail(page)) = Len(page) - 1
        /\ \A i \in DOMAIN Tail(page) : i + 1 \in DOMAIN page /\ Tail(page)[i] = page[i + 1]
    BY <2>1, TailOf
  <2>3. Len(page) = 1 <=> Tail(page) = <<>>
    BY <2>1, TailFacts
  <2>4. DOMAIN page = 1..Len(page) /\ DOMAIN Tail(page) = 1..Len(Tail(page))
    BY <2>2
  <2>5. QED BY <1>3, <2>2, <2>3, <2>4
<1>7. PICK t \in Seq(PageRows) : t = Tail(page)
  BY <1>6
<1>8. /\ rebuild'[b] = [s EXCEPT !.page = t, !.cursor = id]
      /\ \A a \in Rebuilds \ {b} : rebuild'[a] = rebuild[a]
      /\ rebuild' = [a \in Rebuilds |-> rebuild'[a]]
  BY <1>1, <1>2, <1>5, <1>7 DEF SearchTypeOK
<1>9. /\ rebuild'[b].at = "index" /\ rebuild'[b].page = t /\ rebuild'[b].more = rebuild[b].more
      /\ rebuild'[b].stays = rebuild[b].stays /\ rebuild'[b].alone = rebuild[b].alone
      /\ rebuild'[b].cursor = id
  BY <1>1, <1>2, <1>8 DEF RebuildStates
<1>10. docs'[id] = name /\ \A r \in ReleaseIds \ {id} : docs'[r] = docs[r]
  BY <1>1, <1>5 DEF SearchTypeOK
<1>11. SearchTypeOK'
  <2>1. rebuild'[b] \in RebuildStates
    <3>1. rebuild'[b] = [s EXCEPT !.page = t, !.cursor = id]
      BY <1>8
    <3>2. QED BY <3>1 DEF RebuildStates
  <2>2. \A a \in Rebuilds : rebuild'[a] \in RebuildStates
    BY <1>1, <1>8, <2>1, RebuildFields
  <2>3. rebuild' \in [Rebuilds -> RebuildStates]
    BY <1>8, <2>2
  <2>4. docs' \in [ReleaseIds -> {0, 1, 2}]
    BY <1>1, <1>5 DEF SearchTypeOK
  <2>5. QED BY <1>1, <2>3, <2>4 DEF SearchTypeOK
<1>12. StaysThere'
  <2>1. \A a \in Rebuilds : rebuild'[a].stays = rebuild[a].stays
    BY <1>8, <1>9
  <2>2. QED BY <1>1, <2>1 DEF SearchInv, StaysThere
<1>13. AloneIsAlone'
  <2>1. \A a \in Rebuilds : /\ rebuild'[a].alone = rebuild[a].alone
                            /\ rebuild'[a].at = rebuild[a].at
    BY <1>1, <1>8, <1>9
  <2>2. QED BY <2>1 DEF SearchInv, AloneIsAlone, Running
<1>14. \A i \in 1..Len(page) : page[i].name >= rebuild[b].stays[page[i].id]
  BY <1>2 DEF SearchInv, PageIsFresh
<1>15. PageIsFresh'
  <2>1. \A i \in 1..Len(t) : t[i].name >= rebuild[b].stays[t[i].id]
    BY <1>6, <1>7, <1>14
  <2>2. SUFFICES ASSUME NEW a \in Rebuilds
                 PROVE  /\ \A i \in 1..Len(rebuild'[a].page) :
                             rebuild'[a].page[i].name >= rebuild'[a].stays[rebuild'[a].page[i].id]
                        /\ rebuild'[a].at # "index" => rebuild'[a].page = <<>>
    BY DEF PageIsFresh
  <2>3. CASE a = b
    BY <1>9, <2>1, <2>3
  <2>4. CASE a # b
    BY <1>8, <2>4 DEF SearchInv, PageIsFresh
  <2>5. QED BY <2>3, <2>4
<1>16. NoneLost'
  <2>1. SUFFICES ASSUME NEW a \in Rebuilds, NEW q \in ReleaseIds,
                        rebuild'[a].at # "idle", rebuild'[a].stays[q] # 0
                 PROVE  \/ Put(a, q)'
                        \/ OnPage(a, q)'
                        \/ AfterPage(a, q)'
                             /\ (rebuild'[a].at = "page" \/ (rebuild'[a].at = "index" /\ rebuild'[a].more = TRUE))
    BY DEF NoneLost
  <2>2. CASE a = b
    <3>1. rebuild[b].stays[q] # 0 /\ rebuild[b].at # "idle"
      BY <1>1, <1>9, <2>1, <2>2
    <3>2. CASE q = id
      <4>1. name >= rebuild[b].stays[id]
        <5>1. 1 \in 1..Len(page)
          BY <1>6
        <5>2. QED BY <1>4, <1>6, <1>14, <5>1
      <4>2. Put(b, q)'
        BY <1>9, <1>10, <3>2, <4>1 DEF Put
      <4>3. QED BY <2>2, <4>2
    <3>3. CASE q # id
      <4>1. Put(b, q) => Put(b, q)'
        BY <1>9, <1>10, <3>3 DEF Put
      <4>2. OnPage(b, q) => OnPage(b, q)'
        <5>1. SUFFICES ASSUME NEW i \in 1..Len(page), page[i].id = q PROVE OnPage(b, q)'
          BY <1>2 DEF OnPage
        <5>2. i # 1
          BY <1>4, <1>6, <3>3, <5>1
        <5>3. i - 1 \in 1..Len(t) /\ t[i - 1] = page[i]
          BY <1>6, <1>7, <5>2
        <5>4. QED BY <1>9, <5>1, <5>3 DEF OnPage
      <4>3. AfterPage(b, q) => AfterPage(b, q)'
        <5>1. SUFFICES ASSUME Newer(page[Len(page)].id, q) PROVE AfterPage(b, q)'
          BY <1>1, <1>2 DEF AfterPage
        <5>2. CASE t = <<>>
          <6>1. Len(page) = 1
            BY <1>6, <1>7, <5>2
          <6>2. Newer(id, q)
            BY <1>4, <1>6, <5>1, <6>1
          <6>3. QED BY <1>9, <5>2, <6>2 DEF AfterPage, Beyond, Newer
        <5>3. CASE t # <<>>
          <6>1. Len(t) \in 1..Len(t) /\ Len(t) + 1 = Len(page)
            BY <1>6, <1>7, <5>3
          <6>2. t[Len(t)] = page[Len(page)]
            BY <1>6, <1>7, <6>1
          <6>3. QED BY <1>9, <5>1, <5>3, <6>2 DEF AfterPage, Newer
        <5>4. QED BY <5>2, <5>3
      <4>4. QED BY <1>1, <1>9, <2>2, <3>1, <4>1, <4>2, <4>3 DEF SearchInv, NoneLost
    <3>4. QED BY <3>2, <3>3
  <2>3. CASE a # b
    <3>1. rebuild'[a] = rebuild[a]
      BY <1>8, <2>3
    <3>2. (OnPage(a, q)' <=> OnPage(a, q)) /\ (AfterPage(a, q)' <=> AfterPage(a, q))
      BY <3>1 DEF OnPage, AfterPage, Beyond, Newer
    <3>3. rebuild[a].alone # TRUE
      BY <1>1, <2>1, <2>3, <3>1 DEF SearchInv, AloneIsAlone, Running
    <3>4. Put(a, q) => Put(a, q)'
      <4>1. docs[q] # 0 => docs'[q] # 0
        BY <1>10
      <4>2. QED BY <3>1, <3>3, <4>1 DEF Put
    <3>5. QED BY <2>1, <3>1, <3>2, <3>4 DEF SearchInv, NoneLost
  <2>4. QED BY <2>2, <2>3
<1>17. QED BY <1>11, <1>12, <1>13, <1>15, <1>16 DEF SearchInv

\* The end of a page or of a rebuild moves nothing else.
LEMMA EndStep ==
  ASSUME SearchInv, NEW b \in Rebuilds, PageDone(b) \/ ReindexFails(b)
  PROVE  SearchInv'
<1>1. SearchTypeOK /\ rows' = rows /\ docs' = docs
  BY DEF SearchInv, PageDone, ReindexFails
<1>2. ASSUME NEW s \in RebuildStates, rebuild' = [rebuild EXCEPT ![b] = s],
             \A r \in ReleaseIds : s.stays[r] # 0 => s.stays = rebuild[b].stays /\ s.alone = rebuild[b].alone
                                                     /\ s.cursor = rebuild[b].cursor /\ s.at # "idle",
             s.page = <<>>,
             s.at # "idle" => /\ rebuild[b].at = "index" /\ rebuild[b].page = <<>>
                              /\ s.alone = rebuild[b].alone
                              /\ rebuild[b].more = TRUE => s.at = "page"
      PROVE  SearchInv'
  <2>1. rebuild'[b] = s /\ \A a \in Rebuilds \ {b} : rebuild'[a] = rebuild[a]
    BY <1>1, <1>2 DEF SearchTypeOK
  <2>2. SearchTypeOK'
    BY <1>1, <1>2 DEF SearchTypeOK
  <2>3. StaysThere'
    BY <1>1, <1>2, <2>1 DEF SearchInv, StaysThere
  <2>4. AloneIsAlone'
    <3>1. SUFFICES ASSUME NEW c \in Rebuilds, NEW a \in Rebuilds, rebuild'[c].at # "idle",
                          rebuild'[c].alone = TRUE, rebuild'[a].at \in {"page", "index"}
                   PROVE  a = c
      BY DEF AloneIsAlone, Running
    <3>2. Running(a)
      BY <1>2, <2>1, <3>1 DEF Running
    <3>3. rebuild[c].at # "idle" /\ rebuild[c].alone = TRUE
      BY <1>2, <2>1, <3>1
    <3>4. QED BY <3>2, <3>3 DEF SearchInv, AloneIsAlone
  <2>5. PageIsFresh'
    <3>1. SUFFICES ASSUME NEW a \in Rebuilds
                   PROVE  /\ \A i \in 1..Len(rebuild'[a].page) :
                               rebuild'[a].page[i].name >= rebuild'[a].stays[rebuild'[a].page[i].id]
                          /\ rebuild'[a].at # "index" => rebuild'[a].page = <<>>
      BY DEF PageIsFresh
    <3>2. CASE a = b
      BY <1>2, <2>1, <3>2
    <3>3. CASE a # b
      BY <2>1, <3>3 DEF SearchInv, PageIsFresh
    <3>4. QED BY <3>2, <3>3
  <2>6. NoneLost'
    <3>1. SUFFICES ASSUME NEW a \in Rebuilds, NEW q \in ReleaseIds,
                          rebuild'[a].at # "idle", rebuild'[a].stays[q] # 0
                   PROVE  \/ Put(a, q)'
                          \/ OnPage(a, q)'
                          \/ AfterPage(a, q)'
                               /\ (rebuild'[a].at = "page" \/ (rebuild'[a].at = "index" /\ rebuild'[a].more = TRUE))
      BY DEF NoneLost
    <3>2. CASE a = b
      <4>1. /\ rebuild[b].stays[q] # 0 /\ rebuild[b].at = "index" /\ rebuild[b].page = <<>>
            /\ s.stays = rebuild[b].stays /\ s.alone = rebuild[b].alone /\ s.cursor = rebuild[b].cursor
        BY <1>2, <2>1, <3>1, <3>2
      <4>2. ~OnPage(b, q)
        BY <4>1 DEF OnPage
      <4>3. Put(b, q) \/ (AfterPage(b, q) /\ rebuild[b].more = TRUE)
        BY <4>1, <4>2 DEF SearchInv, NoneLost
      <4>4. Put(b, q) => Put(b, q)'
        BY <1>1, <2>1, <4>1 DEF Put
      <4>5. AfterPage(b, q) => AfterPage(b, q)'
        BY <1>2, <2>1, <4>1 DEF AfterPage, Beyond, Newer
      <4>6. QED BY <1>2, <2>1, <3>1, <3>2, <4>3, <4>4, <4>5
    <3>3. CASE a # b
      <4>1. rebuild'[a] = rebuild[a]
        BY <2>1, <3>3
      <4>2. (Put(a, q)' <=> Put(a, q))
              /\ (OnPage(a, q)' <=> OnPage(a, q)) /\ (AfterPage(a, q)' <=> AfterPage(a, q))
        BY <1>1, <4>1 DEF Put, OnPage, AfterPage, Beyond, Newer
      <4>3. QED BY <3>1, <4>1, <4>2 DEF SearchInv, NoneLost
    <3>4. QED BY <3>2, <3>3
  <2>7. QED BY <2>2, <2>3, <2>4, <2>5, <2>6 DEF SearchInv
<1>3. CASE PageDone(b)
  <2>1. PICK x \in {"page", "complete"} : x = IF rebuild[b].more THEN "page" ELSE "complete"
    OBVIOUS
  <2>2. /\ rebuild[b].at = "index" /\ rebuild[b].page = <<>>
        /\ rebuild' = [rebuild EXCEPT ![b].at = x]
    BY <1>3, <2>1 DEF PageDone
  <2>3. PICK s \in RebuildStates : s = [rebuild[b] EXCEPT !.at = x]
    BY <1>1, RebuildFields DEF RebuildStates
  <2>4. /\ s.at = x /\ s.page = <<>> /\ s.alone = rebuild[b].alone /\ s.stays = rebuild[b].stays
        /\ s.cursor = rebuild[b].cursor
    BY <1>1, <2>2, <2>3, RebuildFields DEF RebuildStates
  <2>5. rebuild' = [rebuild EXCEPT ![b] = s]
    BY <1>1, <2>2, <2>3 DEF SearchTypeOK
  <2>6. rebuild[b].more = TRUE => s.at = "page"
    BY <2>1, <2>4
  <2>7. QED BY <1>2, <2>2, <2>4, <2>5, <2>6
<1>4. CASE ReindexFails(b)
  <2>1. PICK s \in RebuildStates : s = NoRebuild
    BY NoRebuildTyped
  <2>2. rebuild' = [rebuild EXCEPT ![b] = s]
    BY <1>4, <2>1 DEF ReindexFails
  <2>3. s.at = "idle" /\ s.page = <<>> /\ \A r \in ReleaseIds : s.stays[r] = 0
    BY <2>1 DEF NoRebuild
  <2>4. QED BY <1>2, <2>2, <2>3
<1>5. QED BY <1>3, <1>4

LEMMA SearchInvInit == SearchInit => SearchInv
<1> SUFFICES ASSUME SearchInit PROVE SearchInv
  OBVIOUS
<1>1. SearchTypeOK
  BY NoRebuildTyped DEF SearchInit, SearchTypeOK
<1>2. \A b \in Rebuilds : /\ rebuild[b].at = "idle" /\ rebuild[b].page = <<>>
                          /\ \A r \in ReleaseIds : rebuild[b].stays[r] = 0
  BY DEF SearchInit, NoRebuild
<1>3. QED BY <1>1, <1>2 DEF SearchInv, StaysThere, AloneIsAlone, PageIsFresh, NoneLost

LEMMA SearchInvStep == SearchInv /\ [SearchNext]_searchVars => SearchInv'
<1> SUFFICES ASSUME SearchInv, [SearchNext]_searchVars PROVE SearchInv'
  OBVIOUS
<1>1. rows \in [ReleaseIds -> {0, 1, 2, Gone}]
  BY DEF SearchInv, SearchTypeOK
<1>2. ASSUME NEW r \in ReleaseIds, InsertRelease(r) \/ RenameRelease(r) PROVE SearchInv'
  <2>1. /\ docs' = docs /\ rebuild' = rebuild
        /\ rows' \in [ReleaseIds -> {0, 1, 2, Gone}] /\ \A q \in ReleaseIds \ {r} : rows'[q] = rows[q]
        /\ rows'[r] # Gone /\ rows[r] # Gone /\ rows'[r] >= rows[r]
    BY <1>1, <1>2 DEF InsertRelease, RenameRelease, Gone
  <2>2. QED BY <2>1, PipelineStep
<1>3. ASSUME NEW r \in ReleaseIds, RemoveRelease(r) PROVE SearchInv'
  <2>1. /\ docs' = docs /\ rebuild' = [b \in Rebuilds |-> [rebuild[b] EXCEPT !.stays[r] = 0]]
        /\ rows' \in [ReleaseIds -> {0, 1, 2, Gone}] /\ \A q \in ReleaseIds \ {r} : rows'[q] = rows[q]
    BY <1>1, <1>3 DEF RemoveRelease
  <2>2. QED BY <2>1, PipelineStep
<1>4. ASSUME NEW b \in Rebuilds,
             StartReindex(b) \/ FetchPage(b) \/ IndexRelease(b) \/ PageDone(b) \/ ReindexFails(b)
      PROVE  SearchInv'
  BY <1>4, StartStep, FetchStep, IndexStep, EndStep
<1>5. CASE UNCHANGED searchVars
  BY <1>5 DEF searchVars, SearchInv, SearchTypeOK, StaysThere, AloneIsAlone, Running, PageIsFresh, NoneLost,
              Put, OnPage, AfterPage, Beyond, Newer
<1>6. QED BY <1>2, <1>3, <1>4, <1>5 DEF SearchNext, SearchRests

\* A rebuild that completes has put every release that was there all the while
\* into the index, under no older name unless another rebuild ran beside it,
\* whatever is inserted, renamed and deleted between its pages (Reindex,
\* SearchReleasesPage).
THEOREM RebuildComplete == SearchSpec => []ReindexComplete
<1>1. SearchInv => ReindexComplete
  <2> SUFFICES ASSUME SearchInv, NEW b \in Rebuilds, rebuild[b].at = "complete",
                      NEW r \in ReleaseIds, rebuild[b].stays[r] # 0
               PROVE  docs[r] # 0 /\ (rebuild[b].alone => docs[r] >= rebuild[b].stays[r])
    BY DEF ReindexComplete
  <2>1. rebuild[b].page = <<>> /\ rebuild[b].alone \in BOOLEAN
    BY RebuildFields DEF SearchInv, PageIsFresh
  <2>2. ~OnPage(b, r)
    BY <2>1 DEF OnPage
  <2>3. Put(b, r)
    BY <2>2 DEF SearchInv, NoneLost
  <2>4. QED BY <2>1, <2>3 DEF Put
<1>2. QED BY <1>1, SearchInvInit, SearchInvStep, PTL DEF SearchSpec
-----------------------------------------------------------------------------
(* Post-processing: what became of a release *)

\* The columns a row has; how long it waits does not matter here.
RowShape(row) ==
  /\ row = [status |-> row.status, attempts |-> row.attempts, permanent |-> row.permanent, wait |-> row.wait]
  /\ row.status \in {"pending", "failed", "done", "gone"} /\ row.attempts \in Nat

WorkerShape(x) ==
  /\ x = [at |-> x.at, rel |-> x.rel, out |-> x.out, read |-> x.read]
  /\ x.at \in {"off", "idle", "work", "read", "write", "apply"}

ShapeOK == /\ rel = [r \in Releases |-> rel[r]] /\ \A r \in Releases : RowShape(rel[r])
           /\ worker = [w \in Workers |-> worker[w]] /\ \A w \in Workers : WorkerShape(worker[w])
           /\ pass \in Passes
           /\ failures \in [Releases -> Nat]

\* A worker has a release in hand.
Works(w) == worker[w].at \in {"work", "read", "write", "apply"}

\* The pass has claimed a release and is not finished with it.
InHand(r) == r \in pass.todo \/ \E w \in Workers : Works(w) /\ worker[w].rel = r

\* No release is in two hands, and none in any while there is no pass.
OneHand == /\ \A w \in Workers : Works(w) => worker[w].rel \in Releases \ pass.todo
           /\ \A w, v \in Workers : Works(w) /\ Works(v) /\ worker[w].rel = worker[v].rel => w = v
           /\ pass.at = "idle" => pass.todo = {} /\ \A w \in Workers : worker[w].at = "off"

\* A release in hand is not finished and may fail once more.
HandMayFail == \A r \in Releases : InHand(r) => rel[r].status # "done" /\ failures[r] <= MaxPPAttempts

\* Every failure had a claim, but one that a requeue overtook.
FailuresClaimed ==
  \A r \in Releases :
    /\ rel[r].status = "pending" => failures[r] = 0
    /\ rel[r].status \in {"pending", "failed"} =>
         /\ failures[r] <= rel[r].attempts + 1
         /\ InHand(r) => failures[r] <= rel[r].attempts
    /\ failures[r] <= MaxPPAttempts + 1

ProcessInv == ShapeOK /\ OneHand /\ HandMayFail /\ FailuresClaimed

\* What a release of the batch is like before the claim and after it.
LEMMA ClaimFacts ==
  ASSUME ProcessInv, pass.at = "idle", rel' = Claim(ListPendingReleases), failures' = failures,
         NEW r \in Releases
  PROVE  /\ ListPendingReleases \subseteq Releases
         /\ RowShape(rel[r])' /\ rel'[r].status = rel[r].status
         /\ r \notin ListPendingReleases => rel'[r] = rel[r]
         /\ r \in ListPendingReleases => /\ rel'[r].attempts = rel[r].attempts + 1
                                         /\ rel[r].status # "done"
                                         /\ failures[r] <= MaxPPAttempts
<1>1. RowShape(rel[r]) /\ failures[r] \in Nat /\ MaxPPAttempts \in Nat \ {0}
  BY PostProcessAssumption DEF ProcessInv, ShapeOK
<1>2. \A q \in ListPendingReleases :
        /\ q \in Releases
        /\ \/ rel[q].status = "pending"
           \/ rel[q].status = "failed" /\ rel[q].attempts < MaxPPAttempts
  BY DEF ListPendingReleases, Due
<1>3. CASE r \notin ListPendingReleases
  <2>1. rel'[r] = rel[r]
    BY <1>3 DEF Claim
  <2>2. QED BY <1>1, <1>2, <1>3, <2>1 DEF RowShape
<1>4. CASE r \in ListPendingReleases
  <2>1. rel'[r] = [rel[r] EXCEPT !.attempts = @ + 1]
    BY <1>4 DEF Claim
  <2>2. /\ rel'[r].status = rel[r].status /\ rel'[r].attempts = rel[r].attempts + 1
        /\ rel'[r] = [status |-> rel[r].status, attempts |-> rel[r].attempts + 1,
                      permanent |-> rel[r].permanent, wait |-> rel[r].wait]
    BY <1>1, <2>1 DEF RowShape
  <2>3. RowShape(rel[r])'
    BY <1>1, <2>2 DEF RowShape
  <2>4. failures[r] <= MaxPPAttempts
    <3>1. CASE rel[r].status = "pending"
      BY <1>1, <3>1 DEF ProcessInv, FailuresClaimed
    <3>2. CASE rel[r].status = "failed" /\ rel[r].attempts < MaxPPAttempts
      <4>1. failures[r] <= rel[r].attempts + 1 /\ rel[r].attempts \in Nat
        BY <1>1, <3>2 DEF ProcessInv, FailuresClaimed, RowShape
      <4>2. QED BY <1>1, <3>2, <4>1
    <3>3. QED BY <1>2, <1>4, <3>1, <3>2
  <2>5. QED BY <1>2, <1>4, <2>2, <2>3, <2>4
<1>5. QED BY <1>3, <1>4

\* A batch is claimed: nothing was in hand, and its members are now, or nothing
\* is if the segments cannot be loaded.
LEMMA ClaimStep ==
  ASSUME ProcessInv, Begin \/ BeginFails
  PROVE  ProcessInv'
<1> DEFINE L == ListPendingReleases
<1>1. /\ pass.at = "idle" /\ failures' = failures /\ rel' = Claim(L)
      /\ \/ pass' = [NoPass EXCEPT !.at = "send", !.todo = L]
         \/ pass' = pass /\ worker' = worker
  BY DEF Begin, BeginFails
<1>2. ASSUME NEW w \in Workers PROVE WorkerShape(worker[w])' /\ ~Works(w)'
  <2>1. worker[w].at = "off" /\ WorkerShape(worker[w])
    BY <1>1 DEF ProcessInv, ShapeOK, OneHand
  <2>2. \/ worker'[w] = worker[w]
        \/ worker'[w] = [NoWorker EXCEPT !.at = "idle"]
    BY <1>1 DEF Begin, BeginFails
  <2>3. QED BY <2>1, <2>2 DEF WorkerShape, Works, NoWorker
<1>3. worker' = [w \in Workers |-> worker'[w]]
  BY DEF Begin, BeginFails, ProcessInv, ShapeOK
<1>4. \A r \in Releases : RowShape(rel[r])' /\ rel'[r].status = rel[r].status
  BY <1>1, ClaimFacts
<1>5. L \subseteq Releases
  BY DEF ListPendingReleases, Due
<1>6. pass' \in Passes /\ (pass'.at = "idle" => pass'.todo = {} /\ worker' = worker) /\ pass'.todo \in {{}, L}
  <2>1. CASE pass' = pass /\ worker' = worker
    BY <1>1, <2>1 DEF ProcessInv, ShapeOK, OneHand
  <2>2. CASE pass' = [NoPass EXCEPT !.at = "send", !.todo = L]
    <3> HIDE DEF L
    <3>1. pass' = [at |-> "send", todo |-> L, stop |-> FALSE, cancelled |-> FALSE]
      BY <2>2 DEF NoPass
    <3>2. QED BY <1>5, <3>1 DEF Passes
  <2>3. QED BY <1>1, <2>1, <2>2
<1>7. ShapeOK'
  <2>1. rel' = [r \in Releases |-> rel'[r]]
    BY <1>1 DEF Claim
  <2>2. QED BY <1>1, <1>2, <1>3, <1>4, <1>6, <2>1 DEF ProcessInv, ShapeOK
<1>8. OneHand'
  BY <1>1, <1>2, <1>6 DEF OneHand, ProcessInv
<1>9. \A r \in Releases : InHand(r)' => r \in L
  BY <1>2, <1>6 DEF InHand
<1>10. HandMayFail'
  BY <1>1, <1>9, ClaimFacts DEF HandMayFail
<1>11. FailuresClaimed'
  <2>1. SUFFICES ASSUME NEW r \in Releases
                 PROVE  /\ rel'[r].status = "pending" => failures'[r] = 0
                        /\ rel'[r].status \in {"pending", "failed"} =>
                             /\ failures'[r] <= rel'[r].attempts + 1
                             /\ InHand(r)' => failures'[r] <= rel'[r].attempts
                        /\ failures'[r] <= MaxPPAttempts + 1
    BY DEF FailuresClaimed
  <2>2. /\ rel[r].attempts \in Nat /\ failures[r] \in Nat /\ rel'[r].status = rel[r].status
        /\ failures'[r] = failures[r]
        /\ rel'[r] = rel[r] \/ rel'[r].attempts = rel[r].attempts + 1
        /\ InHand(r)' => rel'[r].attempts = rel[r].attempts + 1
    BY <1>1, <1>9, ClaimFacts DEF ProcessInv, ShapeOK, RowShape
  <2>3. /\ rel[r].status = "pending" => failures[r] = 0
        /\ rel[r].status \in {"pending", "failed"} => failures[r] <= rel[r].attempts + 1
        /\ failures[r] <= MaxPPAttempts + 1
    BY DEF ProcessInv, FailuresClaimed
  <2>4. QED BY <2>2, <2>3
<1>12. QED BY <1>7, <1>8, <1>10, <1>11 DEF ProcessInv

\* A step that takes no release into a hand and leaves the rows and the failures
\* as they are.
LEMMA HandsOff ==
  ASSUME ProcessInv, ShapeOK', OneHand', rel' = rel, failures' = failures,
         \A r \in Releases : InHand(r)' => InHand(r)
  PROVE  ProcessInv'
<1>1. HandMayFail'
  BY DEF HandMayFail, ProcessInv
<1>2. FailuresClaimed'
  BY DEF FailuresClaimed, ProcessInv
<1>3. QED BY <1>1, <1>2 DEF ProcessInv

\* One worker moves, within the release it has or to none.
LEMMA WorkerMoves ==
  ASSUME ProcessInv, NEW w \in Workers, NEW x, WorkerShape(x),
         worker' = [worker EXCEPT ![w] = x],
         x.at \in {"work", "read", "write", "apply"} => Works(w) /\ x.rel = worker[w].rel,
         pass' \in Passes, pass'.todo = pass.todo, pass'.at = pass.at,
         Works(w) \/ worker[w].at = "idle"
  PROVE  /\ worker' = [v \in Workers |-> worker'[v]] /\ \A v \in Workers : WorkerShape(worker[v])'
         /\ OneHand'
         /\ \A r \in Releases : InHand(r)' => InHand(r)
         /\ \A v \in Workers : Works(v)' => Works(v) /\ worker'[v].rel = worker[v].rel
         /\ worker'[w] = x
<1>1. /\ worker'[w] = x /\ \A v \in Workers \ {w} : worker'[v] = worker[v]
      /\ worker' = [v \in Workers |-> worker'[v]]
  BY DEF ProcessInv, ShapeOK
<1>2. \A v \in Workers : WorkerShape(worker[v])'
  <2>1. ASSUME NEW v \in Workers \ {w} PROVE WorkerShape(worker[v])'
    BY <1>1 DEF ProcessInv, ShapeOK, WorkerShape
  <2>2. WorkerShape(worker[w])'
    BY <1>1 DEF WorkerShape
  <2>3. QED BY <2>1, <2>2
<1>3. \A v \in Workers : Works(v)' => Works(v) /\ worker'[v].rel = worker[v].rel
  BY <1>1 DEF Works
<1>4. OneHand'
  <2>1. pass.at # "idle"
    BY DEF ProcessInv, OneHand, Works
  <2>2. QED BY <1>3, <2>1 DEF ProcessInv, OneHand
<1>5. \A r \in Releases : InHand(r)' => InHand(r)
  BY <1>3 DEF InHand
<1>6. QED BY <1>1, <1>2, <1>3, <1>4, <1>5

\* What is said of one release.
Fits(r) ==
  /\ InHand(r) => rel[r].status # "done" /\ failures[r] <= MaxPPAttempts
  /\ rel[r].status = "pending" => failures[r] = 0
  /\ rel[r].status \in {"pending", "failed"} =>
       /\ failures[r] <= rel[r].attempts + 1
       /\ InHand(r) => failures[r] <= rel[r].attempts
  /\ failures[r] <= MaxPPAttempts + 1

LEMMA AllFit == (\A r \in Releases : Fits(r)) <=> HandMayFail /\ FailuresClaimed
BY DEF Fits, HandMayFail, FailuresClaimed

\* A release that keeps its columns and its failures and comes into no hand fits.
LEMMA StillFits ==
  ASSUME ProcessInv, NEW r \in Releases, rel'[r].status = rel[r].status,
         rel'[r].attempts = rel[r].attempts, failures'[r] = failures[r], InHand(r)' => InHand(r)
  PROVE  Fits(r)'
<1>1. Fits(r)
  BY AllFit DEF ProcessInv
<1>2. QED BY <1>1 DEF Fits

\* A worker with two of its fields changed.
LEMMA WorkerReading ==
  ASSUME NEW x, x = [at |-> x.at, rel |-> x.rel, out |-> x.out, read |-> x.read], NEW a, NEW b
  PROVE  [[x EXCEPT !.at = a] EXCEPT !.read = b] = [at |-> a, rel |-> x.rel, out |-> x.out, read |-> b]
<1>1. PICK p, q, o, n : x = [at |-> p, rel |-> q, out |-> o, read |-> n]
  OBVIOUS
<1>2. x.at = p /\ x.rel = q /\ x.out = o /\ x.read = n
  BY <1>1
<1>3. [x EXCEPT !.at = a] = [at |-> a, rel |-> q, out |-> o, read |-> n]
  BY <1>1
<1>4. [[at |-> a, rel |-> q, out |-> o, read |-> n] EXCEPT !.read = b]
        = [at |-> a, rel |-> q, out |-> o, read |-> b]
  OBVIOUS
<1>5. QED BY <1>2, <1>3, <1>4, Zenon

LEMMA WorkerWith ==
  ASSUME NEW x, x = [at |-> x.at, rel |-> x.rel, out |-> x.out, read |-> x.read], NEW a, NEW b
  PROVE  /\ [[x EXCEPT !.out = b] EXCEPT !.at = a] = [at |-> a, rel |-> x.rel, out |-> b, read |-> x.read]
         /\ [[x EXCEPT !.at = a] EXCEPT !.out = b] = [at |-> a, rel |-> x.rel, out |-> b, read |-> x.read]
         /\ [[x EXCEPT !.at = a] EXCEPT !.rel = b] = [at |-> a, rel |-> b, out |-> x.out, read |-> x.read]
<1>1. PICK p, q, o, n : x = [at |-> p, rel |-> q, out |-> o, read |-> n]
  OBVIOUS
<1>2. x.at = p /\ x.rel = q /\ x.out = o /\ x.read = n
  BY <1>1
<1>3. /\ [x EXCEPT !.out = b] = [at |-> p, rel |-> q, out |-> b, read |-> n]
      /\ [x EXCEPT !.at = a] = [at |-> a, rel |-> q, out |-> o, read |-> n]
  BY <1>1
<1>4. /\ [[at |-> p, rel |-> q, out |-> b, read |-> n] EXCEPT !.at = a]
           = [at |-> a, rel |-> q, out |-> b, read |-> n]
      /\ [[at |-> a, rel |-> q, out |-> o, read |-> n] EXCEPT !.out = b]
           = [at |-> a, rel |-> q, out |-> b, read |-> n]
      /\ [[at |-> a, rel |-> q, out |-> o, read |-> n] EXCEPT !.rel = b]
           = [at |-> a, rel |-> b, out |-> o, read |-> n]
  OBVIOUS
<1>5. QED BY <1>2, <1>3, <1>4, Zenon

LEMMA NoWorkerShape == WorkerShape(NoWorker) /\ NoWorker.at = "off"
BY DEF WorkerShape, NoWorker

\* The pass hands a release to a worker, or ends its send loop.
LEMMA PassMoves ==
  ASSUME ProcessInv, Sending \/ CloseJobs \/ RunReturns \/ Cancel \/ Crash
  PROVE  ProcessInv'
<1>1. CASE Sending
  <2>1. PICK r \in Releases, w \in Workers : Send(r, w)
    BY <1>1 DEF Sending
  <2> DEFINE x == IF pass.cancelled THEN NoWorker ELSE [worker[w] EXCEPT !.at = "work", !.rel = r]
  <2>2. /\ pass.at = "send" /\ r \in pass.todo /\ worker[w].at = "idle"
        /\ pass' = [pass EXCEPT !.todo = @ \ {r}] /\ worker' = [worker EXCEPT ![w] = x]
        /\ rel' = rel /\ failures' = failures
    BY <2>1 DEF Send
  <2>3. WorkerShape(x) /\ (x.at = "off" \/ (x.at = "work" /\ x.rel = r))
    <3>1. WorkerShape(worker[w])
      BY DEF ProcessInv, ShapeOK
    <3>2. CASE pass.cancelled
      <4>1. x = NoWorker
        BY <3>2
      <4>2. WorkerShape(x)
        BY <4>1, NoWorkerShape, Zenon
      <4>3. x.at = "off"
        BY <4>1, NoWorkerShape, Zenon
      <4>4. QED BY <4>2, <4>3
    <3>3. CASE ~pass.cancelled
      <4>1. x = [at |-> "work", rel |-> r, out |-> worker[w].out, read |-> worker[w].read]
        BY <3>1, <3>3, WorkerWith DEF WorkerShape
      <4>2. QED BY <4>1 DEF WorkerShape
    <3>4. QED BY <3>2, <3>3
  <2> HIDE DEF x
  <2>4. /\ worker'[w] = x /\ \A v \in Workers \ {w} : worker'[v] = worker[v]
        /\ worker' = [v \in Workers |-> worker'[v]]
    BY <2>2 DEF ProcessInv, ShapeOK
  <2>5. pass' \in Passes /\ pass'.todo = pass.todo \ {r} /\ pass'.at = "send"
    <3>1. pass \in Passes
      BY DEF ProcessInv, ShapeOK
    <3>2. QED BY <2>2, <3>1 DEF Passes
  <2>6. ShapeOK'
    <3>1. \A v \in Workers : WorkerShape(worker[v])'
      <4>1. ASSUME NEW v \in Workers \ {w} PROVE WorkerShape(worker[v])'
        BY <2>4 DEF ProcessInv, ShapeOK, WorkerShape
      <4>2. WorkerShape(worker[w])'
        BY <2>3, <2>4 DEF WorkerShape
      <4>3. QED BY <4>1, <4>2
    <3>2. QED BY <2>2, <2>4, <2>5, <3>1 DEF ProcessInv, ShapeOK, RowShape
  <2>7. \A v \in Workers : Works(v)' => \/ v = w /\ worker'[v].rel = r
                                        \/ v # w /\ Works(v) /\ worker'[v].rel = worker[v].rel
    BY <2>3, <2>4 DEF Works
  <2>8. \A v \in Workers : Works(v) => worker[v].rel \in Releases \ pass.todo
    BY DEF ProcessInv, OneHand
  <2>9. OneHand'
    BY <2>2, <2>5, <2>7, <2>8 DEF ProcessInv, OneHand
  <2>10. \A q \in Releases : InHand(q)' => InHand(q)
    BY <2>2, <2>5, <2>7 DEF InHand
  <2>11. QED BY <2>2, <2>6, <2>9, <2>10, HandsOff
<1>2. CASE CloseJobs \/ Cancel
  <2>1. /\ pass.at # "idle" /\ rel' = rel /\ worker' = worker /\ failures' = failures
        /\ \/ pass' = [pass EXCEPT !.at = "wait", !.todo = {}]
           \/ pass' = [pass EXCEPT !.cancelled = TRUE]
    BY <1>2 DEF CloseJobs, Cancel
  <2>2. pass' \in Passes /\ pass'.todo \subseteq pass.todo /\ pass'.at # "idle"
    <3>1. pass \in Passes /\ TRUE \in BOOLEAN
      BY DEF ProcessInv, ShapeOK
    <3>2. CASE pass' = [pass EXCEPT !.at = "wait", !.todo = {}]
      BY <2>1, <3>1, <3>2 DEF Passes
    <3>3. CASE pass' = [pass EXCEPT !.cancelled = TRUE]
      <4>1. pass'.todo = pass.todo /\ pass'.at = pass.at
        BY <3>1, <3>3 DEF Passes
      <4>2. pass' \in Passes
        BY <3>1, <3>3, Zenon DEF Passes
      <4>3. QED BY <2>1, <4>1, <4>2
    <3>4. QED BY <2>1, <3>2, <3>3
  <2>3. \A v \in Workers : WorkerShape(worker[v])' /\ (Works(v)' <=> Works(v))
    BY <2>1 DEF ProcessInv, ShapeOK, WorkerShape, Works
  <2>4. ShapeOK'
    BY <2>1, <2>2, <2>3 DEF ProcessInv, ShapeOK, RowShape
  <2>5. OneHand'
    BY <2>1, <2>2, <2>3 DEF ProcessInv, OneHand
  <2>6. \A r \in Releases : InHand(r)' => InHand(r)
    BY <2>1, <2>2, <2>3 DEF InHand
  <2>7. QED BY <2>1, <2>4, <2>5, <2>6, HandsOff
<1>3. CASE RunReturns \/ Crash
  <2>1. /\ rel' = rel /\ failures' = failures /\ pass' = NoPass
        /\ \/ worker' = worker /\ \A w \in Workers : worker[w].at = "off"
           \/ worker' = [w \in Workers |-> NoWorker]
    BY <1>3 DEF RunReturns, Crash
  <2>2. \A v \in Workers : WorkerShape(worker[v])' /\ worker'[v].at = "off"
    BY <2>1 DEF ProcessInv, ShapeOK, WorkerShape, NoWorker
  <2>3. pass' \in Passes /\ pass'.todo = {}
    BY <2>1 DEF Passes, NoPass
  <2>4. worker' = [w \in Workers |-> worker'[w]]
    BY <2>1 DEF ProcessInv, ShapeOK
  <2>5. ShapeOK'
    BY <2>1, <2>2, <2>3, <2>4 DEF ProcessInv, ShapeOK, RowShape
  <2>6. OneHand'
    BY <2>2, <2>3 DEF OneHand, Works
  <2>7. \A r \in Releases : InHand(r)' => InHand(r)
    BY <2>2, <2>3 DEF InHand, Works
  <2>8. QED BY <2>1, <2>5, <2>6, <2>7, HandsOff
<1>4. QED BY <1>1, <1>2, <1>3

\* A worker goes on with its release, or ends without having written anything.
LEMMA WorkerGoesOn ==
  ASSUME ProcessInv, NEW w \in Workers,
         \/ WorkerEnds(w) \/ Process(w) \/ ProcessCancelled(w) \/ RecordRead(w) \/ StatementFails(w)
  PROVE  ProcessInv'
<1> DEFINE Old == worker[w]
<1>1. WorkerShape(Old) /\ pass \in Passes
  BY DEF ProcessInv, ShapeOK
<1>2. rel' = rel /\ failures' = failures
  BY DEF WorkerEnds, Process, ProcessCancelled, RecordRead, StatementFails, Fatal
<1>3. pass' \in Passes /\ pass'.todo = pass.todo /\ pass'.at = pass.at
  <2>1. pass' = pass \/ pass' = [pass EXCEPT !.stop = TRUE]
    BY DEF WorkerEnds, Process, ProcessCancelled, RecordRead, StatementFails, Fatal
  <2>2. CASE pass' = [pass EXCEPT !.stop = TRUE]
    <3>1. pass'.todo = pass.todo /\ pass'.at = pass.at
      BY <1>1, <2>2 DEF Passes
    <3>2. TRUE \in BOOLEAN
      OBVIOUS
    <3>3. pass' \in Passes
      BY <1>1, <2>2, <3>2, Zenon DEF Passes
    <3>4. QED BY <3>1, <3>3
  <2>3. QED BY <1>1, <2>1, <2>2
<1>4. Works(w) \/ Old.at = "idle"
  BY DEF WorkerEnds, Process, ProcessCancelled, RecordRead, StatementFails, Works
<1>5. \E x : /\ worker' = [worker EXCEPT ![w] = x] /\ WorkerShape(x)
             /\ x.at \in {"work", "read", "write", "apply"} => Works(w) /\ x.rel = worker[w].rel
  <2>1. CASE WorkerEnds(w) \/ StatementFails(w)
    <3>1. worker' = [worker EXCEPT ![w] = NoWorker]
      BY <2>1 DEF WorkerEnds, StatementFails, Fatal
    <3>2. QED BY <3>1, NoWorkerShape
  <2>2. CASE Process(w)
    <3>1. PICK out : worker' = [worker EXCEPT ![w].out = out,
                                              ![w].at = IF out.failed THEN "read" ELSE "apply"]
      BY <2>2 DEF Process
    <3> DEFINE x == [at |-> IF out.failed THEN "read" ELSE "apply", rel |-> Old.rel,
                     out |-> out, read |-> Old.read]
    <3>2. worker' = [worker EXCEPT ![w] = x]
      <4>1. worker' = [worker EXCEPT ![w] = [[Old EXCEPT !.out = out] EXCEPT
                                                       !.at = IF out.failed THEN "read" ELSE "apply"]]
        BY <3>1 DEF ProcessInv, ShapeOK
      <4>2. [[Old EXCEPT !.out = out] EXCEPT !.at = IF out.failed THEN "read" ELSE "apply"] = x
        <5>1. Old = [at |-> Old.at, rel |-> Old.rel, out |-> Old.out, read |-> Old.read]
          BY <1>1 DEF WorkerShape
        <5>2. \A a, b : [[Old EXCEPT !.out = b] EXCEPT !.at = a]
                         = [at |-> a, rel |-> Old.rel, out |-> b, read |-> Old.read]
          BY <5>1, WorkerWith, Zenon
        <5>3. QED BY <5>2, Zenon
      <4>3. QED BY <4>1, <4>2
    <3>3. WorkerShape(x) /\ x.rel = Old.rel
      BY DEF WorkerShape
    <3>4. Works(w)
      BY <2>2 DEF Process, Works
    <3>5. QED BY <3>2, <3>3, <3>4
  <2>3. CASE ProcessCancelled(w)
    <3>1. PICK out : worker' = [worker EXCEPT ![w].at = "read", ![w].out = out]
      BY <2>3 DEF ProcessCancelled
    <3> DEFINE x == [at |-> "read", rel |-> Old.rel, out |-> out, read |-> Old.read]
    <3>2. worker' = [worker EXCEPT ![w] = x]
      <4>1. worker' = [worker EXCEPT ![w] = [[Old EXCEPT !.at = "read"] EXCEPT !.out = out]]
        BY <3>1 DEF ProcessInv, ShapeOK
      <4>2. [[Old EXCEPT !.at = "read"] EXCEPT !.out = out] = x
        <5>1. Old = [at |-> Old.at, rel |-> Old.rel, out |-> Old.out, read |-> Old.read]
          BY <1>1 DEF WorkerShape
        <5>2. QED BY <5>1, WorkerWith, Zenon
      <4>3. QED BY <4>1, <4>2
    <3>3. WorkerShape(x) /\ x.rel = Old.rel
      BY DEF WorkerShape
    <3>4. Works(w)
      BY <2>3 DEF ProcessCancelled, Works
    <3>5. QED BY <3>2, <3>3, <3>4
  <2>4. CASE RecordRead(w)
    <3>1. PICK n : worker' = [worker EXCEPT ![w].at = "write", ![w].read = n]
      BY <2>4 DEF RecordRead
    <3> DEFINE x == [at |-> "write", rel |-> Old.rel, out |-> Old.out, read |-> n]
    <3>2. worker' = [worker EXCEPT ![w] = x]
      <4>1. worker' = [worker EXCEPT ![w] = [[Old EXCEPT !.at = "write"] EXCEPT !.read = n]]
        BY <3>1 DEF ProcessInv, ShapeOK
      <4>2. [[Old EXCEPT !.at = "write"] EXCEPT !.read = n] = x
        <5>1. Old = [at |-> Old.at, rel |-> Old.rel, out |-> Old.out, read |-> Old.read]
          BY <1>1 DEF WorkerShape
        <5>2. \A a, b : [[Old EXCEPT !.at = a] EXCEPT !.read = b]
                         = [at |-> a, rel |-> Old.rel, out |-> Old.out, read |-> b]
          BY <5>1, WorkerReading, Zenon
        <5>3. QED BY <5>2, Zenon
      <4>3. QED BY <4>1, <4>2
    <3>3. WorkerShape(x) /\ x.rel = Old.rel
      BY DEF WorkerShape
    <3>4. Works(w)
      BY <2>4 DEF RecordRead, Works
    <3>5. QED BY <3>2, <3>3, <3>4
  <2>5. QED BY <2>1, <2>2, <2>3, <2>4
<1>6. PICK x : /\ worker' = [worker EXCEPT ![w] = x] /\ WorkerShape(x)
               /\ x.at \in {"work", "read", "write", "apply"} => Works(w) /\ x.rel = worker[w].rel
  BY <1>5
<1>7. /\ worker' = [v \in Workers |-> worker'[v]] /\ \A v \in Workers : WorkerShape(worker[v])'
      /\ OneHand' /\ \A r \in Releases : InHand(r)' => InHand(r)
  BY <1>3, <1>4, <1>6, WorkerMoves
<1>8. ShapeOK'
  BY <1>2, <1>3, <1>7 DEF ProcessInv, ShapeOK, RowShape
<1>9. QED BY <1>2, <1>7, <1>8, HandsOff

\* A worker writes what became of its release, which is in no hand then.
LEMMA OutcomeWritten ==
  ASSUME ProcessInv, NEW w \in Workers, RecordWrite(w) \/ ApplyPostProcessing(w)
  PROVE  /\ ProcessInv'
         /\ \A r \in Releases : rel[r].status = "done" => rel'[r].status = "done"
<1> DEFINE x == [NoWorker EXCEPT !.at = "idle"]
           r == worker[w].rel
<1>1. x = [at |-> "idle", rel |-> 0, out |-> NoOutcome, read |-> 0]
  BY DEF NoWorker
<1>2. WorkerShape(x) /\ x.at = "idle"
  BY <1>1 DEF WorkerShape
<1>3. worker' = [worker EXCEPT ![w] = x] /\ pass' = pass /\ Works(w)
  BY DEF RecordWrite, ApplyPostProcessing, Idle, Works
<1> HIDE DEF x
<1>4. pass' \in Passes /\ pass'.todo = pass.todo /\ pass'.at = pass.at
  BY <1>3 DEF ProcessInv, ShapeOK
<1>5. /\ worker' = [v \in Workers |-> worker'[v]] /\ \A v \in Workers : WorkerShape(worker[v])'
      /\ OneHand' /\ \A q \in Releases : InHand(q)' => InHand(q)
      /\ \A v \in Workers : Works(v)' => Works(v) /\ worker'[v].rel = worker[v].rel
      /\ worker'[w] = x
  <2>1. x.at \in {"work", "read", "write", "apply"} => Works(w) /\ x.rel = worker[w].rel
    BY <1>2
  <2>2. Works(w) \/ worker[w].at = "idle"
    BY <1>3
  <2>3. QED BY <1>2, <1>3, <1>4, <2>1, <2>2, WorkerMoves
<1>6. PICK s \in Releases : s = r
  BY <1>3 DEF ProcessInv, OneHand
<1>7. ~InHand(s)'
  <2>1. s \notin pass'.todo
    BY <1>3, <1>6 DEF ProcessInv, OneHand
  <2>2. ASSUME NEW v \in Workers, Works(v)', worker'[v].rel = s PROVE FALSE
    <3>1. v # w
      BY <1>2, <1>5, <2>2 DEF Works
    <3>2. Works(v) /\ worker[v].rel = worker[w].rel
      BY <1>5, <1>6, <2>2
    <3>3. QED BY <1>3, <3>1, <3>2 DEF ProcessInv, OneHand
  <2>3. QED BY <2>1, <2>2 DEF InHand
<1>8. InHand(s) /\ Fits(s) /\ RowShape(rel[s]) /\ failures[s] \in Nat /\ MaxPPAttempts \in Nat
  BY <1>3, <1>6, AllFit, PostProcessAssumption DEF ProcessInv, ShapeOK, InHand
<1>9. /\ \A q \in Releases \ {s} : rel'[q] = rel[q] /\ failures'[q] = failures[q]
      /\ rel' = [q \in Releases |-> rel'[q]] /\ failures' \in [Releases -> Nat]
      /\ RowShape(rel[s])' /\ Fits(s)'
  <2>1. CASE RecordWrite(w)
    <3>1. PICK p, n : rel' = [rel EXCEPT ![s] =
                        IF @.status = "gone" THEN @
                        ELSE IF p
                        THEN [@ EXCEPT !.status = "failed", !.permanent = TRUE, !.wait = 0]
                        ELSE [@ EXCEPT !.status = "failed", !.wait = n]]
      BY <1>6, <2>1 DEF RecordWrite
    <3>2. failures' = [failures EXCEPT ![s] = @ + 1]
      BY <1>6, <2>1 DEF RecordWrite
    <3>3. /\ rel' = [q \in Releases |-> rel'[q]] /\ \A q \in Releases \ {s} : rel'[q] = rel[q]
          /\ rel[s].status = "gone" => rel'[s] = rel[s]
          /\ rel[s].status # "gone" =>
               \/ rel'[s] = [rel[s] EXCEPT !.status = "failed", !.permanent = TRUE, !.wait = 0]
               \/ rel'[s] = [rel[s] EXCEPT !.status = "failed", !.wait = n]
      BY <3>1 DEF ProcessInv, ShapeOK
    <3>4. /\ failures' \in [Releases -> Nat] /\ failures'[s] = failures[s] + 1
          /\ \A q \in Releases \ {s} : failures'[q] = failures[q]
      BY <3>2 DEF ProcessInv, ShapeOK
    <3>5. CASE rel[s].status = "gone"
      <4>1. RowShape(rel[s])'
        BY <1>8, <3>3, <3>5 DEF RowShape
      <4>2. Fits(s)'
        BY <1>7, <1>8, <3>3, <3>4, <3>5 DEF Fits
      <4>3. QED BY <3>3, <3>4, <4>1, <4>2
    <3>6. CASE rel[s].status # "gone"
      <4>1. /\ RowShape(rel[s])' /\ rel'[s].status = "failed"
            /\ rel'[s].attempts = rel[s].attempts
        <5>1. CASE rel'[s] = [rel[s] EXCEPT !.status = "failed", !.permanent = TRUE, !.wait = 0]
          <6>1. rel'[s] = [status |-> "failed", attempts |-> rel[s].attempts, permanent |-> TRUE,
                           wait |-> 0]
            BY <1>8, <5>1 DEF RowShape
          <6>2. QED BY <1>8, <6>1 DEF RowShape
        <5>2. CASE rel'[s] = [rel[s] EXCEPT !.status = "failed", !.wait = n]
          <6>1. rel'[s] = [status |-> "failed", attempts |-> rel[s].attempts,
                           permanent |-> rel[s].permanent, wait |-> n]
            BY <1>8, <5>2 DEF RowShape
          <6>2. QED BY <1>8, <6>1 DEF RowShape
        <5>3. QED BY <3>3, <3>6, <5>1, <5>2
      <4>2. failures[s] <= rel[s].attempts /\ failures[s] <= MaxPPAttempts
        BY <1>8, <3>6 DEF Fits, RowShape
      <4>3. rel[s].attempts \in Nat
        BY <1>8 DEF RowShape
      <4>4. /\ rel'[s].status = "failed" /\ failures'[s] <= rel'[s].attempts + 1
            /\ failures'[s] <= MaxPPAttempts + 1
        BY <1>8, <3>4, <4>1, <4>2, <4>3
      <4>5. Fits(s)'
        BY <1>7, <4>4 DEF Fits
      <4>6. QED BY <3>3, <3>4, <4>1, <4>5
    <3>7. QED BY <3>5, <3>6
  <2>2. CASE ApplyPostProcessing(w)
    <3>1. rel' = [rel EXCEPT ![s].status = IF @ = "gone" THEN @ ELSE "done"] /\ failures' = failures
      BY <1>6, <2>2 DEF ApplyPostProcessing
    <3>2. /\ rel' = [q \in Releases |-> rel'[q]] /\ \A q \in Releases \ {s} : rel'[q] = rel[q]
          /\ rel'[s] = [rel[s] EXCEPT !.status = IF rel[s].status = "gone" THEN "gone" ELSE "done"]
      BY <3>1 DEF ProcessInv, ShapeOK
    <3>3. rel'[s] = [status |-> IF rel[s].status = "gone" THEN "gone" ELSE "done",
                     attempts |-> rel[s].attempts, permanent |-> rel[s].permanent,
                     wait |-> rel[s].wait]
      BY <1>8, <3>2 DEF RowShape
    <3>4. RowShape(rel[s])' /\ rel'[s].status \in {"gone", "done"}
      BY <1>8, <3>3 DEF RowShape
    <3>5. Fits(s)'
      BY <1>7, <1>8, <3>1, <3>4 DEF Fits
    <3>6. QED BY <3>1, <3>2, <3>4, <3>5 DEF ProcessInv, ShapeOK
  <2>3. QED BY <2>1, <2>2
<1>10. ASSUME NEW q \in Releases PROVE RowShape(rel[q])' /\ Fits(q)'
  <2>1. CASE q = s
    BY <1>9, <2>1
  <2>2. CASE q # s
    <3>1. rel'[q] = rel[q] /\ failures'[q] = failures[q]
      BY <1>9, <2>2
    <3>2. Fits(q)'
      BY <1>5, <3>1, StillFits
    <3>3. QED BY <3>1, <3>2 DEF RowShape, ProcessInv, ShapeOK
  <2>3. QED BY <2>1, <2>2
<1>11. ProcessInv'
  <2>1. ShapeOK'
    BY <1>4, <1>5, <1>9, <1>10 DEF ShapeOK
  <2>2. HandMayFail' /\ FailuresClaimed'
    BY <1>10 DEF Fits, HandMayFail, FailuresClaimed
  <2>3. QED BY <1>5, <2>1, <2>2 DEF ProcessInv
<1>12. QED BY <1>8, <1>9, <1>11 DEF Fits

\* The rows change from outside: time passes, what failed is requeued, a release
\* is deleted.
LEMMA OthersMove ==
  ASSUME ProcessInv, Tick \/ RequeueFailedReleases \/ \E r \in Releases : Delete(r)
  PROVE  /\ ProcessInv'
         /\ \A r \in Releases : rel[r].status = "done" => rel'[r].status = "done"
<1>1. pass' = pass /\ worker' = worker
  BY DEF Tick, RequeueFailedReleases, Delete
<1>2. \A r \in Releases : InHand(r)' => InHand(r)
  BY <1>1 DEF InHand, Works
<1>3. NewRow.status = "pending" /\ NewRow.attempts = 0 /\ RowShape(NewRow)
  BY DEF NewRow, RowShape
<1>4. /\ rel' = [r \in Releases |-> rel'[r]] /\ failures' \in [Releases -> Nat]
      /\ \A r \in Releases : /\ RowShape(rel[r])' /\ Fits(r)'
                             /\ rel[r].status = "done" => rel'[r].status = "done"
  <2>1. \A r \in Releases : RowShape(rel[r]) /\ Fits(r) /\ failures[r] \in Nat
    BY AllFit DEF ProcessInv, ShapeOK
  <2>2. CASE Tick
    <3>1. /\ rel' = [r \in Releases |-> [rel[r] EXCEPT !.wait = Max({0, @ - 1})]]
          /\ failures' = failures
      BY <2>2 DEF Tick
    <3>2. ASSUME NEW r \in Releases
          PROVE  RowShape(rel[r])' /\ rel'[r].status = rel[r].status
                   /\ rel'[r].attempts = rel[r].attempts
      <4>1. PICK n : rel'[r] = [rel[r] EXCEPT !.wait = n]
        BY <3>1
      <4>2. RowShape(rel[r])
        BY <2>1
      <4>3. rel'[r] = [status |-> rel[r].status, attempts |-> rel[r].attempts,
                       permanent |-> rel[r].permanent, wait |-> n]
        BY <4>1, <4>2 DEF RowShape
      <4>4. QED BY <4>2, <4>3 DEF RowShape
    <3>3. \A r \in Releases : Fits(r)'
      BY <1>2, <3>1, <3>2, StillFits
    <3>4. QED BY <3>1, <3>2, <3>3 DEF ProcessInv, ShapeOK
  <2>3. CASE RequeueFailedReleases
    <3>1. /\ rel' = [r \in Releases |-> IF rel[r].status = "failed" THEN NewRow ELSE rel[r]]
          /\ failures' = [r \in Releases |-> IF rel[r].status = "failed" THEN 0 ELSE failures[r]]
      BY <2>3 DEF RequeueFailedReleases
    <3>2. ASSUME NEW r \in Releases
          PROVE  /\ RowShape(rel[r])' /\ Fits(r)'
                 /\ rel[r].status = "done" => rel'[r].status = "done"
      <4>1. CASE rel[r].status = "failed"
        <5>1. rel'[r] = NewRow /\ failures'[r] = 0
          BY <3>1, <4>1
        <5>2. MaxPPAttempts \in Nat
          BY PostProcessAssumption
        <5>3. QED BY <1>3, <4>1, <5>1, <5>2 DEF Fits, RowShape
      <4>2. CASE rel[r].status # "failed"
        <5>1. rel'[r] = rel[r] /\ failures'[r] = failures[r]
          BY <3>1, <4>2
        <5>2. QED BY <1>2, <2>1, <5>1, StillFits DEF RowShape
      <4>3. QED BY <4>1, <4>2
    <3>3. failures' \in [Releases -> Nat]
      BY <2>1, <3>1
    <3>4. QED BY <3>1, <3>2, <3>3
  <2>4. ASSUME NEW d \in Releases, Delete(d)
        PROVE  /\ rel' = [r \in Releases |-> rel'[r]] /\ failures' \in [Releases -> Nat]
               /\ \A r \in Releases : /\ RowShape(rel[r])' /\ Fits(r)'
                                      /\ rel[r].status = "done" => rel'[r].status = "done"
    <3>1. /\ rel' = [rel EXCEPT ![d] = [NewRow EXCEPT !.status = "gone"]] /\ failures' = failures
          /\ rel[d].status \in {"pending", "failed"}
      BY <2>4 DEF Delete
    <3>2. /\ rel' = [r \in Releases |-> rel'[r]] /\ \A r \in Releases \ {d} : rel'[r] = rel[r]
          /\ rel'[d] = [NewRow EXCEPT !.status = "gone"]
      BY <3>1 DEF ProcessInv, ShapeOK
    <3>3. RowShape(rel[d])' /\ rel'[d].status = "gone"
      <4>1. rel'[d] = [status |-> "gone", attempts |-> 0, permanent |-> FALSE, wait |-> 0]
        BY <3>2 DEF NewRow
      <4>2. QED BY <4>1 DEF RowShape
    <3>4. Fits(d)'
      BY <1>2, <2>1, <3>1, <3>3 DEF Fits
    <3>5. \A r \in Releases \ {d} : RowShape(rel[r])' /\ Fits(r)'
      BY <1>2, <2>1, <3>1, <3>2, StillFits DEF RowShape
    <3>6. QED BY <3>1, <3>2, <3>3, <3>4, <3>5 DEF ProcessInv, ShapeOK
  <2>5. QED BY <2>2, <2>3, <2>4
<1>5. ShapeOK'
  BY <1>1, <1>4 DEF ProcessInv, ShapeOK, WorkerShape
<1>6. OneHand'
  BY <1>1 DEF ProcessInv, OneHand, Works
<1>7. HandMayFail' /\ FailuresClaimed'
  BY <1>4 DEF Fits, HandMayFail, FailuresClaimed
<1>8. QED BY <1>4, <1>5, <1>6, <1>7 DEF ProcessInv

LEMMA ProcessInvInit == Init => ProcessInv
<1> SUFFICES ASSUME Init PROVE ProcessInv
  OBVIOUS
<1>1. /\ rel = [r \in Releases |-> NewRow] /\ pass = NoPass
      /\ worker = [w \in Workers |-> NoWorker] /\ failures = [r \in Releases |-> 0]
  BY DEF Init
<1>2. \A r \in Releases : RowShape(rel[r]) /\ rel[r].status = "pending" /\ failures[r] = 0
                            /\ rel[r].attempts = 0
  BY <1>1 DEF NewRow, RowShape
<1>3. \A w \in Workers : WorkerShape(worker[w]) /\ worker[w].at = "off"
  BY <1>1, NoWorkerShape
<1>4. pass \in Passes /\ pass.todo = {}
  BY <1>1 DEF NoPass, Passes
<1>5. ShapeOK
  BY <1>1, <1>2, <1>3, <1>4 DEF ShapeOK
<1>6. OneHand
  BY <1>3, <1>4 DEF OneHand, Works
<1>7. MaxPPAttempts \in Nat
  BY PostProcessAssumption
<1>8. HandMayFail /\ FailuresClaimed
  BY <1>2, <1>7 DEF HandMayFail, FailuresClaimed
<1>9. QED BY <1>5, <1>6, <1>8 DEF ProcessInv

LEMMA ProcessInvStep ==
  ASSUME ProcessInv, [Next]_vars
  PROVE  /\ ProcessInv'
         /\ \A r \in Releases : rel[r].status = "done" => rel'[r].status = "done"
<1>1. CASE Begin \/ BeginFails
  <2>1. /\ pass.at = "idle" /\ failures' = failures /\ rel' = Claim(ListPendingReleases)
    BY <1>1 DEF Begin, BeginFails
  <2>2. \A r \in Releases : rel'[r].status = rel[r].status
    BY <2>1, ClaimFacts
  <2>3. QED BY <1>1, <2>2, ClaimStep
<1>2. CASE Sending \/ CloseJobs \/ RunReturns \/ Cancel \/ Crash
  <2>1. rel' = rel
    BY <1>2 DEF Sending, Send, CloseJobs, RunReturns, Cancel, Crash
  <2>2. QED BY <1>2, <2>1, PassMoves
<1>3. ASSUME NEW w \in Workers, WorkerStep(w)
      PROVE  /\ ProcessInv'
             /\ \A r \in Releases : rel[r].status = "done" => rel'[r].status = "done"
  <2>1. CASE RecordWrite(w) \/ ApplyPostProcessing(w)
    BY <2>1, OutcomeWritten
  <2>2. CASE WorkerEnds(w) \/ Process(w) \/ ProcessCancelled(w) \/ RecordRead(w) \/ StatementFails(w)
    <3>1. rel' = rel
      BY <2>2 DEF WorkerEnds, Process, ProcessCancelled, RecordRead, StatementFails, Fatal
    <3>2. QED BY <2>2, <3>1, WorkerGoesOn
  <2>3. QED BY <1>3, <2>1, <2>2 DEF WorkerStep
<1>4. CASE Tick \/ RequeueFailedReleases \/ \E r \in Releases : Delete(r)
  BY <1>4, OthersMove
<1>5. CASE UNCHANGED vars
  <2>1. rel' = rel /\ pass' = pass /\ worker' = worker /\ failures' = failures
    BY <1>5 DEF vars
  <2>2. ProcessInv'
    BY <2>1 DEF ProcessInv, ShapeOK, RowShape, WorkerShape, OneHand, Works, HandMayFail,
                FailuresClaimed, InHand
  <2>3. QED BY <2>1, <2>2
<1>6. QED BY <1>1, <1>2, <1>3, <1>4, <1>5 DEF Next, Step, PassStep

\* What is done stays done, and between two requeues a release fails at most as
\* often as it may be attempted, and once more if a pass had it in hand when it
\* was requeued: ListPendingReleases counts the attempt before anything is
\* fetched and takes no failed release that has none left, RequeueFailedReleases
\* starts both counts again, and a worker may still be about to write its failure
\* (RecordPPFailure) then.
THEOREM DoneStays == Spec => DoneSticks
<1>1. ProcessInv /\ [Next]_vars =>
        [\A r \in Releases : /\ rel[r].status = "done" => rel'[r].status = "done"
                             /\ failures'[r] <= MaxPPAttempts + 1]_vars
  <2>1. SUFFICES ASSUME ProcessInv, [Next]_vars, NEW r \in Releases
                 PROVE  /\ rel[r].status = "done" => rel'[r].status = "done"
                        /\ failures'[r] <= MaxPPAttempts + 1
    OBVIOUS
  <2>2. ProcessInv' /\ (rel[r].status = "done" => rel'[r].status = "done")
    BY <2>1, ProcessInvStep
  <2>3. QED BY <2>2 DEF ProcessInv, FailuresClaimed
<1>2. ProcessInv /\ [Next]_vars => ProcessInv'
  BY ProcessInvStep
<1>3. QED BY <1>1, <1>2, ProcessInvInit, PTL DEF Spec, DoneSticks
=============================================================================
