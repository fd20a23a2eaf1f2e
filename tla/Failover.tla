------------------------------- MODULE Failover -------------------------------
(***************************************************************************)
(* The failover pool of internal/nntp/failover.go and the circuit breaker  *)
(* of circuit.go.  Requests copy the endpoint list and walk it: each       *)
(* endpoint's breaker admits or refuses the request, the endpoint's pool   *)
(* performs it, and the breaker records the outcome, possibly long after   *)
(* other requests have moved it to another state.  Administrators replace  *)
(* the endpoint list meanwhile; an endpoint is an object with one pool and *)
(* one breaker, and requests that copied the old list still use it.        *)
(* Breaker sections under c.mu are one action each.                        *)
(***************************************************************************)
EXTENDS Integers, Sequences, FiniteSets

CONSTANTS NumServers,   \* configured servers
          MaxEps,       \* bound: endpoint objects ever built
          Reqs,         \* concurrent calls of run
          Outcomes,     \* what fn may return, besides a closed pool's refusal
                        \* and the caller's own cancellation
          Threshold,    \* threshold
          Cooldown,     \* cooldown, in ticks of the clock
          MaxCooldown,  \* maxCooldown
          MaxShift,     \* the largest shift of backoffCooldown
          MaxFlips,     \* bound: servers going down or coming back
          MaxEdits      \* bound: calls of SetEndpoints

ASSUME FailoverAssumption ==
  /\ NumServers \in Nat \ {0}
  /\ MaxEps \in Nat /\ NumServers <= MaxEps
  /\ Outcomes \subseteq {"ok", "status", "gone", "noyenc", "denied", "login", "lost"}
  /\ Threshold \in Nat \ {0}
  /\ Cooldown \in Nat \ {0}
  /\ MaxCooldown \in Nat /\ Cooldown <= MaxCooldown
  /\ MaxShift \in Nat
  /\ MaxFlips \in Nat
  /\ MaxEdits \in Nat

VARIABLES endpoints,  \* fp.endpoints, by priority
          server,     \* the server each endpoint object was built for
          shut,       \* endpoints whose pool is closed
          balance,    \* opts.LoadBalance
          breaker,    \* each endpoint's circuitBreaker
          req,        \* each caller's position in run
          up,         \* servers that are working
          flips, edits   \* uses of the bounds

vars == <<endpoints, server, shut, balance, breaker, req, up, flips, edits>>
config == <<endpoints, server, shut, balance, edits>>
world == <<up, flips>>

Eps == 1..MaxEps
Servers == 1..NumServers    \* EndpointConfig.ID
Range(s) == {s[i] : i \in DOMAIN s}
Lesser(m, n) == IF m < n THEN m ELSE n

\* newCircuitBreaker.  The time since openedAt is kept as the ticks that are
\* left of the cooldown.
FreshBreaker == [state |-> "closed", fails |-> 0, probing |-> FALSE, opens |-> 0,
                 cooldown |-> Cooldown, left |-> 0]
Idle == [at |-> "out", eps |-> <<>>, start |-> 0, i |-> 0, probe |-> FALSE, shut |-> FALSE]

\* Each configured server has got its endpoint.
Init == /\ endpoints = [i \in Servers |-> i]
        /\ server = [e \in Eps |-> Lesser(e, NumServers)]
        /\ shut = {}
        /\ balance \in BOOLEAN
        /\ breaker = [e \in Eps |-> FreshBreaker]
        /\ req = [r \in Reqs |-> Idle]
        /\ up = Servers
        /\ flips = 0
        /\ edits = 0
-----------------------------------------------------------------------------
(* circuit.go *)

\* classifyError: a rejected login is not a status response but a plain error,
\* and so are a caller's cancellation, a closed pool and an article without a
\* yEnc header; isConnFatal takes every such error for a connection failure.
Kind(outcome) == CASE outcome = "ok" -> "none"
                   [] outcome = "status" -> "protocol"
                   [] outcome = "gone" -> "retention"
                   [] outcome = "denied" -> "auth"
                   [] OTHER -> "connection"

\* allow: the states in which it returns true, and whether as a probe.
Allows(b) == \/ b.state = "closed"
             \/ b.state = "half-open" /\ ~b.probing
             \/ b.state = "open" /\ b.left = 0

Admit(b) == IF b.state = "closed" THEN b
                                  ELSE [b EXCEPT !.state = "half-open", !.probing = TRUE]

\* Mutant: clears the counters and forgets the state.
RecordSuccessCountOnly(b) == [b EXCEPT !.fails = 0, !.probing = FALSE,
                                       !.cooldown = Cooldown, !.left = 0]

RecordSuccess(b) == [b EXCEPT !.state = "closed", !.fails = 0, !.probing = FALSE,
                              !.cooldown = Cooldown, !.left = 0]

\* Opening a circuit that is not open counts the opening and sets the cooldown.
\* opens only matters up to MaxShift + 1, fails only up to the threshold.
BackoffCooldown(opens) == Lesser(Cooldown * 2^Lesser(opens - 1, MaxShift), MaxCooldown)

Open(b) == IF b.state = "open"
           THEN [b EXCEPT !.left = b.cooldown]
           ELSE LET opens == b.opens + 1
                IN [b EXCEPT !.state = "open", !.opens = Lesser(opens, MaxShift + 1),
                             !.cooldown = BackoffCooldown(opens),
                             !.left = BackoffCooldown(opens)]

\* Mutant: a failed probe is counted and does not re-open the circuit.
RecordFailureCountOnly(b, kind) ==
  LET c == [b EXCEPT !.probing = FALSE, !.fails = Lesser(b.fails + 1, Threshold)]
  IN IF b.state # "half-open" /\ (kind = "auth" \/ c.fails = Threshold) THEN Open(c) ELSE c

RecordFailure(b, kind) ==
  LET c == [b EXCEPT !.probing = FALSE, !.fails = Lesser(b.fails + 1, Threshold)]
  IN IF kind = "auth" \/ c.fails = Threshold \/ b.state = "half-open" THEN Open(c) ELSE c
-----------------------------------------------------------------------------
(* run *)

\* rrIndex is incremented under a read lock, so racing callers may start
\* anywhere.
Start(r) ==
  /\ req[r].at = "out"
  /\ endpoints # <<>>
  /\ \E start \in IF balance THEN 0..Len(endpoints) - 1 ELSE {0} :
       req' = [req EXCEPT ![r] = [Idle EXCEPT !.at = "next", !.eps = endpoints,
                                              !.start = start]]
  /\ UNCHANGED <<config, breaker, world>>

At(r) == LET q == req[r] IN q.eps[((q.start + q.i) % Len(q.eps)) + 1]

Exhausted(r) == req[r].i = Len(req[r].eps)

Advance(q) == [q EXCEPT !.at = "next", !.i = q.i + 1, !.probe = FALSE, !.shut = FALSE]

Admitted(r) ==
  /\ req[r].at = "next" /\ ~Exhausted(r)
  /\ LET e == At(r)
     IN /\ Allows(breaker[e])
        /\ breaker' = [breaker EXCEPT ![e] = Admit(@)]
        /\ req' = [req EXCEPT ![r].at = "in", ![r].probe = (breaker[e].state # "closed"),
                              ![r].shut = (e \in shut)]
  /\ UNCHANGED <<config, world>>

Skipped(r) ==
  /\ req[r].at = "next" /\ ~Exhausted(r)
  /\ ~Allows(breaker[At(r)])
  /\ req' = [req EXCEPT ![r] = Advance(@)]
  /\ UNCHANGED <<config, breaker, world>>

\* What a server answers: one that is up also delivers articles that have no
\* yEnc header.
Answers(e) == IF server[e] \in up THEN {"ok", "status", "gone", "noyenc"}
                                  ELSE {"denied", "login", "lost"}

\* What fn may return: a pool that was closed at the call refuses, a pool
\* closed during it may; and any caller's context may end.
Possible(r) ==
  LET e == At(r)
  IN IF req[r].shut THEN {"closed"}
     ELSE (Outcomes \cap Answers(e)) \cup {"cancelled"} \cup (IF e \in shut THEN {"closed"} ELSE {})

\* Success or an answer ends run; a failure goes on to the next endpoint.  A
\* caller whose context is done finds out there, before asking a breaker.
Answered(r, outcome) ==
  /\ req[r].at = "in"
  /\ outcome \in Possible(r)
  /\ LET e == At(r)
         kind == Kind(outcome)
         fails == kind \in {"connection", "auth"}
     IN /\ breaker' = [breaker EXCEPT ![e] = IF fails THEN RecordFailure(@, kind)
                                                      ELSE RecordSuccess(@)]
        /\ req' = [req EXCEPT ![r] = IF fails /\ outcome # "cancelled" THEN Advance(@)
                                                                       ELSE Idle]
  /\ UNCHANGED <<config, world>>

\* No endpoint is left, or the context is done: run returns an error.
GivesUp(r) ==
  /\ req[r].at = "next"
  /\ req' = [req EXCEPT ![r] = Idle]
  /\ UNCHANGED <<config, breaker, world>>
-----------------------------------------------------------------------------
(* Administrators, the clock and the servers *)

Built == Range(endpoints) \cup shut

\* SetEndpoints: servers that stay keep their endpoint, new ones get a new
\* one, and the pools of those that are gone are closed.
SetEndpoints(list) ==
  /\ edits < MaxEdits
  /\ \E next \in [DOMAIN list -> Eps], built \in [Eps -> Servers] :
       /\ \A i \in DOMAIN list :
            IF \E e \in Range(endpoints) : server[e] = list[i]
            THEN next[i] \in Range(endpoints)
            ELSE next[i] \notin Built
       /\ \A i \in DOMAIN list : built[next[i]] = list[i]
       /\ \A e \in Eps : e \in Built \/ e \notin Range(next) => built[e] = server[e]
       /\ endpoints' = next
       /\ server' = built
       /\ shut' = shut \cup (Range(endpoints) \ Range(next))
  /\ edits' = edits + 1
  /\ UNCHANGED <<balance, breaker, req, world>>

\* Close: at shutdown.
CloseAll == /\ edits < MaxEdits
            /\ shut' = shut \cup Range(endpoints)
            /\ endpoints' = <<>>
            /\ edits' = MaxEdits
            /\ UNCHANGED <<server, balance, breaker, req, world>>

Tick == /\ \E e \in Eps : breaker[e].left > 0
        /\ breaker' = [e \in Eps |-> [breaker[e] EXCEPT !.left = IF @ > 0 THEN @ - 1 ELSE 0]]
        /\ UNCHANGED <<config, req, world>>

Flip(s) == /\ flips < MaxFlips
           /\ up' = IF s \in up THEN up \ {s} ELSE up \cup {s}
           /\ flips' = flips + 1
           /\ UNCHANGED <<config, breaker, req>>
-----------------------------------------------------------------------------
Lists == UNION {{l \in [1..n -> Servers] : \A i, j \in 1..n : l[i] = l[j] => i = j} :
                  n \in Servers}

Step(r) == \/ Start(r) \/ Admitted(r) \/ Skipped(r) \/ GivesUp(r)
           \/ \E outcome \in Outcomes \cup {"closed", "cancelled"} : Answered(r, outcome)

Next == \/ \E r \in Reqs : Step(r)
        \/ \E list \in Lists : SetEndpoints(list)
        \/ CloseAll
        \/ Tick
        \/ \E s \in Servers : Flip(s)

Spec == Init /\ [][Next]_vars

\* Callers keep calling and fn returns; the clock runs.
FairSpec == /\ Spec
            /\ \A r \in Reqs : WF_vars(Step(r))
            /\ WF_vars(Tick)
-----------------------------------------------------------------------------
Breakers == [state : {"closed", "open", "half-open"}, fails : 0..Threshold,
             probing : BOOLEAN, opens : 0..MaxShift + 1, cooldown : Cooldown..MaxCooldown,
             left : 0..MaxCooldown]

TypeOK == /\ Range(endpoints) \subseteq Eps
          /\ server \in [Eps -> Servers]
          /\ shut \subseteq Eps
          /\ balance \in BOOLEAN
          /\ breaker \in [Eps -> Breakers]
          /\ \A r \in Reqs : /\ req[r].at \in {"out", "next", "in"}
                             /\ req[r].i \in 0..Len(req[r].eps)
                             /\ Range(req[r].eps) \subseteq Eps
          /\ up \subseteq Servers

Probes(e) == {r \in Reqs : req[r].at = "in" /\ req[r].probe /\ At(r) = e}

\* A half-open circuit always has the probe that will decide it in flight: if
\* it lost the probe, allow would refuse every request for ever.
HalfOpenIsDecided ==
  \A e \in Eps : breaker[e].state = "half-open" => breaker[e].probing /\ Probes(e) # {}

\* A caller leaves before its turn, or an outcome counts against a server that
\* is not to blame: isConnFatal takes every error that it does not know for a
\* connection failure, a caller's cancellation and an article without a yEnc
\* header among them.
Stray(r) == \/ GivesUp(r) /\ ~Exhausted(r)
            \/ \E outcome \in {"cancelled", "noyenc"} : Answered(r, outcome)

\* Unless load is balanced, requests try the preferred server first: once it
\* works for good, and callers no longer leave or ask for articles without a
\* yEnc header, its circuit closes for good, whatever late outcomes of its bad
\* time are still recorded.  (As long as they do, a circuit is opened again and
\* again over a server that works.)
Preferred(P(_)) == endpoints # <<>> /\ P(endpoints[1])
PreferredUp == LET Up(e) == server[e] \in up IN Preferred(Up)
PreferredClosed == LET Closed(e) == breaker[e].state = "closed" IN Preferred(Closed)
PreferredRecovers ==
  <>[](~balance /\ PreferredUp) /\ <>[][~\E r \in Reqs : Stray(r)]_vars => <>[]PreferredClosed

\* "only one probe runs at a time" (allow).  Not kept when an older request fails
\* while a probe is out.
OneProbe == \A e \in Eps : Cardinality(Probes(e)) <= 1
===============================================================================
