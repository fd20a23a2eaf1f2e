---------------------------- MODULE Failover_proofs ----------------------------
(***************************************************************************)
(* The circuit breaker never loses the probe of a half-open circuit, for   *)
(* any servers, endpoint lists, requests, thresholds and cooldowns, and    *)
(* however late an outcome is recorded.                                    *)
(***************************************************************************)
EXTENDS Failover, TLAPS

\* Breakers and requests keep their fields.  (The range of a cooldown rests
\* on the powers of two, which the provers do not reason about.)
Shape == /\ breaker = [e \in Eps |-> breaker[e]]
         /\ \A e \in Eps : DOMAIN breaker[e] = DOMAIN FreshBreaker
         /\ req = [r \in Reqs |-> req[r]]
         /\ \A r \in Reqs : DOMAIN req[r] = DOMAIN Idle

IInv == Shape /\ HalfOpenIsDecided

\* Recording an outcome, whichever and whenever, leaves no circuit half-open.
LEMMA OutcomeDecides ==
  ASSUME NEW b, DOMAIN b = DOMAIN FreshBreaker, NEW kind
  PROVE  /\ DOMAIN RecordSuccess(b) = DOMAIN FreshBreaker
         /\ RecordSuccess(b).state = "closed"
         /\ DOMAIN RecordFailure(b, kind) = DOMAIN FreshBreaker
         /\ RecordFailure(b, kind).state # "half-open"
<1>1. /\ DOMAIN RecordSuccess(b) = DOMAIN FreshBreaker
      /\ RecordSuccess(b).state = "closed"
  BY DEF RecordSuccess, FreshBreaker
<1> DEFINE c == [b EXCEPT !.probing = FALSE, !.fails = Lesser(b.fails + 1, Threshold)]
<1>2. DOMAIN c = DOMAIN FreshBreaker /\ c.state = b.state
  BY DEF FreshBreaker
<1>3. RecordFailure(b, kind) = IF kind = "auth" \/ c.fails = Threshold \/ b.state = "half-open"
                               THEN Open(c) ELSE c
  BY DEF RecordFailure
<1> HIDE DEF c
<1>4. DOMAIN Open(c) = DOMAIN FreshBreaker /\ Open(c).state = "open"
  BY <1>2 DEF Open, FreshBreaker
<1>5. QED BY <1>1, <1>2, <1>3, <1>4

\* allow's answer is the probe of the circuit, unless the circuit is closed.
LEMMA AdmitProbes ==
  ASSUME NEW b, DOMAIN b = DOMAIN FreshBreaker
  PROVE  /\ DOMAIN Admit(b) = DOMAIN FreshBreaker
         /\ b.state = "closed" => Admit(b) = b
         /\ b.state # "closed" => Admit(b).state = "half-open" /\ Admit(b).probing
  BY DEF Admit, FreshBreaker

\* A request that is not at fn before and after the step, or not touched, is
\* not the probe anybody waits for.
LEMMA ProbesStay ==
  ASSUME NEW r \in Reqs, \A q \in Reqs \ {r} : req'[q] = req[q], NEW e,
         req[r].at = "in" => At(r) # e
  PROVE  Probes(e) \subseteq Probes(e)'
  BY DEF Probes, At

LEMMA AdvanceShape ==
  ASSUME NEW q, DOMAIN q = DOMAIN Idle
  PROVE  DOMAIN Advance(q) = DOMAIN Idle
  BY DEF Advance, Idle

\* A request that is not at fn moves, and no breaker changes.
LEMMA RequestMoves ==
  ASSUME IInv, NEW r \in Reqs, NEW q, DOMAIN q = DOMAIN Idle, req[r].at # "in",
         req' = [req EXCEPT ![r] = q], UNCHANGED breaker
  PROVE  IInv'
<1>1. req'[r] = q /\ \A s \in Reqs \ {r} : req'[s] = req[s]
  BY DEF IInv, Shape
<1>2. Shape'
  BY DEF IInv, Shape
<1>3. \A e \in Eps : Probes(e) \subseteq Probes(e)'
  BY <1>1, ProbesStay
<1>4. HalfOpenIsDecided'
  BY <1>3 DEF IInv, HalfOpenIsDecided
<1>5. QED BY <1>2, <1>4 DEF IInv

LEMMA AdmittedKeeps ==
  ASSUME IInv, NEW r \in Reqs, Admitted(r)
  PROVE  IInv'
<1> DEFINE e == At(r)
           p == breaker[e].state # "closed"
<1>1. /\ req[r].at = "next"
      /\ breaker' = [breaker EXCEPT ![e] = Admit(@)]
      /\ req' = [req EXCEPT ![r].at = "in", ![r].probe = p, ![r].shut = (e \in shut)]
  BY DEF Admitted
<1>2. /\ \A s \in Reqs \ {r} : req'[s] = req[s]
      /\ req'[r].at = "in" /\ req'[r].probe = p
      /\ req'[r].eps = req[r].eps /\ req'[r].start = req[r].start /\ req'[r].i = req[r].i
      /\ DOMAIN req'[r] = DOMAIN Idle
      /\ req' = [s \in Reqs |-> req'[s]]
  BY <1>1 DEF IInv, Shape, Idle
<1>3. At(r)' = e
  BY <1>2 DEF At
<1>4. \A d \in Eps : Probes(d) \subseteq Probes(d)'
  BY <1>1, <1>2, ProbesStay
<1>5. \A d \in Eps : d = e /\ p => r \in Probes(d)'
  BY <1>2, <1>3 DEF Probes
<1> HIDE DEF e, p
<1>6. Shape'
  <2>1. \A s \in Reqs : DOMAIN req'[s] = DOMAIN Idle
    BY <1>2 DEF IInv, Shape
  <2>2. \A d \in Eps : DOMAIN breaker'[d] = DOMAIN FreshBreaker
    BY <1>1, AdmitProbes DEF IInv, Shape
  <2>3. breaker' = [d \in Eps |-> breaker'[d]]
    BY <1>1 DEF IInv, Shape
  <2>4. QED BY <1>2, <2>1, <2>2, <2>3 DEF Shape
<1>7. HalfOpenIsDecided'
  <2> SUFFICES ASSUME NEW d \in Eps, breaker'[d].state = "half-open"
               PROVE  breaker'[d].probing /\ Probes(d)' # {}
    BY DEF HalfOpenIsDecided
  <2>1. CASE d # e \/ breaker[d].state = "closed"
    <3>1. breaker'[d] = breaker[d]
      BY <1>1, <2>1, AdmitProbes DEF IInv, Shape
    <3>2. QED BY <1>4, <3>1 DEF IInv, HalfOpenIsDecided
  <2>2. CASE d = e /\ breaker[d].state # "closed"
    <3>1. breaker'[d] = Admit(breaker[d])
      BY <1>1, <2>2 DEF IInv, Shape
    <3>2. breaker'[d].probing
      BY <2>2, <3>1, AdmitProbes DEF IInv, Shape
    <3>3. QED BY <1>5, <2>2, <3>2 DEF p
  <2>3. QED BY <2>1, <2>2
<1>8. QED BY <1>6, <1>7 DEF IInv

LEMMA AnsweredKeeps ==
  ASSUME IInv, NEW r \in Reqs, NEW outcome, Answered(r, outcome)
  PROVE  IInv'
<1> DEFINE e == At(r)
           kind == Kind(outcome)
           fails == kind \in {"connection", "auth"}
           q == IF fails /\ outcome # "cancelled" THEN Advance(req[r]) ELSE Idle
           b == IF fails THEN RecordFailure(breaker[e], kind) ELSE RecordSuccess(breaker[e])
<1>1. /\ req[r].at = "in"
      /\ breaker' = [breaker EXCEPT ![e] = b]
      /\ req' = [req EXCEPT ![r] = q]
  BY DEF Answered
<1>2. DOMAIN q = DOMAIN Idle
  BY AdvanceShape DEF IInv, Shape
<1>3. e \in Eps => DOMAIN b = DOMAIN FreshBreaker /\ b.state # "half-open"
  BY OutcomeDecides DEF IInv, Shape
<1> HIDE DEF b, q
<1>4. Shape'
  BY <1>1, <1>2, <1>3 DEF IInv, Shape
<1>5. \A s \in Reqs \ {r} : req'[s] = req[s]
  BY <1>1 DEF IInv, Shape
<1>6. HalfOpenIsDecided'
  <2> SUFFICES ASSUME NEW d \in Eps, breaker'[d].state = "half-open"
               PROVE  breaker'[d].probing /\ Probes(d)' # {}
    BY DEF HalfOpenIsDecided
  <2>1. d # e /\ breaker'[d] = breaker[d]
    BY <1>1, <1>3 DEF IInv, Shape
  <2>2. Probes(d) \subseteq Probes(d)'
    BY <1>5, <2>1, ProbesStay
  <2>3. QED BY <2>1, <2>2 DEF IInv, HalfOpenIsDecided
<1>7. QED BY <1>4, <1>6 DEF IInv

LEMMA TickKeeps == ASSUME IInv, Tick PROVE IInv'
<1>1. /\ breaker' = [e \in Eps |-> [breaker[e] EXCEPT !.left = IF @ > 0 THEN @ - 1 ELSE 0]]
      /\ UNCHANGED req
  BY DEF Tick
<1>2. ASSUME NEW e \in Eps
      PROVE  /\ DOMAIN breaker'[e] = DOMAIN FreshBreaker
             /\ breaker'[e].state = breaker[e].state
             /\ breaker'[e].probing = breaker[e].probing
  BY <1>1 DEF IInv, Shape, FreshBreaker
<1>3. Shape'
  BY <1>1, <1>2 DEF IInv, Shape
<1>4. \A e \in Eps : Probes(e)' = Probes(e)
  BY <1>1 DEF Probes, At
<1>5. HalfOpenIsDecided'
  BY <1>2, <1>4 DEF IInv, HalfOpenIsDecided
<1>6. QED BY <1>3, <1>5 DEF IInv

\* The administrators and the servers touch neither breakers nor requests.
LEMMA Untouched == ASSUME IInv, UNCHANGED <<breaker, req>> PROVE IInv'
<1>1. \A e \in Eps : Probes(e)' = Probes(e)
  BY DEF Probes, At
<1>2. QED BY <1>1 DEF IInv, Shape, HalfOpenIsDecided

LEMMA InitInv == Init => IInv
<1> SUFFICES ASSUME Init PROVE IInv
  OBVIOUS
<1>1. Shape
  BY DEF Init, Shape
<1>2. \A e \in Eps : breaker[e].state = "closed"
  BY DEF Init, FreshBreaker
<1>3. QED BY <1>1, <1>2 DEF IInv, HalfOpenIsDecided

LEMMA InvStep == IInv /\ [Next]_vars => IInv'
<1> SUFFICES ASSUME IInv, [Next]_vars PROVE IInv'
  OBVIOUS
<1>1. ASSUME NEW r \in Reqs, Start(r) PROVE IInv'
  <2>1. PICK start : req' = [req EXCEPT ![r] = [Idle EXCEPT !.at = "next", !.eps = endpoints,
                                                            !.start = start]]
    BY <1>1 DEF Start
  <2> DEFINE q == [Idle EXCEPT !.at = "next", !.eps = endpoints, !.start = start]
  <2>2. DOMAIN q = DOMAIN Idle
    BY DEF Idle
  <2>3. req[r].at # "in" /\ UNCHANGED breaker
    BY <1>1 DEF Start
  <2> HIDE DEF q
  <2>4. QED BY <2>1, <2>2, <2>3, RequestMoves DEF q
<1>2. ASSUME NEW r \in Reqs, Skipped(r) PROVE IInv'
  <2>1. DOMAIN Advance(req[r]) = DOMAIN Idle
    BY AdvanceShape DEF IInv, Shape
  <2>2. QED BY <1>2, <2>1, RequestMoves DEF Skipped
<1>3. ASSUME NEW r \in Reqs, GivesUp(r) PROVE IInv'
  BY <1>3, RequestMoves DEF GivesUp
<1>4. ASSUME NEW r \in Reqs, Step(r) PROVE IInv'
  BY <1>1, <1>2, <1>3, <1>4, AdmittedKeeps, AnsweredKeeps DEF Step
<1>5. ASSUME NEW list \in Lists, SetEndpoints(list) PROVE IInv'
  BY <1>5, Untouched DEF SetEndpoints
<1>6. CASE CloseAll
  BY <1>6, Untouched DEF CloseAll
<1>7. ASSUME NEW s \in Servers, Flip(s) PROVE IInv'
  BY <1>7, Untouched DEF Flip
<1>8. CASE UNCHANGED vars
  BY <1>8, Untouched DEF vars
<1>9. QED BY <1>4, <1>5, <1>6, <1>7, <1>8, TickKeeps DEF Next

\* allow and record: a half-open circuit always has a probe in flight whose
\* outcome decides it, however many older outcomes are recorded meanwhile, so
\* it never refuses its server for ever.
THEOREM HalfOpenDecided == Spec => []HalfOpenIsDecided
<1>1. IInv => HalfOpenIsDecided
  BY DEF IInv
<1>2. QED BY <1>1, InitInv, InvStep, PTL DEF Spec
================================================================================
