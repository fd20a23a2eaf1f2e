------------------------ MODULE ResizableSem_proofs ------------------------
(***************************************************************************)
(* The semaphore counts exactly its holders, and implements SlotLimiter,   *)
(* for any finite set of goroutines, any limits and any pattern of         *)
(* cancellations.                                                          *)
(***************************************************************************)
EXTENDS ResizableSem, FiniteSetTheorems, TLAPS

\* Broadcast and Signal only move goroutines from "wait" to "woken".
LEMMA WakeupsOnlyMoveWaiters ==
  ASSUME NEW q \in [Procs -> Phases]
  PROVE  /\ Broadcast(q) \in [Procs -> Phases]
         /\ \A p \in Procs : (Broadcast(q)[p] = "holding") <=> (q[p] = "holding")
         /\ \A r \in Signalled(q) :
              /\ r \in [Procs -> Phases]
              /\ \A p \in Procs : (r[p] = "holding") <=> (q[p] = "holding")
  BY DEF Broadcast, Signalled, Phases

\* Every field of the semaphore keeps its type; in particular a limit below
\* 1 is never stored (newResizableSem, resize).
THEOREM TypeCorrect == Spec => []TypeOK
<1>1. Init => TypeOK
  <2> SUFFICES ASSUME Init PROVE TypeOK
    OBVIOUS
  <2>1. gaveUp \in BOOLEAN
    BY Zenon DEF Init
  <2>2. QED BY <2>1, SemAssumption DEF Init, TypeOK, Phases, AtLeastOne
<1>2. TypeOK /\ [Next]_vars => TypeOK'
  <2> SUFFICES ASSUME TypeOK, [Next]_vars PROVE TypeOK'
    OBVIOUS
  <2> USE DEF TypeOK
  <2>1. ASSUME NEW p \in Procs, TryAcquire(p) \/ Recheck(p) PROVE TypeOK'
    BY <2>1 DEF TryAcquire, Recheck, LoopTurn, Phases
  <2>2. ASSUME NEW p \in Procs, Finish(p) PROVE TypeOK'
    <3>1. gaveUp' \in BOOLEAN
      BY <2>2, Zenon DEF Finish
    <3>2. QED BY <2>2, <3>1 DEF Finish, Phases
  <2>3. ASSUME NEW p \in Procs, Release(p) PROVE TypeOK'
    <3>1. [pc EXCEPT ![p] = "out"] \in [Procs -> Phases]
      BY DEF Phases
    <3>2. pc' \in [Procs -> Phases]
      BY <2>3, <3>1, WakeupsOnlyMoveWaiters DEF Release
    <3>3. QED BY <2>3, <3>2 DEF Release, ReturnSlot
  <2>4. ASSUME NEW p \in Procs, Cancel(p) PROVE TypeOK'
    BY <2>4 DEF Cancel
  <2>5. ASSUME NEW n \in Limits, Resize(n) PROVE TypeOK'
    BY <2>5, SemAssumption, WakeupsOnlyMoveWaiters DEF Resize, AtLeastOne
  <2>6. CASE WatcherFires
    BY <2>6, WakeupsOnlyMoveWaiters DEF WatcherFires
  <2>7. CASE UNCHANGED vars
    BY <2>7 DEF vars
  <2>8. QED BY <2>1, <2>2, <2>3, <2>4, <2>5, <2>6, <2>7 DEF Next
<1>3. QED BY <1>1, <1>2, PTL DEF Spec

\* What each kind of step does to the set of holders and to the count.
LEMMA HoldersStep ==
  ASSUME TypeOK, TypeOK', [Next]_vars
  PROVE  \/ /\ At("holding")' = At("holding")
            /\ inUse' = inUse
         \/ \E p \in Procs \ At("holding") :
              /\ Finish(p)
              /\ At("holding")' = At("holding") \cup {p}
              /\ inUse' = inUse + 1
         \/ \E p \in At("holding") :
              /\ Release(p)
              /\ At("holding")' = At("holding") \ {p}
              /\ inUse' = ReturnSlot(inUse)
<1> USE DEF TypeOK, At
<1>1. ASSUME NEW p \in Procs, TryAcquire(p) \/ Recheck(p)
      PROVE  At("holding")' = At("holding") /\ inUse' = inUse
  BY <1>1 DEF TryAcquire, Recheck, LoopTurn
<1>2. ASSUME NEW p \in Procs, Finish(p)
      PROVE  \/ At("holding")' = At("holding") /\ inUse' = inUse
             \/ /\ p \notin At("holding")
                /\ At("holding")' = At("holding") \cup {p}
                /\ inUse' = inUse + 1
  BY <1>2 DEF Finish
<1>3. ASSUME NEW p \in Procs, Release(p)
      PROVE  /\ p \in At("holding")
             /\ At("holding")' = At("holding") \ {p}
             /\ inUse' = ReturnSlot(inUse)
  <2> DEFINE q == [pc EXCEPT ![p] = "out"]
  <2>1. q \in [Procs -> Phases]
    BY DEF Phases
  <2>2. \A r \in Procs : (pc'[r] = "holding") <=> (q[r] = "holding")
    BY <1>3, <2>1, WakeupsOnlyMoveWaiters DEF Release
  <2>3. QED BY <1>3, <2>2 DEF Release
<1>4. ASSUME NEW p \in Procs, Cancel(p)
      PROVE  At("holding")' = At("holding") /\ inUse' = inUse
  BY <1>4 DEF Cancel
<1>5. ASSUME NEW n \in Limits, Resize(n)
      PROVE  At("holding")' = At("holding") /\ inUse' = inUse
  BY <1>5, WakeupsOnlyMoveWaiters DEF Resize
<1>6. CASE WatcherFires
  BY <1>6, WakeupsOnlyMoveWaiters DEF WatcherFires
<1>7. CASE UNCHANGED vars
  BY <1>7 DEF vars
<1>8. QED BY <1>1, <1>2, <1>3, <1>4, <1>5, <1>6, <1>7 DEF Next

LEMMA HoldersFinite == IsFiniteSet(At("holding")) /\ IsFiniteSet(At("holding"))'
<1>1. At("holding") \in SUBSET Procs /\ At("holding")' \in SUBSET Procs
  BY DEF At
<1>2. QED BY <1>1, SemAssumption, FS_Subset

LEMMA AccountingStep ==
  ASSUME TypeOK, TypeOK', SlotAccounting, [Next]_vars
  PROVE  SlotAccounting'
<1> USE DEF SlotAccounting
<1>1. CASE At("holding")' = At("holding") /\ inUse' = inUse
  BY <1>1
<1>2. ASSUME NEW p \in Procs \ At("holding"),
             At("holding")' = At("holding") \cup {p}, inUse' = inUse + 1
      PROVE  SlotAccounting'
  BY <1>2, HoldersFinite, FS_AddElement
<1>3. ASSUME NEW p \in At("holding"),
             At("holding")' = At("holding") \ {p}, inUse' = ReturnSlot(inUse)
      PROVE  SlotAccounting'
  <2>1. inUse # 0
    BY <1>3, HoldersFinite, FS_EmptySet
  <2>2. QED
    BY <1>3, <2>1, HoldersFinite, FS_RemoveElement DEF ReturnSlot, TypeOK
<1>4. QED BY <1>1, <1>2, <1>3, HoldersStep

\* inUse is exactly the number of goroutines that hold a slot: no path of
\* acquire or release leaks one or returns one twice, for any number of
\* goroutines, limits, resizes and cancellations.
THEOREM SlotsAccounted == Spec => []SlotAccounting
<1>1. Init => SlotAccounting
  <2> SUFFICES ASSUME Init PROVE SlotAccounting
    OBVIOUS
  <2>1. At("holding") = {}
    BY DEF Init, At
  <2>2. QED BY <2>1, FS_EmptySet DEF Init, SlotAccounting
<1>2. TypeOK /\ TypeOK' /\ SlotAccounting /\ [Next]_vars => SlotAccounting'
  BY AccountingStep
<1>3. QED BY <1>1, <1>2, TypeCorrect, PTL DEF Spec

LEMMA SectionStep ==
  ASSUME TypeOK, TypeOK', TestStillHolds, [Next]_vars
  PROVE  TestStillHolds'
<1> USE DEF TypeOK, TestStillHolds, At
<1>1. ASSUME NEW p \in Procs, TryAcquire(p) \/ Recheck(p) PROVE TestStillHolds'
  BY <1>1 DEF TryAcquire, Recheck, LoopTurn, MuFree, Full
<1>2. ASSUME NEW p \in Procs, Finish(p) PROVE TestStillHolds'
  BY <1>2 DEF Finish
<1>3. ASSUME NEW p \in Procs, Release(p) PROVE TestStillHolds'
  <2> DEFINE q == [pc EXCEPT ![p] = "out"]
  <2>1. \A r \in Procs : q[r] # "granting"
    BY <1>3 DEF Release, MuFree
  <2>2. \A r \in Procs : pc'[r] # "granting"
    BY <1>3, <2>1 DEF Release, Signalled
  <2>3. QED BY <2>2
<1>4. ASSUME NEW p \in Procs, Cancel(p) PROVE TestStillHolds'
  BY <1>4 DEF Cancel
<1>5. ASSUME NEW n \in Limits, Resize(n) PROVE TestStillHolds'
  BY <1>5 DEF Resize, MuFree, Broadcast
<1>6. CASE WatcherFires
  BY <1>6 DEF WatcherFires, MuFree, Broadcast
<1>7. CASE UNCHANGED vars
  BY <1>7 DEF vars
<1>8. QED BY <1>1, <1>2, <1>3, <1>4, <1>5, <1>6, <1>7 DEF Next

\* The slot that acquire's loop saw free is still free when it is taken.
THEOREM SectionSafe == Spec => []TestStillHolds
<1>1. Init => TestStillHolds
  BY DEF Init, TestStillHolds, At
<1>2. TypeOK /\ TypeOK' /\ TestStillHolds /\ [Next]_vars => TestStillHolds'
  BY SectionStep
<1>3. QED BY <1>1, <1>2, TypeCorrect, PTL DEF Spec

\* Cardinalities of the phases are natural numbers.
LEMMA PhasesFinite ==
  \A phase : /\ IsFiniteSet(At(phase)) /\ IsFiniteSet(At(phase))'
             /\ Cardinality(At(phase)) \in Nat
<1> TAKE phase
<1>1. At(phase) \in SUBSET Procs /\ At(phase)' \in SUBSET Procs
  BY DEF At
<1>2. QED BY <1>1, SemAssumption, FS_Subset, FS_CardinalityType

\* A step of acquire's loop leaves a waiter behind only when there is no free
\* slot, or when it moves on itself to take the slot it saw.
LEMMA LoopKeepsWakeups ==
  ASSUME TypeOK, TypeOK', NoLostWakeup, NEW p \in Procs, TryAcquire(p) \/ Recheck(p)
  PROVE  NoLostWakeup'
<1> DEFINE W == At("woken")
           G == At("granting")
<1>1. /\ limit' = limit /\ inUse' = inUse /\ gaveUp' = gaveUp
      /\ pc[p] \in {"out", "woken"} /\ pc \in [Procs -> Phases]
      /\ limit \in Nat /\ inUse \in Nat
  BY DEF TryAcquire, Recheck, TypeOK
<1>2. CASE Full
  <2>1. limit' <= inUse'
    BY <1>1, <1>2 DEF Full
  <2>2. Cardinality(W') \in Nat /\ Cardinality(G') \in Nat
    BY PhasesFinite, FS_CardinalityType
  <2>3. QED BY <1>1, <2>1, <2>2 DEF NoLostWakeup
<1>3. CASE ~Full
  <2>1. pc' = [pc EXCEPT ![p] = "granting"]
    BY <1>3 DEF TryAcquire, Recheck, LoopTurn
  <2>2. G' = G \cup {p} /\ p \notin G /\ W' = W \ {p} /\ At("wait")' = At("wait")
    BY <1>1, <2>1 DEF At
  <2>3. Cardinality(G') = Cardinality(G) + 1
    BY <2>2, PhasesFinite, FS_AddElement
  <2>4. Cardinality(W') \in {Cardinality(W), Cardinality(W) - 1}
    BY <2>2, PhasesFinite, FS_RemoveElement
  <2>5. Cardinality(W) \in Nat /\ Cardinality(G) \in Nat
    BY PhasesFinite
  <2>6. QED BY <1>1, <2>2, <2>3, <2>4, <2>5 DEF NoLostWakeup
<1>4. QED BY <1>2, <1>3

\* The goroutine that leaves acquire's section takes its slot, or gives up.
LEMMA FinishKeepsWakeups ==
  ASSUME TypeOK, TypeOK', NoLostWakeup, NEW p \in Procs, Finish(p)
  PROVE  NoLostWakeup'
<1> DEFINE W == At("woken")
           G == At("granting")
<1>1. CASE p \in ctxDone
  <2>1. gaveUp' = TRUE
    BY <1>1 DEF Finish
  <2>2. QED BY <2>1 DEF NoLostWakeup
<1>2. CASE p \notin ctxDone
  <2>1. /\ pc[p] = "granting" /\ pc' = [pc EXCEPT ![p] = "holding"]
        /\ inUse' = inUse + 1 /\ limit' = limit /\ gaveUp' = gaveUp
        /\ pc \in [Procs -> Phases] /\ limit \in Nat /\ inUse \in Nat
    BY <1>2 DEF Finish, TypeOK
  <2>2. p \in G /\ G' = G \ {p} /\ W' = W /\ At("wait")' = At("wait")
    BY <2>1 DEF At
  <2>3. Cardinality(G') = Cardinality(G) - 1
    BY <2>2, PhasesFinite, FS_RemoveElement
  <2>4. Cardinality(W) \in Nat /\ Cardinality(G) \in Nat
    BY PhasesFinite
  <2>5. QED BY <2>1, <2>2, <2>3, <2>4 DEF NoLostWakeup
<1>3. QED BY <1>1, <1>2

\* The slot that is given back goes with a Signal to somebody who waits.
LEMMA ReleaseKeepsWakeups ==
  ASSUME TypeOK, TypeOK', SlotAccounting, NoLostWakeup, NEW p \in Procs, Release(p)
  PROVE  NoLostWakeup'
<1> DEFINE W == At("woken")
           G == At("granting")
           q == [pc EXCEPT ![p] = "out"]
<1>1. /\ pc[p] = "holding" /\ G = {} /\ inUse' = ReturnSlot(inUse)
      /\ pc' \in Signalled(q) /\ limit' = limit /\ gaveUp' = gaveUp
      /\ pc \in [Procs -> Phases] /\ limit \in Nat /\ inUse \in Nat
  BY DEF Release, MuFree, TypeOK
<1>2. inUse # 0
  <2>1. p \in At("holding")
    BY <1>1 DEF At
  <2>2. QED BY <2>1, PhasesFinite, FS_EmptySet DEF SlotAccounting
<1>3. Cardinality(W) \in Nat /\ Cardinality(G) = 0 /\ Cardinality(G') \in Nat
  BY <1>1, PhasesFinite, FS_EmptySet, FS_CardinalityType
<1>4. CASE \A r \in Procs : q[r] # "wait"
  <2>1. pc' = q
    BY <1>1, <1>4 DEF Signalled
  <2>2. At("wait")' = {}
    BY <1>4, <2>1 DEF At
  <2>3. QED BY <2>2 DEF NoLostWakeup
<1>5. ASSUME NEW r \in Procs, q[r] = "wait", pc' = [q EXCEPT ![r] = "woken"]
      PROVE  NoLostWakeup'
  <2>1. W' = W \cup {r} /\ r \notin W /\ r \in At("wait")
    BY <1>1, <1>5 DEF At
  <2>2. Cardinality(W') = Cardinality(W) + 1
    BY <2>1, PhasesFinite, FS_AddElement
  <2>3. QED BY <1>1, <1>2, <1>3, <2>1, <2>2 DEF NoLostWakeup, ReturnSlot
<1>6. QED BY <1>1, <1>4, <1>5 DEF Signalled

\* A slot that becomes free always has somebody on the way to take it while
\* others sleep, whatever is resized: the one exception is a caller whose
\* context ends between the end of acquire's loop and its second check.
THEOREM WakeupsKept == Spec => []NoLostWakeup
<1>1. Init => NoLostWakeup
  BY DEF Init, NoLostWakeup, At
<1>2. TypeOK /\ TypeOK' /\ SlotAccounting /\ NoLostWakeup /\ [Next]_vars => NoLostWakeup'
  <2> SUFFICES ASSUME TypeOK, TypeOK', SlotAccounting, NoLostWakeup, [Next]_vars
               PROVE  NoLostWakeup'
    OBVIOUS
  <2>1. ASSUME NEW n \in Limits, Resize(n) PROVE NoLostWakeup'
    <3>1. CASE limit' > limit
      <4>1. At("wait")' = {}
        BY <2>1, <3>1 DEF Resize, Broadcast, At
      <4>2. QED BY <4>1 DEF NoLostWakeup
    <3>2. CASE ~(limit' > limit)
      <4>1. pc' = pc /\ inUse' = inUse /\ gaveUp' = gaveUp /\ limit' <= limit
        BY <2>1, <3>2 DEF Resize, TypeOK
      <4>2. /\ At("wait")' = At("wait") /\ At("woken")' = At("woken")
            /\ At("granting")' = At("granting")
        BY <4>1 DEF At
      <4>3. Cardinality(At("woken")) \in Nat /\ Cardinality(At("granting")) \in Nat
        BY PhasesFinite
      <4>4. QED BY <4>1, <4>2, <4>3 DEF NoLostWakeup, TypeOK
    <3>3. QED BY <3>1, <3>2
  <2>2. CASE WatcherFires
    <3>1. At("wait")' = {}
      BY <2>2 DEF WatcherFires, Broadcast, At
    <3>2. QED BY <3>1 DEF NoLostWakeup
  <2>3. ASSUME pc' = pc /\ inUse' = inUse /\ gaveUp' = gaveUp /\ limit' = limit
        PROVE  NoLostWakeup'
    BY <2>3 DEF NoLostWakeup, At
  <2>4. ASSUME NEW p \in Procs, Cancel(p) PROVE NoLostWakeup'
    BY <2>3, <2>4 DEF Cancel
  <2>5. CASE UNCHANGED vars
    BY <2>3, <2>5 DEF vars
  <2>6. QED
    BY <2>1, <2>2, <2>4, <2>5, LoopKeepsWakeups, FinishKeepsWakeups, ReleaseKeepsWakeups
       DEF Next
<1>3. QED BY <1>1, <1>2, TypeCorrect, SlotsAccounted, PTL DEF Spec

\* The instance's Cardinality is Cardinality.
LEMMA SameCardinality == \A S : Limiter!Cardinality(S) = Cardinality(S)
  BY DEF Limiter!Cardinality, Cardinality, Limiter!IsFiniteSet, IsFiniteSet

\* The semaphore implements the limiter: slots are only granted below the
\* current limit, and a resize neither grants nor revokes one.
THEOREM SemImplementsLimiter == Spec => ImplementsLimiter
<1>1. Init => Limiter!LimiterInit
  BY DEF Init, Limiter!LimiterInit, At, AtLeastOne, Limiter!AtLeastOne
<1>2. TypeOK /\ TypeOK' /\ SlotAccounting /\ TestStillHolds /\ [Next]_vars
        => [Limiter!LimiterNext]_Limiter!limiterVars
  <2> SUFFICES ASSUME TypeOK, TypeOK', SlotAccounting, TestStillHolds, [Next]_vars
               PROVE  [Limiter!LimiterNext]_Limiter!limiterVars
    OBVIOUS
  <2> USE DEF Limiter!LimiterNext, Limiter!limiterVars
  <2>1. ASSUME NEW n \in Limits, Resize(n) PROVE Limiter!LimiterNext
    <3>1. At("holding")' = At("holding")
      BY <2>1, WakeupsOnlyMoveWaiters DEF Resize, TypeOK, At
    <3>2. QED
      BY <2>1, <3>1 DEF Resize, Limiter!SetLimit, AtLeastOne, Limiter!AtLeastOne
  <2>2. ASSUME NEW p \in Procs \ At("holding"), Finish(p),
               At("holding")' = At("holding") \cup {p}
        PROVE  Limiter!LimiterNext
    BY <2>2, SameCardinality DEF Finish, Limiter!Grant, Limiter!Free, SlotAccounting,
                TestStillHolds, At
  <2>3. ASSUME NEW p \in At("holding"), Release(p),
               At("holding")' = At("holding") \ {p}
        PROVE  Limiter!LimiterNext
    BY <2>3 DEF Release, Limiter!GiveBack, At
  <2>4. CASE ~(\E n \in Limits : Resize(n)) /\ At("holding")' = At("holding")
    <3>1. limit' = limit
      BY <2>4 DEF Next, vars, TryAcquire, Recheck, Finish, Release, Cancel, WatcherFires
    <3>2. QED BY <2>4, <3>1
  <2>5. QED BY <2>1, <2>2, <2>3, <2>4, HoldersStep
<1>3. QED
  BY <1>1, <1>2, TypeCorrect, SlotsAccounted, SectionSafe, PTL
     DEF Spec, ImplementsLimiter, Limiter!LimiterSpec
=============================================================================
