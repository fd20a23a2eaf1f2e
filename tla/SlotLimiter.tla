---------------------------- MODULE SlotLimiter ----------------------------
(***************************************************************************)
(* What the NNTP pool is promised by its semaphore                         *)
(* (internal/nntp/semaphore.go): a set of holders that only grows while it *)
(* is smaller than the CURRENT limit, a limit that an administrator may    *)
(* change at any moment, and no holder ever losing its slot to a shrink.   *)
(* Waiting, waking and cancelling are the implementation's business: see   *)
(* ResizableSem, which implements this module, and ConnPool, which uses it.*)
(***************************************************************************)
EXTENDS Naturals, FiniteSets

CONSTANTS Procs,    \* the goroutines that take slots
          Limits    \* the max-connections values an administrator may set

ASSUME LimiterAssumption == /\ IsFiniteSet(Procs)
                            /\ Limits \subseteq Nat
                            /\ Limits # {}

VARIABLES limit,    \* the current capacity
          holders   \* the goroutines that hold a slot

limiterVars == <<limit, holders>>

\* newResizableSem and resize both raise a limit below 1 to 1.
AtLeastOne(n) == IF n < 1 THEN 1 ELSE n

LimiterTypeOK == /\ limit \in Nat \ {0}
                 /\ holders \subseteq Procs

Free == Cardinality(holders) < limit

LimiterInit == /\ limit \in {AtLeastOne(n) : n \in Limits}
               /\ holders = {}

\* acquire succeeds.
Grant(p) == /\ p \notin holders
            /\ Free
            /\ holders' = holders \cup {p}
            /\ UNCHANGED limit

\* release.
GiveBack(p) == /\ p \in holders
               /\ holders' = holders \ {p}
               /\ UNCHANGED limit

\* resize: takes effect for later grants, revokes nothing.
SetLimit(n) == /\ limit' = AtLeastOne(n)
               /\ UNCHANGED holders

LimiterNext == \/ \E p \in Procs : Grant(p) \/ GiveBack(p)
               \/ \E n \in Limits : SetLimit(n)

LimiterSpec == LimiterInit /\ [][LimiterNext]_limiterVars
=============================================================================
