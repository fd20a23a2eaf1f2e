------------------------------ MODULE Schedule ------------------------------
(***************************************************************************)
(* The cadence of the worker's loops.  Each loop has a ticker; after a     *)
(* pass all but the scan loop set it anew, faster while a backlog remains. *)
(* An administrator's change is stored in the settings, then in the        *)
(* worker's options, and then every loop is poked to set its ticker.       *)
(***************************************************************************)
EXTENDS Naturals, Sequences

CONSTANTS TimedLoops,          \* the loops, in the order Reconfigure pokes them
          Intervals, Unchanged, \* values an administrator may choose, or leave alone
          DefaultInterval,     \* cfg.Scan
          AdaptiveMinInterval, \* 0: off
          Admins

ASSUME ScheduleAssumption ==
  /\ Intervals \subseteq Nat \ {0} /\ DefaultInterval \in Intervals
  /\ Unchanged \notin Intervals /\ AdaptiveMinInterval \in Nat
  /\ TimedLoops \in Seq({TimedLoops[i] : i \in DOMAIN TimedLoops}) \ {<<>>}

VARIABLES settings, \* persisted intervals
          opts,     \* the worker's options
          ticker,   \* the period of each loop's ticker
          poke,     \* scanReset, asmReset, buildReset, ppReset: channels of one
          timed,    \* each loop's position
          update    \* handleUpdateSchedule of each administrator

schedVars == <<settings, opts, ticker, poke, timed, update>>

LoopSet == {TimedLoops[i] : i \in DOMAIN TimedLoops}

\* A pass that ends in a reset of the ticker, and one that does not: the scan
\* loop's, and a post-process pass that was triggered.
InPass(l) == [at |-> IF l = "scan" THEN "job" ELSE "pass", next |-> 0]
NoUpdate == [at |-> "none", sched |-> [l \in LoopSet |-> Unchanged], todo |-> <<>>]

ScheduleInit ==
  /\ settings = [l \in LoopSet |-> Unchanged]
  /\ opts = [l \in LoopSet |-> DefaultInterval]
  /\ ticker = opts
  /\ poke = [l \in LoopSet |-> FALSE]
  /\ timed = [l \in LoopSet |-> InPass(l)] \* every loop begins with a pass
  /\ update = [a \in Admins |-> NoUpdate]

Over(new, old) == [l \in LoopSet |-> IF new[l] = Unchanged THEN old[l] ELSE new[l]]
-----------------------------------------------------------------------------
(* The loops *)

nextInterval(interval, busy) ==
  IF AdaptiveMinInterval = 0 \/ ~busy \/ AdaptiveMinInterval >= interval
  THEN interval ELSE AdaptiveMinInterval

\* The ticker fires, or a trigger of the loop is served.
BeginPass(l) ==
  /\ timed[l].at = "wait"
  /\ \/ timed' = [timed EXCEPT ![l] = InPass(l)]
     \/ l = "postprocess" /\ timed' = [timed EXCEPT ![l].at = "job"]
  /\ UNCHANGED <<settings, opts, ticker, poke, update>>

\* The interval is read after the pass.
EndPass(l) ==
  /\ \/ /\ timed[l].at = "pass"
        /\ \E busy \in BOOLEAN :
             timed' = [timed EXCEPT ![l] = [at |-> "set", next |-> nextInterval(opts[l], busy)]]
     \/ timed[l].at = "job" /\ timed' = [timed EXCEPT ![l].at = "wait"]
  /\ UNCHANGED <<settings, opts, ticker, poke, update>>

TakePoke(l) ==
  /\ timed[l].at = "wait" /\ poke[l]
  /\ poke' = [poke EXCEPT ![l] = FALSE]
  /\ timed' = [timed EXCEPT ![l] = [at |-> "set", next |-> opts[l]]]
  /\ UNCHANGED <<settings, opts, ticker, update>>

SetTicker(l) ==
  /\ timed[l].at = "set"
  /\ ticker' = [ticker EXCEPT ![l] = timed[l].next]
  /\ timed' = [timed EXCEPT ![l] = [at |-> "wait", next |-> 0]]
  /\ UNCHANGED <<settings, opts, poke, update>>
-----------------------------------------------------------------------------
(* handleUpdateSchedule and Reconfigure *)

\* The settings are stored in one transaction; a request without a field, with a
\* bad one, or that cannot be stored changes nothing.
SetSettings(a, s) ==
  /\ update[a].at = "none"
  /\ \E l \in LoopSet : s[l] # Unchanged
  /\ settings' = Over(s, settings)
  /\ update' = [update EXCEPT ![a] = [at |-> "store", sched |-> s, todo |-> <<>>]]
  /\ UNCHANGED <<opts, ticker, poke, timed>>

StoreOptions(a) ==
  /\ update[a].at = "store"
  /\ opts' = Over(update[a].sched, opts)
  /\ update' = [update EXCEPT ![a].at = "poke", ![a].todo = TimedLoops]
  /\ UNCHANGED <<settings, ticker, poke, timed>>

\* Mutant: the channel has no buffer, so a loop in a pass is not reached.
PokedUnbuffered(l) == poke[l] \/ timed[l].at = "wait"

\* The non-blocking send: a pending reset already covers the change.
Poked(l) == TRUE

Poke(a) ==
  /\ update[a].at = "poke"
  /\ LET l == Head(update[a].todo)
     IN /\ poke' = [poke EXCEPT ![l] = Poked(l)]
        /\ update' = IF Len(update[a].todo) = 1 THEN [update EXCEPT ![a] = NoUpdate]
                     ELSE [update EXCEPT ![a].todo = Tail(@)]
  /\ UNCHANGED <<settings, opts, ticker, timed>>

\* The process is started again.  applyPersistedSchedule puts the settings over
\* the configuration, unless they cannot be read.
ScheduleRestart ==
  /\ \E read \in BOOLEAN :
       opts' = IF read THEN Over(settings, [l \in LoopSet |-> DefaultInterval])
               ELSE [l \in LoopSet |-> DefaultInterval]
  /\ ticker' = opts'
  /\ poke' = [l \in LoopSet |-> FALSE]
  /\ timed' = [l \in LoopSet |-> InPass(l)]
  /\ update' = [a \in Admins |-> NoUpdate]
  /\ UNCHANGED settings

ScheduleNext ==
  \/ \E l \in LoopSet : BeginPass(l) \/ EndPass(l) \/ TakePoke(l) \/ SetTicker(l)
  \/ \E a \in Admins : \/ \E s \in [LoopSet -> Intervals \cup {Unchanged}] : SetSettings(a, s)
                       \/ StoreOptions(a) \/ Poke(a)
  \/ ScheduleRestart

ScheduleSpec == ScheduleInit /\ [][ScheduleNext]_schedVars
-----------------------------------------------------------------------------
ScheduleTypeOK ==
  /\ settings \in [LoopSet -> Intervals \cup {Unchanged}]
  /\ opts \in [LoopSet -> Intervals]
  /\ ticker \in [LoopSet -> Intervals \cup {AdaptiveMinInterval}]
  /\ poke \in [LoopSet -> BOOLEAN]

\* "Each affected loop resets its ticker to the new cadence without a restart":
\* a loop that waits with no reset on its way ticks at the interval now in force,
\* or faster for a backlog, although changes arrive in the middle of its passes,
\* between its reading of the interval and its use, and two at a time.
ScheduleApplied ==
  \A l \in LoopSet :
    /\ timed[l].at = "wait"
    /\ ~poke[l]
    /\ \A a \in Admins : \A i \in DOMAIN update[a].todo : update[a].todo[i] # l
    => \E busy \in BOOLEAN : ticker[l] = nextInterval(opts[l], busy)
=============================================================================
