---------------------------- MODULE ResizableSem ----------------------------
(***************************************************************************)
(* The resizable counting semaphore of internal/nntp/semaphore.go: a       *)
(* mutex, a condition variable, a limit and a count.  Every critical       *)
(* section is one action except the end of acquire, where the context is   *)
(* read a second time after the watcher was stopped: contexts end without  *)
(* the mutex, so that section is two actions (TryAcquire or Recheck, then  *)
(* Finish) and MuFree keeps every other section out of the middle.         *)
(***************************************************************************)
EXTENDS Naturals, FiniteSets

CONSTANTS Procs,        \* goroutines calling acquire and release
          Limits,       \* values passed to newResizableSem and resize
          Cancellable,  \* the goroutines whose context may end
          MaxFiring     \* bound: watcher goroutines running at once

ASSUME SemAssumption == /\ IsFiniteSet(Procs)
                        /\ Limits \subseteq Nat
                        /\ Limits # {}
                        /\ Cancellable \subseteq Procs
                        /\ MaxFiring \in Nat

VARIABLES limit,    \* s.limit
          inUse,    \* s.inUse
          pc,       \* where each goroutine is in acquire/release
          ctxDone,  \* goroutines whose ctx.Err() is no longer nil
          armed,    \* goroutines whose context.AfterFunc watcher is registered
          firing,   \* watchers started by a cancellation, Broadcast still to run
          gaveUp    \* history: an acquire returned its context's error after its loop

vars == <<limit, inUse, pc, ctxDone, armed, firing, gaveUp>>

(***************************************************************************)
(* "out": not in the semaphore; "wait": on the condition's notify list;    *)
(* "woken": taken off the list, not yet back under the mutex; "granting":  *)
(* past the loop with the mutex held; "holding": acquire returned nil.     *)
(***************************************************************************)
Phases == {"out", "wait", "woken", "granting", "holding"}

At(phase) == {p \in Procs : pc[p] = phase}

MuFree == At("granting") = {}

\* newResizableSem and resize both raise a limit below 1 to 1.
AtLeastOne(n) == IF n < 1 THEN 1 ELSE n

\* sync.Cond.Broadcast: every goroutine on the notify list becomes runnable.
Broadcast(q) == [p \in Procs |-> IF q[p] = "wait" THEN "woken" ELSE q[p]]

\* A mutant: release forgets to signal.
NotSignalled(q) == {q}

\* sync.Cond.Signal: one goroutine on the list, whichever, becomes runnable.
Signalled(q) ==
  LET waiting == {p \in Procs : q[p] = "wait"}
  IN  IF waiting = {} THEN {q}
      ELSE {[q EXCEPT ![p] = "woken"] : p \in waiting}

Init == /\ limit \in {AtLeastOne(n) : n \in Limits}
        /\ inUse = 0
        /\ pc = [p \in Procs |-> "out"]
        /\ ctxDone = {}
        /\ armed = {}
        /\ firing = 0
        /\ gaveUp = FALSE

\* A mutant of the loop condition: one holder too many.
FullOffByOne == inUse > limit

\* The loop condition of acquire.
Full == inUse >= limit

\* One turn of acquire's loop for a goroutine that has the mutex: return the
\* context's error, register the watcher and wait, or leave the loop.
LoopTurn(p) ==
  \/ /\ Full
     /\ p \in ctxDone
     /\ pc' = [pc EXCEPT ![p] = "out"]
     /\ ctxDone' = ctxDone \ {p}
     /\ armed' = armed \ {p}
  \/ /\ Full
     /\ p \notin ctxDone
     /\ pc' = [pc EXCEPT ![p] = "wait"]
     /\ armed' = armed \cup {p}
     /\ UNCHANGED ctxDone
  \/ /\ ~Full
     /\ pc' = [pc EXCEPT ![p] = "granting"]
     /\ armed' = armed \ {p}
     /\ UNCHANGED ctxDone

TryAcquire(p) == /\ pc[p] = "out"
                 /\ MuFree
                 /\ LoopTurn(p)
                 /\ UNCHANGED <<limit, inUse, firing, gaveUp>>

\* cond.Wait returns with the mutex, stop() unregisters the watcher (one that
\* already started still runs), and the loop condition is evaluated again.
Recheck(p) == /\ pc[p] = "woken"
              /\ MuFree
              /\ LoopTurn(p)
              /\ UNCHANGED <<limit, inUse, firing, gaveUp>>

\* After the loop: the second look at the context, then the slot.
Finish(p) ==
  /\ pc[p] = "granting"
  /\ \/ /\ p \in ctxDone
        /\ pc' = [pc EXCEPT ![p] = "out"]
        /\ ctxDone' = ctxDone \ {p}
        /\ gaveUp' = TRUE
        /\ UNCHANGED inUse
     \/ /\ p \notin ctxDone
        /\ pc' = [pc EXCEPT ![p] = "holding"]
        /\ inUse' = inUse + 1
        /\ UNCHANGED <<ctxDone, gaveUp>>
  /\ UNCHANGED <<limit, armed, firing>>

\* A mutant of release: the count is given back twice when it can be.
ReturnTwo(n) == IF n > 1 THEN n - 2 ELSE 0

\* release's "if s.inUse > 0 { s.inUse-- }".
ReturnSlot(n) == IF n > 0 THEN n - 1 ELSE n

Release(p) == /\ pc[p] = "holding"
              /\ MuFree
              /\ inUse' = ReturnSlot(inUse)
              /\ pc' \in Signalled([pc EXCEPT ![p] = "out"])
              /\ UNCHANGED <<limit, ctxDone, armed, firing, gaveUp>>

\* A mutant: growing wakes nobody.
ResizeSilently(n) == /\ MuFree
                     /\ limit' = AtLeastOne(n)
                     /\ UNCHANGED <<inUse, pc, ctxDone, armed, firing, gaveUp>>

Resize(n) == /\ MuFree
             /\ limit' = AtLeastOne(n)
             /\ pc' = IF limit' > limit THEN Broadcast(pc) ELSE pc
             /\ UNCHANGED <<inUse, ctxDone, armed, firing, gaveUp>>

\* The caller's context ends, before or during acquire; a registered watcher
\* is started as a goroutine of its own.
Cancel(p) == /\ p \in Cancellable \ ctxDone
             /\ pc[p] # "holding"
             /\ ctxDone' = ctxDone \cup {p}
             /\ \/ /\ p \in armed
                   /\ firing < MaxFiring
                   /\ firing' = firing + 1
                   /\ armed' = armed \ {p}
                \/ /\ p \notin armed
                   /\ UNCHANGED <<firing, armed>>
             /\ UNCHANGED <<limit, inUse, pc, gaveUp>>

\* The AfterFunc body: lock, Broadcast, unlock.
WatcherFires == /\ firing > 0
                /\ MuFree
                /\ pc' = Broadcast(pc)
                /\ firing' = firing - 1
                /\ UNCHANGED <<limit, inUse, ctxDone, armed, gaveUp>>

Next == \/ \E p \in Procs : \/ TryAcquire(p) \/ Recheck(p) \/ Finish(p)
                            \/ Release(p) \/ Cancel(p)
        \/ \E n \in Limits : Resize(n)
        \/ WatcherFires

Spec == Init /\ [][Next]_vars

(***************************************************************************)
(* Fairness: the Go scheduler runs every runnable goroutine and sync.Mutex *)
(* is starvation-free, so a woken goroutine gets the mutex back (its       *)
(* section is enabled again and again, hence strong fairness), a goroutine *)
(* inside its section leaves it, and a started watcher broadcasts.  Nobody *)
(* is obliged to call acquire, release, resize or to cancel.               *)
(***************************************************************************)
Fairness == /\ \A p \in Procs : SF_vars(Recheck(p)) /\ WF_vars(Finish(p))
            /\ SF_vars(WatcherFires)

FairSpec == Spec /\ Fairness
-----------------------------------------------------------------------------
\* Types of the semaphore's fields; the limit is at least 1 after every
\* resize (semaphore.go clamps it), whatever was asked for.
TypeOK == /\ limit \in Nat \ {0}
          /\ inUse \in Nat
          /\ pc \in [Procs -> Phases]
          /\ ctxDone \subseteq Procs
          /\ armed \subseteq Procs
          /\ firing \in Nat
          /\ gaveUp \in BOOLEAN

\* The count is exactly the number of goroutines whose acquire returned nil
\* and which have not called release: no error path of acquire leaks or
\* returns a slot, and release's guard on zero never hides a double release.
SlotAccounting == inUse = Cardinality(At("holding"))

\* What acquire's loop tested still holds when the slot is taken: between the
\* test and the increment no resize, release or other acquire gets in.
TestStillHolds ==
  \A p \in At("granting") : At("granting") = {p} /\ inUse < limit

\* As long as somebody sleeps on the condition, every free slot has a
\* goroutine already woken, or inside acquire, to take it.  The only leak is
\* acquire's second look at its context, after the loop: the goroutine that
\* returns an error there has used up the Signal meant for a waiter.
NoLostWakeup ==
  At("wait") # {} /\ ~gaveUp =>
    limit <= inUse + Cardinality(At("woken")) + Cardinality(At("granting"))

\* No goroutine sleeps for ever beside a slot that stays free, unless that
\* second look has let a wake-up go.
WaiterServed ==
  \A p \in Procs : <>gaveUp \/ []<>~(pc[p] = "wait" /\ inUse < limit)

\* "acquire blocks until a slot is available (inUse < limit) or ctx is done":
\* no goroutine sleeps for ever while a slot stays free.  Not kept when a woken
\* goroutine gives up in Finish.
BlocksOnlyWhileFull ==
  \A p \in Procs : []<>~(pc[p] = "wait" /\ inUse < limit)

\* The semaphore implements the limiter the pool relies on.
Limiter == INSTANCE SlotLimiter WITH holders <- At("holding")
ImplementsLimiter == Limiter!LimiterSpec
=============================================================================
