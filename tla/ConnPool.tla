------------------------------ MODULE ConnPool ------------------------------
(***************************************************************************)
(* The NNTP connection pool of internal/nntp/pool.go.  Its semaphore is    *)
(* the SlotLimiter this module extends (ResizableSem implements it).       *)
(* Callers run withConn: take a slot, pop and ping idle connections or     *)
(* dial, use the connection, hand it back or discard it, give the slot     *)
(* back, retry after connection-fatal errors.  Each section under p.mu is  *)
(* one action; pings, dials, closes and the semaphore calls happen         *)
(* between them.  One administrator at a time reconfigures or closes the   *)
(* pool: SetEndpoints and Close of failover.go hold the pool set's lock.   *)
(***************************************************************************)
EXTENDS SlotLimiter, Sequences, Integers

CONSTANTS Ids,         \* sockets, whatever server they were dialled to
          MaxRetries,  \* cfg.MaxRetries: retries after the first attempt
          MaxAdmin     \* bound: Reconfigure and Resize calls

ASSUME PoolAssumption == /\ Ids \subseteq Nat \ {0}
                         /\ MaxRetries \in Nat
                         /\ MaxAdmin \in Nat

VARIABLES idle,     \* p.idle: a stack of connections
          open,     \* p.open
          closed,   \* p.closed
          live,     \* sockets that are connected, whoever owns them
          call,     \* each caller's position in withConn
          adminAt,  \* the administrator's position in Reconfigure/Resize/Close
          adminN,   \* the limit it is about to set
          doomed,   \* idle connections it took and has still to close
          admins,   \* administrator calls so far
          peak      \* history: the largest limit ever in force

poolVars == <<idle, open, closed, live>>
adminVars == <<adminAt, adminN, doomed, admins>>
vars == <<limiterVars, poolVars, adminVars, call, peak>>

NoConn == 0    \* no socket in hand
NoCall == [at |-> "out", c |-> NoConn, attempt |-> 0, again |-> FALSE]

Positions == {"out", "acquire", "slot", "ping", "drop", "dial", "auth", "use",
              "close", "unslot"}

\* The caller is past the idle check with a connection, or bound to dial one.
Committed == {p \in Procs : call[p].at \in {"ping", "drop", "dial", "auth", "use", "close"}}

\* The caller has a connected socket in hand.
HandsOn == {p \in Procs : call[p].at \in {"ping", "auth", "use", "close"}}

\* The connections p.open counts besides the idle ones.
CountedOut == {p \in Procs : call[p].at \in {"ping", "drop", "use"}}

Idle == {idle[i] : i \in DOMAIN idle}
Greater(m, n) == IF m > n THEN m ELSE n

Init == /\ LimiterInit
        /\ idle = <<>>
        /\ open = 0
        /\ closed = FALSE
        /\ live = {}
        /\ call = [p \in Procs |-> NoCall]
        /\ adminAt = "ready"
        /\ adminN = 1
        /\ doomed = {}
        /\ admins = 0
        /\ peak = limit
-----------------------------------------------------------------------------
(* withConn and the acquire it calls *)

MoveTo(p, at) == call' = [call EXCEPT ![p].at = at]

\* The attempt is over; its connection, if any, is no longer the caller's.
EndAttempt(p, again) ==
  call' = [call EXCEPT ![p].at = "unslot", ![p].c = NoConn, ![p].again = again]

Call(p) == /\ call[p].at = "out"
           /\ MoveTo(p, "acquire")
           /\ UNCHANGED <<limiterVars, poolVars, adminVars, peak>>

\* The context ends in the backoff sleep or while waiting for a slot.
GiveUp(p) == /\ call[p].at = "acquire"
             /\ call' = [call EXCEPT ![p] = NoCall]
             /\ UNCHANGED <<limiterVars, poolVars, adminVars, peak>>

TakeSlot(p) == /\ call[p].at = "acquire"
               /\ Grant(p)
               /\ MoveTo(p, "slot")
               /\ UNCHANGED <<poolVars, adminVars, peak>>

\* A mutant: the popped connection stays on the stack.
PopKeeping(p) ==
  \/ /\ idle # <<>>
     /\ UNCHANGED idle
     /\ call' = [call EXCEPT ![p].at = "ping", ![p].c = idle[Len(idle)]]
  \/ /\ idle = <<>>
     /\ UNCHANGED idle
     /\ MoveTo(p, "dial")

\* A mutant: dial while idle connections are there to be reused.
PopOrDialAnyway(p) ==
  \/ /\ idle # <<>>
     /\ idle' = SubSeq(idle, 1, Len(idle) - 1)
     /\ call' = [call EXCEPT ![p].at = "ping", ![p].c = idle[Len(idle)]]
  \/ /\ UNCHANGED idle
     /\ MoveTo(p, "dial")

\* The head of acquire's reuse loop: the last idle connection, or a dial.
PopIdle(p) ==
  \/ /\ idle # <<>>
     /\ idle' = SubSeq(idle, 1, Len(idle) - 1)
     /\ call' = [call EXCEPT ![p].at = "ping", ![p].c = idle[Len(idle)]]
  \/ /\ idle = <<>>
     /\ UNCHANGED idle
     /\ MoveTo(p, "dial")

CheckIdle(p) ==
  /\ call[p].at = "slot"
  /\ \/ /\ closed
        /\ EndAttempt(p, FALSE)
        /\ UNCHANGED idle
     \/ /\ ~closed
        /\ PopIdle(p)
  /\ UNCHANGED <<limiterVars, adminVars, open, closed, live, peak>>

PingOK(p) == /\ call[p].at = "ping"
             /\ MoveTo(p, "use")
             /\ UNCHANGED <<limiterVars, poolVars, adminVars, peak>>

\* The connection is closed before the pool's lock is taken again ...
PingFails(p) == /\ call[p].at = "ping"
                /\ live' = live \ {call[p].c}
                /\ call' = [call EXCEPT ![p].at = "drop", ![p].c = NoConn]
                /\ UNCHANGED <<limiterVars, adminVars, idle, open, closed, peak>>

\* ... and the loop goes on, without looking at p.closed a second time.
TryNext(p) == /\ call[p].at = "drop"
              /\ open' = open - 1
              /\ PopIdle(p)
              /\ UNCHANGED <<limiterVars, adminVars, closed, live, peak>>

\* The identity of a new socket: any that no connected socket has.
Unused == Ids \ live

Dial(p) ==
  /\ call[p].at = "dial"
  /\ \/ LET c == CHOOSE i \in Unused : TRUE IN
          /\ Unused # {}
          /\ live' = live \cup {c}
          /\ call' = [call EXCEPT ![p].at = "auth", ![p].c = c]
     \/ /\ EndAttempt(p, TRUE)
        /\ UNCHANGED live
  /\ UNCHANGED <<limiterVars, adminVars, idle, open, closed, peak>>

Authenticate(p) ==
  /\ call[p].at = "auth"
  /\ \/ /\ open' = open + 1
        /\ MoveTo(p, "use")
        /\ UNCHANGED live
     \/ /\ live' = live \ {call[p].c}
        /\ EndAttempt(p, TRUE)
        /\ UNCHANGED open
  /\ UNCHANGED <<limiterVars, adminVars, idle, closed, peak>>

\* A mutant: release pools the connection even when the pool is closed.
KeepClosed(broken) == broken

\* release's condition for discarding instead of pooling.
Discards(broken) == closed \/ broken

\* fn returns and release runs its locked section.  fatal: isConnFatal(err),
\* so broken and tried again; spent: left in mid-response (bodyHeader).
Return(p, fatal, spent) ==
  /\ call[p].at = "use"
  /\ \/ /\ Discards(fatal \/ spent)
        /\ open' = open - 1
        /\ call' = [call EXCEPT ![p].at = "close", ![p].again = fatal]
        /\ UNCHANGED idle
     \/ /\ ~Discards(fatal \/ spent)
        /\ idle' = Append(idle, call[p].c)
        /\ EndAttempt(p, fatal)
        /\ UNCHANGED open
  /\ UNCHANGED <<limiterVars, adminVars, closed, live, peak>>

CloseConn(p) == /\ call[p].at = "close"
                /\ live' = live \ {call[p].c}
                /\ EndAttempt(p, call[p].again)
                /\ UNCHANGED <<limiterVars, adminVars, idle, open, closed, peak>>

\* sem.release, then the next attempt or the end of withConn.
FreeSlot(p) ==
  /\ call[p].at = "unslot"
  /\ GiveBack(p)
  /\ \/ /\ call[p].again
        /\ call[p].attempt < MaxRetries
        /\ call' = [call EXCEPT ![p].at = "acquire", ![p].attempt = @ + 1, ![p].again = FALSE]
     \/ /\ ~(call[p].again /\ call[p].attempt < MaxRetries)
        /\ call' = [call EXCEPT ![p] = NoCall]
  /\ UNCHANGED <<poolVars, adminVars, peak>>

Caller(p) == \/ TakeSlot(p) \/ CheckIdle(p) \/ PingOK(p) \/ PingFails(p)
             \/ TryNext(p) \/ Dial(p) \/ Authenticate(p)
             \/ \E fatal, spent \in BOOLEAN : Return(p, fatal, spent)
             \/ CloseConn(p) \/ FreeSlot(p)
-----------------------------------------------------------------------------
(* The administrator *)

\* Take every idle connection out of the pool, to be closed after the unlock.
TakeIdle == /\ doomed' = Idle
            /\ idle' = <<>>
            /\ open' = open - Len(idle)

Reconfigure(n) == /\ adminAt = "ready"
                  /\ ~closed
                  /\ admins < MaxAdmin
                  /\ admins' = admins + 1
                  /\ TakeIdle
                  /\ adminAt' = "resize"
                  /\ adminN' = n
                  /\ UNCHANGED <<limiterVars, closed, live, call, peak>>

\* Pool.Resize: the ceiling only.
Resize(n) == /\ adminAt = "ready"
             /\ ~closed
             /\ admins < MaxAdmin
             /\ admins' = admins + 1
             /\ adminAt' = "resize"
             /\ adminN' = n
             /\ UNCHANGED <<limiterVars, poolVars, doomed, call, peak>>

ResizeSem == /\ adminAt = "resize"
             /\ SetLimit(adminN)
             /\ peak' = Greater(peak, limit')
             /\ adminAt' = "drain"
             /\ UNCHANGED <<poolVars, adminN, doomed, admins, call>>

Close == /\ adminAt = "ready"
         /\ ~closed
         /\ closed' = TRUE
         /\ TakeIdle
         /\ adminAt' = "drain"
         /\ UNCHANGED <<limiterVars, live, adminN, admins, call, peak>>

\* The close loop after the unlock, and the return when it is done.
CloseDoomed == /\ adminAt = "drain"
               /\ \/ \E c \in doomed : /\ live' = live \ {c}
                                       /\ doomed' = doomed \ {c}
                                       /\ UNCHANGED adminAt
                  \/ /\ doomed = {}
                     /\ adminAt' = "ready"
                     /\ UNCHANGED <<live, doomed>>
               /\ UNCHANGED <<limiterVars, idle, open, closed, adminN, admins, call, peak>>

Admin == \/ \E n \in Limits : Reconfigure(n) \/ Resize(n)
         \/ ResizeSem \/ Close \/ CloseDoomed

Next == \/ \E p \in Procs : Call(p) \/ GiveUp(p) \/ Caller(p)
        \/ Admin

Spec == Init /\ [][Next]_vars

(***************************************************************************)
(* Fairness: a caller that has a slot goes on, and an administrator call   *)
(* that began ends.  The first is an assumption about the server: only     *)
(* connecting has a time limit.  The greeting, AUTHINFO, the ping, QUIT    *)
(* and the operations set no deadline, so each must be answered, or its    *)
(* connection break, in the end.  Nobody has to call, and no waiting       *)
(* caller is promised the next slot.                                       *)
(***************************************************************************)
Fairness == /\ \A p \in Procs : WF_vars(Caller(p) /\ call[p].at # "acquire")
            /\ WF_vars(ResizeSem \/ CloseDoomed)

FairSpec == Spec /\ Fairness
-----------------------------------------------------------------------------
Calls == [at : Positions, c : Ids \cup {NoConn}, attempt : 0..MaxRetries, again : BOOLEAN]

TypeOK == /\ LimiterTypeOK
          /\ idle \in Seq(Ids)
          /\ open \in Int
          /\ closed \in BOOLEAN
          /\ live \subseteq Ids
          /\ call \in [Procs -> Calls]
          /\ adminAt \in {"ready", "resize", "drain"}
          /\ adminN \in Nat
          /\ doomed \subseteq Ids
          /\ admins \in Nat
          /\ peak \in Nat \ {0}

\* Stats is truthful: p.open is the idle connections plus the ones being
\* pinged, discarded or used, through every retry, discard, Reconfigure and
\* Close.
OpenCount == open = Len(idle) + Cardinality(CountedOut)

\* Every connected socket has exactly one owner - the idle stack, one caller
\* or the administrator that will close it - so none is shared by two
\* operations, used after its close, or leaked.
OwnedOnce ==
  /\ live = Idle \cup {call[p].c : p \in HandsOn} \cup doomed
  /\ \A i, j \in DOMAIN idle : i # j => idle[i] # idle[j]
  /\ \A p, q \in HandsOn : p # q => call[p].c # call[q].c
  /\ Idle \cap doomed = {}
  /\ \A p \in HandsOn : call[p].c \notin Idle \cup doomed

\* The provider's budget: the sockets that no administrator call is already
\* closing never outnumber the largest limit that was in force - in
\* particular, never the limit itself while it is not changed - although
\* acquire dials after the pool's lock is released and without looking at
\* p.open.
SocketBudget == Cardinality(live \ doomed) <= peak

\* A pool that is closed (its server removed, or shutdown) ends up with no
\* socket open, including the ones callers were dialling or using meanwhile.
ClosedPoolDrains == closed ~> [](live = {})
=============================================================================
