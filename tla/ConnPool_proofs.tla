--------------------------- MODULE ConnPool_proofs ---------------------------
(***************************************************************************)
(* The connection pool keeps its books, for any callers, limits, sockets   *)
(* and any number of administrator calls: every socket has one owner,      *)
(* p.open counts what it says, and the sockets never outnumber the largest *)
(* limit that was in force.                                                *)
(***************************************************************************)
EXTENDS ConnPool, FiniteSetTheorems, TLAPS

\* A caller is past its semaphore exactly when it holds a slot.
SlotHeld == holders = {p \in Procs : call[p].at \notin {"out", "acquire"}}

\* No more slots are out than the largest limit that was in force.
SlotBudget == limit <= peak /\ Cardinality(holders) <= peak

\* The idle connections and the callers that have one, or are about to dial
\* one, fit the budget.  A caller dials only after it found the stack empty,
\* so the callers that are bound to dial count as if they had a connection.
Room == Len(idle) + Cardinality(Committed) <= peak

\* Between two administrator calls nothing is left to be closed.
AdminDone == adminAt = "ready" => doomed = {}

IInv == /\ TypeOK /\ SlotHeld /\ SlotBudget /\ Room /\ AdminDone
        /\ OpenCount /\ OwnedOnce
-----------------------------------------------------------------------------
(* Counting callers by their position *)

One(b) == IF b THEN 1 ELSE 0
In(T) == {p \in Procs : call[p].at \in T}

\* A caller that moves enters or leaves a set of positions alone.
LEMMA MoveCounts ==
  ASSUME NEW T, NEW p \in Procs, \A q \in Procs \ {p} : call'[q] = call[q]
  PROVE  /\ Cardinality(In(T)) \in Nat
         /\ Cardinality(In(T)') = Cardinality(In(T)) + One(call'[p].at \in T)
                                                     - One(call[p].at \in T)
<1>1. IsFiniteSet(In(T)) /\ IsFiniteSet(In(T)')
  <2>1. In(T) \in SUBSET Procs /\ In(T)' \in SUBSET Procs
    BY DEF In
  <2>2. QED BY <2>1, LimiterAssumption, FS_Subset
<1>2. Cardinality(In(T)) \in Nat
  BY <1>1, FS_CardinalityType
<1>3. CASE call[p].at \in T <=> call'[p].at \in T
  <2>1. In(T)' = In(T)
    BY <1>3 DEF In
  <2>2. QED BY <1>2, <1>3, <2>1 DEF One
<1>4. CASE call[p].at \in T /\ call'[p].at \notin T
  <2>1. In(T)' = In(T) \ {p} /\ p \in In(T)
    BY <1>4 DEF In
  <2>2. Cardinality(In(T)') = Cardinality(In(T)) - 1
    BY <1>1, <2>1, FS_RemoveElement
  <2>3. QED BY <1>2, <1>4, <2>2 DEF One
<1>5. CASE call[p].at \notin T /\ call'[p].at \in T
  <2>1. In(T)' = In(T) \cup {p} /\ p \notin In(T)
    BY <1>5 DEF In
  <2>2. Cardinality(In(T)') = Cardinality(In(T)) + 1
    BY <1>1, <2>1, FS_AddElement
  <2>3. QED BY <1>2, <1>5, <2>2 DEF One
<1>6. QED BY <1>3, <1>4, <1>5

CommittedAt == {"ping", "drop", "dial", "auth", "use", "close"}
HandsAt == {"ping", "auth", "use", "close"}
CountedAt == {"ping", "drop", "use"}

LEMMA MoveSets ==
  ASSUME NEW p \in Procs, \A q \in Procs \ {p} : call'[q] = call[q]
  PROVE  /\ Cardinality(Committed) \in Nat
         /\ Cardinality(Committed') = Cardinality(Committed) + One(call'[p].at \in CommittedAt)
                                                             - One(call[p].at \in CommittedAt)
         /\ Cardinality(CountedOut) \in Nat
         /\ Cardinality(CountedOut') = Cardinality(CountedOut) + One(call'[p].at \in CountedAt)
                                                               - One(call[p].at \in CountedAt)
         /\ HandsOn' = IF call'[p].at \in HandsAt THEN HandsOn \cup {p} ELSE HandsOn \ {p}
         /\ p \in HandsOn <=> call[p].at \in HandsAt
<1>1. Committed = In(CommittedAt) /\ CountedOut = In(CountedAt)
  BY DEF Committed, CountedOut, In, CommittedAt, CountedAt
<1>2. Committed' = In(CommittedAt)' /\ CountedOut' = In(CountedAt)'
  BY DEF Committed, CountedOut, In, CommittedAt, CountedAt
<1>3. /\ HandsOn' = IF call'[p].at \in HandsAt THEN HandsOn \cup {p} ELSE HandsOn \ {p}
      /\ p \in HandsOn <=> call[p].at \in HandsAt
  BY DEF HandsOn, HandsAt
<1>4. QED BY <1>1, <1>2, <1>3, MoveCounts

LEMMA SameSets ==
  ASSUME UNCHANGED call
  PROVE  Committed' = Committed /\ CountedOut' = CountedOut /\ HandsOn' = HandsOn
  BY DEF Committed, CountedOut, HandsOn
-----------------------------------------------------------------------------
(* The stack of idle connections *)

LEMMA StackPop ==
  ASSUME idle \in Seq(Ids), idle # <<>>, idle' = SubSeq(idle, 1, Len(idle) - 1),
         \A i, j \in DOMAIN idle : i # j => idle[i] # idle[j]
  PROVE  /\ idle' \in Seq(Ids) /\ Len(idle') = Len(idle) - 1 /\ Len(idle) \in Nat
         /\ idle[Len(idle)] \in Idle /\ Idle' = Idle \ {idle[Len(idle)]}
         /\ \A i, j \in DOMAIN idle' : i # j => idle'[i] # idle'[j]
<1>1. Len(idle) \in Nat /\ Len(idle) > 0 /\ DOMAIN idle = 1..Len(idle)
  OBVIOUS
<1>2. /\ idle' \in Seq(Ids) /\ Len(idle') = Len(idle) - 1
      /\ DOMAIN idle' = 1..(Len(idle) - 1)
      /\ \A i \in 1..(Len(idle) - 1) : idle'[i] = idle[i]
  BY <1>1
<1>3. idle[Len(idle)] \in Idle
  BY <1>1 DEF Idle
<1>4. ASSUME NEW c \in Idle \ {idle[Len(idle)]} PROVE c \in Idle'
  <2>1. PICK i \in DOMAIN idle : c = idle[i]
    BY DEF Idle
  <2>2. i \in 1..(Len(idle) - 1)
    BY <1>1, <1>4, <2>1
  <2>3. QED BY <1>2, <2>1, <2>2 DEF Idle
<1>5. ASSUME NEW c \in Idle' PROVE c \in Idle \ {idle[Len(idle)]}
  <2> DEFINE n == Len(idle)
  <2>1. PICK i \in 1..(n - 1) : c = idle[i]
    BY <1>2 DEF Idle
  <2>2. i \in 1..n /\ n \in 1..n /\ i # n
    <3>1. n \in Nat /\ n > 0
      BY <1>1
    <3> HIDE DEF n
    <3>2. QED BY <2>1, <3>1
  <2>3. QED BY <1>1, <2>1, <2>2 DEF Idle
<1>6. \A i, j \in DOMAIN idle' : i # j => idle'[i] # idle'[j]
  BY <1>1, <1>2
<1>7. QED BY <1>1, <1>2, <1>3, <1>4, <1>5, <1>6

LEMMA StackPush ==
  ASSUME idle \in Seq(Ids), NEW c \in Ids, c \notin Idle, idle' = Append(idle, c),
         \A i, j \in DOMAIN idle : i # j => idle[i] # idle[j]
  PROVE  /\ idle' \in Seq(Ids) /\ Len(idle') = Len(idle) + 1 /\ Len(idle) \in Nat
         /\ Idle' = Idle \cup {c}
         /\ \A i, j \in DOMAIN idle' : i # j => idle'[i] # idle'[j]
<1>1. /\ idle' \in Seq(Ids) /\ Len(idle) \in Nat /\ Len(idle') = Len(idle) + 1
      /\ DOMAIN idle = 1..Len(idle) /\ DOMAIN idle' = 1..(Len(idle) + 1)
      /\ \A i \in 1..Len(idle) : idle'[i] = idle[i]
      /\ idle'[Len(idle) + 1] = c
  OBVIOUS
<1>2. \A i \in DOMAIN idle : idle[i] # c
  BY DEF Idle
<1>3. \A i, j \in DOMAIN idle' : i # j => idle'[i] # idle'[j]
  <2> SUFFICES ASSUME NEW i \in 1..(Len(idle) + 1), NEW j \in 1..(Len(idle) + 1), i # j
               PROVE  idle'[i] # idle'[j]
    BY <1>1
  <2>1. CASE i \in 1..Len(idle) /\ j \in 1..Len(idle)
    BY <1>1, <2>1
  <2>2. CASE i = Len(idle) + 1 \/ j = Len(idle) + 1
    BY <1>1, <1>2, <2>2
  <2>3. QED BY <1>1, <2>1, <2>2
<1>4. ASSUME NEW d \in Idle' PROVE d \in Idle \cup {c}
  <2>1. PICK i \in 1..(Len(idle) + 1) : d = idle'[i]
    BY <1>1 DEF Idle
  <2>2. CASE i \in 1..Len(idle)
    BY <1>1, <2>1, <2>2 DEF Idle
  <2>3. CASE i = Len(idle) + 1
    BY <1>1, <2>1, <2>3
  <2>4. QED BY <1>1, <2>2, <2>3
<1>5. ASSUME NEW d \in Idle \cup {c} PROVE d \in Idle'
  <2>1. PICK i \in 1..(Len(idle) + 1) : d = idle'[i]
    BY <1>1, <1>5 DEF Idle
  <2>2. QED BY <1>1, <2>1 DEF Idle
<1>6. QED BY <1>1, <1>3, <1>4, <1>5
-----------------------------------------------------------------------------
(* Who owns the sockets *)

LEMMA Moves ==
  ASSUME call \in [Procs -> Calls], NEW p \in Procs, NEW at \in Positions
  PROVE  /\ MoveTo(p, at) => /\ call' \in [Procs -> Calls]
                             /\ call'[p].at = at /\ call'[p].c = call[p].c
                             /\ \A q \in Procs \ {p} : call'[q] = call[q]
         /\ \A c \in Ids \cup {NoConn} :
              call' = [call EXCEPT ![p].at = at, ![p].c = c] =>
                /\ call' \in [Procs -> Calls]
                /\ call'[p].at = at /\ call'[p].c = c
                /\ \A q \in Procs \ {p} : call'[q] = call[q]
         /\ \A again \in BOOLEAN :
              call' = [call EXCEPT ![p].at = at, ![p].again = again] =>
                /\ call' \in [Procs -> Calls]
                /\ call'[p].at = at /\ call'[p].c = call[p].c
                /\ \A q \in Procs \ {p} : call'[q] = call[q]
         /\ call' = [call EXCEPT ![p] = NoCall] =>
              /\ call' \in [Procs -> Calls]
              /\ call'[p].at = "out"
              /\ \A q \in Procs \ {p} : call'[q] = call[q]
<1>1. ASSUME MoveTo(p, at)
      PROVE  /\ call' \in [Procs -> Calls]
             /\ call'[p].at = at /\ call'[p].c = call[p].c
             /\ \A q \in Procs \ {p} : call'[q] = call[q]
  BY <1>1 DEF MoveTo, Calls
<1>2. ASSUME NEW c \in Ids \cup {NoConn}, call' = [call EXCEPT ![p].at = at, ![p].c = c]
      PROVE  /\ call' \in [Procs -> Calls]
             /\ call'[p].at = at /\ call'[p].c = c
             /\ \A q \in Procs \ {p} : call'[q] = call[q]
  BY <1>2 DEF Calls
<1>3. ASSUME NEW again \in BOOLEAN, call' = [call EXCEPT ![p].at = at, ![p].again = again]
      PROVE  /\ call' \in [Procs -> Calls]
             /\ call'[p].at = at /\ call'[p].c = call[p].c
             /\ \A q \in Procs \ {p} : call'[q] = call[q]
  BY <1>3 DEF Calls
<1>4. ASSUME call' = [call EXCEPT ![p] = NoCall]
      PROVE  /\ call' \in [Procs -> Calls]
             /\ call'[p].at = "out"
             /\ \A q \in Procs \ {p} : call'[q] = call[q]
  <2>1. NoCall \in Calls /\ NoCall.at = "out"
    BY PoolAssumption DEF NoCall, Calls, Positions
  <2>2. QED BY <1>4, <2>1
<1>5. QED BY <1>1, <1>2, <1>3, <1>4

LEMMA EndMoves ==
  ASSUME call \in [Procs -> Calls], NEW p \in Procs, NEW again \in BOOLEAN,
         EndAttempt(p, again)
  PROVE  /\ call' \in [Procs -> Calls]
         /\ call'[p].at = "unslot"
         /\ \A q \in Procs \ {p} : call'[q] = call[q]
  BY DEF EndAttempt, Calls, Positions

\* No socket changes hands: p keeps its own, or has none before and after.
LEMMA NoSocketMoves ==
  ASSUME OwnedOnce, NEW p \in Procs, \A q \in Procs \ {p} : call'[q] = call[q],
         call'[p].at \in HandsAt <=> call[p].at \in HandsAt,
         call'[p].at \in HandsAt => call'[p].c = call[p].c,
         UNCHANGED <<idle, live, doomed>>
  PROVE  OwnedOnce'
<1>1. HandsOn' = HandsOn /\ \A q \in HandsOn : q \in Procs /\ call'[q].c = call[q].c
  BY MoveSets DEF HandsOn, HandsAt
<1>2. Idle' = Idle
  BY DEF Idle
<1>3. QED BY <1>1, <1>2 DEF OwnedOnce

\* p closes the socket it has in hand.
LEMMA SocketCloses ==
  ASSUME OwnedOnce, NEW p \in Procs, \A q \in Procs \ {p} : call'[q] = call[q],
         call[p].at \in HandsAt, call'[p].at \notin HandsAt,
         live' = live \ {call[p].c}, UNCHANGED <<idle, doomed>>
  PROVE  OwnedOnce'
<1>1. HandsOn' = HandsOn \ {p} /\ p \in HandsOn /\ \A q \in HandsOn' : call'[q].c = call[q].c
  BY MoveSets DEF HandsOn
<1>2. Idle' = Idle
  BY DEF Idle
<1>3. QED BY <1>1, <1>2 DEF OwnedOnce

\* p dials a socket nobody has.
LEMMA SocketDials ==
  ASSUME OwnedOnce, NEW p \in Procs, \A q \in Procs \ {p} : call'[q] = call[q],
         call[p].at \notin HandsAt, call'[p].at \in HandsAt, call'[p].c \notin live,
         live' = live \cup {call'[p].c}, UNCHANGED <<idle, doomed>>
  PROVE  OwnedOnce'
<1>1. /\ HandsOn' = HandsOn \cup {p} /\ p \notin HandsOn
      /\ \A q \in HandsOn : q \in Procs /\ call'[q].c = call[q].c
  BY MoveSets DEF HandsOn
<1>2. Idle' = Idle
  BY DEF Idle
<1>3. QED BY <1>1, <1>2 DEF OwnedOnce

\* p takes the top of the stack.
LEMMA SocketPops ==
  ASSUME OwnedOnce, idle \in Seq(Ids), NEW p \in Procs,
         \A q \in Procs \ {p} : call'[q] = call[q],
         call[p].at \notin HandsAt, call'[p].at \in HandsAt, call'[p].c = idle[Len(idle)],
         idle # <<>>, idle' = SubSeq(idle, 1, Len(idle) - 1), UNCHANGED <<live, doomed>>
  PROVE  OwnedOnce'
<1>1. /\ HandsOn' = HandsOn \cup {p} /\ p \notin HandsOn
      /\ \A q \in HandsOn : q \in Procs /\ call'[q].c = call[q].c
  BY MoveSets DEF HandsOn
<1>2. /\ call'[p].c \in Idle /\ Idle' = Idle \ {call'[p].c}
      /\ \A i, j \in DOMAIN idle' : i # j => idle'[i] # idle'[j]
  BY StackPop DEF OwnedOnce
<1>3. QED BY <1>1, <1>2 DEF OwnedOnce

\* p puts its connection on the stack.
LEMMA SocketPools ==
  ASSUME OwnedOnce, idle \in Seq(Ids), live \subseteq Ids, NEW p \in Procs,
         \A q \in Procs \ {p} : call'[q] = call[q],
         call[p].at \in HandsAt, call'[p].at \notin HandsAt,
         idle' = Append(idle, call[p].c), UNCHANGED <<live, doomed>>
  PROVE  OwnedOnce'
<1>1. HandsOn' = HandsOn \ {p} /\ p \in HandsOn /\ \A q \in HandsOn' : call'[q].c = call[q].c
  BY MoveSets DEF HandsOn
<1>2. call[p].c \in Ids /\ call[p].c \notin Idle
  BY <1>1 DEF OwnedOnce
<1>3. /\ Idle' = Idle \cup {call[p].c}
      /\ \A i, j \in DOMAIN idle' : i # j => idle'[i] # idle'[j]
  BY <1>2, StackPush DEF OwnedOnce
<1>4. QED BY <1>1, <1>3 DEF OwnedOnce
-----------------------------------------------------------------------------
(* The invariant is kept *)

Accounts == SlotHeld /\ SlotBudget /\ Room /\ OpenCount

\* p moves while the semaphore and the stack stay as they are.
LEMMA CallerAccounts ==
  ASSUME TypeOK, Accounts, NEW p \in Procs, \A q \in Procs \ {p} : call'[q] = call[q],
         call' \in [Procs -> Calls],
         call[p].at \notin {"out", "acquire"} <=> call'[p].at \notin {"out", "acquire"},
         call'[p].at \in CommittedAt => call[p].at \in CommittedAt,
         open' = open + One(call'[p].at \in CountedAt) - One(call[p].at \in CountedAt),
         UNCHANGED <<limiterVars, idle, peak>>
  PROVE  Accounts'
<1> USE MoveSets DEF Accounts, limiterVars
<1>1. SlotHeld'
  BY DEF SlotHeld
<1>2. SlotBudget'
  BY DEF SlotBudget
<1>3. Len(idle) \in Nat /\ peak \in Nat
  BY DEF TypeOK
<1>4. Room'
  BY <1>3 DEF Room, One
<1>5. OpenCount'
  BY <1>3 DEF OpenCount, One, TypeOK
<1>6. QED BY <1>1, <1>2, <1>4, <1>5

\* The reuse loop of acquire: from "slot", or from "drop" with p.open lowered.
LEMMA PopIdleKeeps ==
  ASSUME IInv, NEW p \in Procs, call[p].at \in {"slot", "drop"}, PopIdle(p),
         open' = open - One(call[p].at \in CountedAt),
         UNCHANGED <<limiterVars, adminVars, closed, live, peak>>
  PROVE  IInv'
<1>1. CASE idle # <<>>
  <2>1. idle[Len(idle)] \in Ids
    BY <1>1 DEF IInv, TypeOK
  <2>2. /\ idle' = SubSeq(idle, 1, Len(idle) - 1)
        /\ call' = [call EXCEPT ![p].at = "ping", ![p].c = idle[Len(idle)]]
    BY <1>1 DEF PopIdle
  <2>3. /\ call' \in [Procs -> Calls]
        /\ call'[p].at = "ping" /\ call'[p].c = idle[Len(idle)]
        /\ \A q \in Procs \ {p} : call'[q] = call[q]
    BY <2>1, <2>2, Moves DEF IInv, TypeOK, Positions
  <2>4. OwnedOnce'
    BY <1>1, <2>2, <2>3, SocketPops DEF IInv, TypeOK, adminVars, HandsAt
  <2>5. idle' \in Seq(Ids) /\ Len(idle') = Len(idle) - 1 /\ Len(idle) \in Nat
    BY <1>1, <2>2, StackPop DEF IInv, TypeOK, OwnedOnce
  <2>6. TypeOK'
    BY <2>3, <2>5 DEF IInv, TypeOK, LimiterTypeOK, limiterVars, adminVars, One
  <2>7. SlotHeld' /\ SlotBudget' /\ AdminDone'
    BY <2>3 DEF IInv, SlotHeld, SlotBudget, AdminDone, limiterVars, adminVars
  <2>8. /\ Cardinality(Committed) \in Nat /\ Cardinality(CountedOut) \in Nat
        /\ Cardinality(Committed') <= Cardinality(Committed) + 1
        /\ Cardinality(CountedOut') = Cardinality(CountedOut) + 1 - One(call[p].at \in CountedAt)
    <3>1. call'[p].at \in CommittedAt /\ call'[p].at \in CountedAt
      BY <2>3 DEF CommittedAt, CountedAt
    <3>2. One(call'[p].at \in CommittedAt) = 1 /\ One(call'[p].at \in CountedAt) = 1
      BY <3>1 DEF One
    <3>3. One(call[p].at \in CommittedAt) \in {0, 1} /\ One(call[p].at \in CountedAt) \in {0, 1}
      BY DEF One
    <3>4. QED BY <2>3, <3>2, <3>3, MoveSets
  <2>9. Room' /\ OpenCount'
    <3>1. One(call[p].at \in CountedAt) \in {0, 1} /\ peak \in Nat /\ open \in Int
      BY DEF One, IInv, TypeOK
    <3>2. Cardinality(Committed') \in Nat
      BY <2>5, <2>8, FS_CardinalityType, LimiterAssumption, FS_Subset DEF Committed
    <3>3. peak' = peak
      OBVIOUS
    <3>4. Room'
      BY <2>5, <2>8, <3>1, <3>2, <3>3 DEF IInv, Room
    <3>5. OpenCount'
      BY <2>5, <2>8, <3>1 DEF IInv, OpenCount
    <3>6. QED BY <3>4, <3>5
  <2>10. QED BY <2>4, <2>6, <2>7, <2>9 DEF IInv
<1>2. CASE idle = <<>>
  <2>1. /\ call' \in [Procs -> Calls]
        /\ call'[p].at = "dial"
        /\ \A q \in Procs \ {p} : call'[q] = call[q]
        /\ UNCHANGED idle
    BY <1>2, Moves DEF PopIdle, IInv, TypeOK, Positions
  <2>2. OwnedOnce'
    BY <2>1, NoSocketMoves DEF IInv, adminVars, HandsAt
  <2>3. TypeOK'
    BY <2>1 DEF IInv, TypeOK, LimiterTypeOK, limiterVars, adminVars, One
  <2>4. SlotHeld' /\ SlotBudget' /\ AdminDone'
    BY <2>1 DEF IInv, SlotHeld, SlotBudget, AdminDone, limiterVars, adminVars
  <2>5. Room'
    <3>1. Committed' \in SUBSET holders' /\ IsFiniteSet(holders')
      <4>1. Committed' \subseteq holders'
        BY <2>4 DEF SlotHeld, Committed
      <4>2. QED BY <2>3, <4>1, LimiterAssumption, FS_Subset DEF TypeOK, LimiterTypeOK
    <3>2. Cardinality(Committed') <= Cardinality(holders') /\ Cardinality(Committed') \in Nat
          /\ Cardinality(holders') \in Nat
      BY <3>1, FS_Subset, FS_CardinalityType
    <3>3. Len(idle') = 0
      BY <1>2, <2>1
    <3>4. QED BY <2>3, <2>4, <3>2, <3>3 DEF Room, SlotBudget, TypeOK
  <2>6. OpenCount'
    <3>1. One(call[p].at \in CountedAt) \in {0, 1} /\ One(call'[p].at \in CountedAt) = 0
      BY <2>1 DEF One, CountedAt
    <3>2. open \in Int /\ Len(idle) \in Nat
      BY DEF IInv, TypeOK
    <3>3. QED BY <2>1, <3>1, <3>2, MoveSets DEF IInv, OpenCount
  <2>7. QED BY <2>2, <2>3, <2>4, <2>5, <2>6 DEF IInv
<1>3. QED BY <1>1, <1>2

\* The other steps of a caller that take or give back no slot.
LEMMA CallerKeeps ==
  ASSUME IInv, NEW p \in Procs,
         \/ Call(p) \/ GiveUp(p) \/ CheckIdle(p) \/ PingOK(p) \/ PingFails(p) \/ TryNext(p)
         \/ Dial(p) \/ Authenticate(p) \/ CloseConn(p)
  PROVE  IInv'
<1> USE DEF IInv, Positions, poolVars
<1> DEFINE Others == call' \in [Procs -> Calls] /\ \A q \in Procs \ {p} : call'[q] = call[q]
<1>0. TypeOK /\ call \in [Procs -> Calls] /\ call[p].again \in BOOLEAN
  BY DEF TypeOK, Calls
<1>a. ASSUME Others, UNCHANGED <<limiterVars, adminVars, idle, closed, peak>>,
             open' \in Int, live' \subseteq Ids, OwnedOnce',
             call[p].at \notin {"out", "acquire"} <=> call'[p].at \notin {"out", "acquire"},
             call'[p].at \in CommittedAt => call[p].at \in CommittedAt,
             open' = open + One(call'[p].at \in CountedAt) - One(call[p].at \in CountedAt)
      PROVE  IInv'
  <2>1. Accounts'
    BY <1>0, <1>a, CallerAccounts DEF Accounts
  <2>2. TypeOK' /\ AdminDone'
    BY <1>a DEF TypeOK, AdminDone, LimiterTypeOK, limiterVars, adminVars
  <2>3. QED BY <1>a, <2>1, <2>2 DEF Accounts
<1>1. CASE Call(p)
  <2>1. Others /\ call'[p].at = "acquire" /\ call[p].at = "out"
    BY <1>0, <1>1, Moves DEF Call
  <2>2. OwnedOnce'
    BY <1>1, <2>1, NoSocketMoves DEF Call, adminVars, HandsAt
  <2>3. QED BY <1>a, <1>1, <2>1, <2>2 DEF Call, TypeOK, One, CommittedAt, CountedAt
<1>2. CASE GiveUp(p)
  <2>1. Others /\ call'[p].at = "out" /\ call[p].at = "acquire"
    BY <1>0, <1>2, Moves DEF GiveUp
  <2>2. OwnedOnce'
    BY <1>2, <2>1, NoSocketMoves DEF GiveUp, adminVars, HandsAt
  <2>3. QED BY <1>a, <1>2, <2>1, <2>2 DEF GiveUp, TypeOK, One, CommittedAt, CountedAt
<1>3. CASE CheckIdle(p)
  <2>1. CASE closed /\ EndAttempt(p, FALSE) /\ UNCHANGED idle
    <3>1. Others /\ call'[p].at = "unslot" /\ call[p].at = "slot"
      BY <1>0, <1>3, <2>1, EndMoves DEF CheckIdle
    <3>2. OwnedOnce'
      BY <1>3, <2>1, <3>1, NoSocketMoves DEF CheckIdle, adminVars, HandsAt
    <3>3. QED BY <1>a, <1>3, <2>1, <3>1, <3>2 DEF CheckIdle, TypeOK, One, CommittedAt, CountedAt
  <2>2. CASE PopIdle(p)
    <3>1. open' = open - One(call[p].at \in CountedAt) /\ call[p].at = "slot"
      BY <1>3 DEF CheckIdle, One, CountedAt, TypeOK
    <3>2. QED BY <1>3, <2>2, <3>1, PopIdleKeeps DEF CheckIdle
  <2>3. QED BY <1>3, <2>1, <2>2 DEF CheckIdle
<1>4. CASE PingOK(p)
  <2>1. Others /\ call'[p].at = "use" /\ call[p].at = "ping" /\ call'[p].c = call[p].c
    BY <1>0, <1>4, Moves DEF PingOK
  <2>2. OwnedOnce'
    BY <1>4, <2>1, NoSocketMoves DEF PingOK, adminVars, HandsAt
  <2>3. QED BY <1>a, <1>4, <2>1, <2>2 DEF PingOK, TypeOK, One, CommittedAt, CountedAt
<1>5. CASE PingFails(p)
  <2>1. Others /\ call'[p].at = "drop" /\ call[p].at = "ping"
    BY <1>0, <1>5, Moves DEF PingFails
  <2>2. OwnedOnce'
    BY <1>5, <2>1, SocketCloses DEF PingFails, adminVars, HandsAt
  <2>3. QED BY <1>a, <1>5, <2>1, <2>2 DEF PingFails, TypeOK, One, CommittedAt, CountedAt
<1>6. CASE TryNext(p)
  <2>1. open' = open - One(call[p].at \in CountedAt) /\ call[p].at = "drop"
    BY <1>6 DEF TryNext, One, CountedAt, TypeOK
  <2>2. QED BY <1>6, <2>1, PopIdleKeeps DEF TryNext
<1>7. CASE Dial(p)
  <2>1. CASE EndAttempt(p, TRUE) /\ UNCHANGED live
    <3>1. Others /\ call'[p].at = "unslot" /\ call[p].at = "dial"
      BY <1>0, <1>7, <2>1, EndMoves DEF Dial
    <3>2. OwnedOnce'
      BY <1>7, <2>1, <3>1, NoSocketMoves DEF Dial, adminVars, HandsAt
    <3>3. QED BY <1>a, <1>7, <2>1, <3>1, <3>2 DEF Dial, TypeOK, One, CommittedAt, CountedAt
  <2>2. ASSUME NEW c \in Unused, live' = live \cup {c},
               call' = [call EXCEPT ![p].at = "auth", ![p].c = c]
        PROVE  IInv'
    <3>1. Others /\ call'[p].at = "auth" /\ call'[p].c = c /\ call[p].at = "dial"
      BY <1>0, <1>7, <2>2, Moves DEF Dial, Unused
    <3>2. OwnedOnce'
      BY <1>7, <2>2, <3>1, SocketDials DEF Dial, adminVars, HandsAt, Unused
    <3>3. QED
      BY <1>a, <1>7, <2>2, <3>1, <3>2 DEF Dial, TypeOK, One, CommittedAt, CountedAt, Unused
  <2>3. QED BY <1>7, <2>1, <2>2 DEF Dial
<1>8. CASE Authenticate(p)
  <2>1. CASE open' = open + 1 /\ MoveTo(p, "use") /\ UNCHANGED live
    <3>1. Others /\ call'[p].at = "use" /\ call[p].at = "auth" /\ call'[p].c = call[p].c
      BY <1>0, <1>8, <2>1, Moves DEF Authenticate
    <3>2. OwnedOnce'
      BY <1>8, <2>1, <3>1, NoSocketMoves DEF Authenticate, adminVars, HandsAt
    <3>3. QED
      BY <1>a, <1>8, <2>1, <3>1, <3>2 DEF Authenticate, TypeOK, One, CommittedAt, CountedAt
  <2>2. CASE live' = live \ {call[p].c} /\ EndAttempt(p, TRUE) /\ UNCHANGED open
    <3>1. Others /\ call'[p].at = "unslot" /\ call[p].at = "auth"
      BY <1>0, <1>8, <2>2, EndMoves DEF Authenticate
    <3>2. OwnedOnce'
      BY <1>8, <2>2, <3>1, SocketCloses DEF Authenticate, adminVars, HandsAt
    <3>3. QED
      BY <1>a, <1>8, <2>2, <3>1, <3>2 DEF Authenticate, TypeOK, One, CommittedAt, CountedAt
  <2>3. QED BY <1>8, <2>1, <2>2 DEF Authenticate
<1>9. CASE CloseConn(p)
  <2>1. Others /\ call'[p].at = "unslot" /\ call[p].at = "close"
    <3>1. EndAttempt(p, call[p].again)
      BY <1>9 DEF CloseConn
    <3>2. Others /\ call'[p].at = "unslot"
      BY <1>0, <3>1, EndMoves, Zenon
    <3>3. QED BY <1>9, <3>2 DEF CloseConn
  <2>2. OwnedOnce'
    BY <1>9, <2>1, SocketCloses DEF CloseConn, adminVars, HandsAt
  <2>3. QED BY <1>a, <1>9, <2>1, <2>2 DEF CloseConn, TypeOK, One, CommittedAt, CountedAt
<1>10. QED BY <1>1, <1>2, <1>3, <1>4, <1>5, <1>6, <1>7, <1>8, <1>9

\* release's locked section.
LEMMA ReturnKeeps ==
  ASSUME IInv, NEW p \in Procs, NEW fatal \in BOOLEAN, NEW spent \in BOOLEAN,
         Return(p, fatal, spent)
  PROVE  IInv'
<1> USE DEF IInv, Positions
<1>0. /\ TypeOK /\ call \in [Procs -> Calls]
      /\ call[p].at = "use"
      /\ UNCHANGED <<limiterVars, adminVars, closed, live, peak>>
  BY DEF TypeOK, Return
<1>1. CASE /\ open' = open - 1 /\ UNCHANGED idle
           /\ call' = [call EXCEPT ![p].at = "close", ![p].again = fatal]
  <2>1. /\ call' \in [Procs -> Calls] /\ call'[p].at = "close" /\ call'[p].c = call[p].c
        /\ \A q \in Procs \ {p} : call'[q] = call[q]
    BY <1>0, <1>1, Moves
  <2>2. OwnedOnce'
    BY <1>0, <1>1, <2>1, NoSocketMoves DEF adminVars, HandsAt
  <2>3. Accounts'
    <3>1. open' = open + One(call'[p].at \in CountedAt) - One(call[p].at \in CountedAt)
      BY <1>0, <1>1, <2>1 DEF One, CountedAt, TypeOK
    <3>2. QED BY <1>0, <1>1, <2>1, <3>1, CallerAccounts DEF Accounts, CommittedAt
  <2>4. TypeOK' /\ AdminDone'
    BY <1>0, <1>1, <2>1 DEF TypeOK, AdminDone, LimiterTypeOK, limiterVars, adminVars
  <2>5. QED BY <2>2, <2>3, <2>4 DEF Accounts
<1>2. CASE /\ idle' = Append(idle, call[p].c) /\ UNCHANGED open
           /\ EndAttempt(p, fatal)
  <2>1. /\ call' \in [Procs -> Calls] /\ call'[p].at = "unslot"
        /\ \A q \in Procs \ {p} : call'[q] = call[q]
    BY <1>0, <1>2 DEF EndAttempt, Calls
  <2>2. OwnedOnce'
    BY <1>0, <1>2, <2>1, SocketPools DEF adminVars, HandsAt, TypeOK
  <2>3. call[p].c \in Ids
    BY <1>0 DEF OwnedOnce, HandsOn, TypeOK
  <2>4. idle' \in Seq(Ids) /\ Len(idle') = Len(idle) + 1 /\ Len(idle) \in Nat
    BY <1>0, <1>2, <2>3 DEF TypeOK
  <2>5. TypeOK' /\ AdminDone'
    BY <1>0, <1>2, <2>1, <2>4 DEF TypeOK, AdminDone, LimiterTypeOK, limiterVars, adminVars
  <2>6. SlotHeld' /\ SlotBudget'
    BY <1>0, <2>1 DEF SlotHeld, SlotBudget, limiterVars
  <2>7. /\ Cardinality(Committed) \in Nat /\ Cardinality(CountedOut) \in Nat
        /\ Cardinality(Committed') = Cardinality(Committed) - 1
        /\ Cardinality(CountedOut') = Cardinality(CountedOut) - 1
    <3>1. /\ One(call[p].at \in CommittedAt) = 1 /\ One(call[p].at \in CountedAt) = 1
          /\ One(call'[p].at \in CommittedAt) = 0 /\ One(call'[p].at \in CountedAt) = 0
      BY <1>0, <2>1 DEF One, CommittedAt, CountedAt
    <3>2. QED BY <2>1, <3>1, MoveSets
  <2>8. Room' /\ OpenCount'
    BY <1>0, <1>2, <2>4, <2>7 DEF Room, OpenCount, TypeOK
  <2>9. QED BY <2>2, <2>5, <2>6, <2>8
<1>3. QED BY <1>1, <1>2 DEF Return

\* The semaphore's two operations.
LEMMA SlotKeeps ==
  ASSUME IInv, NEW p \in Procs, TakeSlot(p) \/ FreeSlot(p)
  PROVE  IInv'
<1> USE DEF IInv, Positions, poolVars
<1>0. /\ TypeOK /\ call \in [Procs -> Calls]
      /\ IsFiniteSet(holders) /\ Cardinality(holders) \in Nat
  <2>1. holders \in SUBSET Procs
    BY DEF TypeOK, LimiterTypeOK
  <2>2. QED BY <2>1, LimiterAssumption, FS_Subset, FS_CardinalityType DEF TypeOK
<1>a. ASSUME call' \in [Procs -> Calls], \A q \in Procs \ {p} : call'[q] = call[q],
             call[p].at \in {"acquire", "unslot"}, call'[p].at \in {"out", "acquire", "slot"},
             UNCHANGED <<poolVars, adminVars, peak, limit>>, holders' \subseteq Procs,
             SlotHeld', Cardinality(holders') <= peak
      PROVE  IInv'
  <2>1. OwnedOnce'
    BY <1>a, NoSocketMoves DEF adminVars, HandsAt
  <2>2. TypeOK' /\ AdminDone' /\ SlotBudget'
    BY <1>a DEF TypeOK, AdminDone, SlotBudget, LimiterTypeOK, adminVars
  <2>3. /\ One(call[p].at \in CommittedAt) = 0 /\ One(call[p].at \in CountedAt) = 0
        /\ One(call'[p].at \in CommittedAt) = 0 /\ One(call'[p].at \in CountedAt) = 0
    BY <1>a DEF One, CommittedAt, CountedAt
  <2>4. /\ Cardinality(Committed') = Cardinality(Committed)
        /\ Cardinality(CountedOut') = Cardinality(CountedOut)
    BY <1>a, <2>3, MoveSets
  <2>5. Room' /\ OpenCount'
    BY <1>a, <2>4 DEF Room, OpenCount
  <2>6. QED BY <1>a, <2>1, <2>2, <2>5
<1>1. CASE TakeSlot(p)
  <2>1. /\ call' \in [Procs -> Calls] /\ call'[p].at = "slot" /\ call[p].at = "acquire"
        /\ \A q \in Procs \ {p} : call'[q] = call[q]
    BY <1>0, <1>1, Moves DEF TakeSlot
  <2>2. /\ p \notin holders /\ Cardinality(holders) < limit /\ holders' = holders \cup {p}
        /\ UNCHANGED <<poolVars, adminVars, peak, limit>>
    BY <1>1 DEF TakeSlot, Grant, Free
  <2>3. Cardinality(holders') <= peak
    <3>1. Cardinality(holders') = Cardinality(holders) + 1
      BY <1>0, <2>2, FS_AddElement
    <3>2. QED BY <1>0, <2>2, <3>1 DEF SlotBudget, TypeOK, LimiterTypeOK
  <2>4. SlotHeld' /\ holders' \subseteq Procs
    BY <2>1, <2>2 DEF SlotHeld
  <2>5. QED BY <1>a, <2>1, <2>2, <2>3, <2>4
<1>2. CASE FreeSlot(p)
  <2>1. /\ call' \in [Procs -> Calls] /\ call'[p].at \in {"out", "acquire"}
        /\ call[p].at = "unslot"
        /\ \A q \in Procs \ {p} : call'[q] = call[q]
    <3>1. CASE call' = [call EXCEPT ![p] = NoCall]
      BY <1>0, <1>2, <3>1, Moves DEF FreeSlot
    <3>2. CASE /\ call[p].attempt < MaxRetries
               /\ call' = [call EXCEPT ![p].at = "acquire", ![p].attempt = @ + 1,
                                       ![p].again = FALSE]
      BY <1>0, <1>2, <3>2, PoolAssumption DEF FreeSlot, Calls
    <3>3. QED BY <1>2, <3>1, <3>2 DEF FreeSlot
  <2>2. /\ p \in holders /\ holders' = holders \ {p}
        /\ UNCHANGED <<poolVars, adminVars, peak, limit>>
    BY <1>2 DEF FreeSlot, GiveBack
  <2>3. Cardinality(holders') <= peak
    <3>1. Cardinality(holders') = Cardinality(holders) - 1
      BY <1>0, <2>2, FS_RemoveElement
    <3>2. QED BY <1>0, <2>2, <3>1 DEF SlotBudget, TypeOK, LimiterTypeOK
  <2>4. SlotHeld' /\ holders' \subseteq Procs
    BY <2>1, <2>2 DEF SlotHeld
  <2>5. QED BY <1>a, <2>1, <2>2, <2>3, <2>4
<1>3. QED BY <1>1, <1>2

\* Reconfigure and Close empty the stack at once and close afterwards what
\* they took from it.
LEMMA TakeIdleKeeps ==
  ASSUME IInv, adminAt = "ready", TakeIdle,
         adminAt' \in {"resize", "drain"}, adminN' \in Nat, admins' \in Nat, closed' \in BOOLEAN,
         UNCHANGED <<limiterVars, live, call, peak>>
  PROVE  IInv'
<1> USE DEF IInv
<1>1. doomed = {} /\ doomed' = Idle /\ idle' = <<>> /\ open' = open - Len(idle)
  BY DEF AdminDone, TakeIdle
<1>2. Committed' = Committed /\ CountedOut' = CountedOut /\ HandsOn' = HandsOn
  BY SameSets
<1>3. Idle \subseteq Ids /\ Len(idle) \in Nat /\ Idle' = {} /\ Len(idle') = 0
  <2>1. Idle' = {} /\ Len(idle') = 0
    BY <1>1 DEF Idle
  <2>2. ASSUME NEW i \in DOMAIN idle PROVE idle[i] \in Ids
    BY DEF TypeOK
  <2>3. QED BY <2>1, <2>2 DEF Idle, TypeOK
<1>4. OwnedOnce'
  <2>1. \A i, j \in DOMAIN idle' : i # j => idle'[i] # idle'[j]
    BY <1>1
  <2>2. QED BY <1>1, <1>2, <1>3, <2>1 DEF OwnedOnce
<1>5. TypeOK' /\ AdminDone'
  BY <1>1, <1>3 DEF TypeOK, AdminDone, LimiterTypeOK, limiterVars
<1>6. SlotHeld' /\ SlotBudget'
  BY DEF SlotHeld, SlotBudget, limiterVars
<1>7. Cardinality(Committed) \in Nat /\ Cardinality(CountedOut) \in Nat
  <2>1. Committed \in SUBSET Procs /\ CountedOut \in SUBSET Procs
    BY DEF Committed, CountedOut
  <2>2. QED BY <2>1, LimiterAssumption, FS_Subset, FS_CardinalityType
<1>8. Room' /\ OpenCount'
  BY <1>1, <1>2, <1>3, <1>7 DEF Room, OpenCount, TypeOK
<1>9. QED BY <1>4, <1>5, <1>6, <1>8

LEMMA AdminKeeps == ASSUME IInv, Admin PROVE IInv'
<1> USE DEF IInv
<1>0. TypeOK
  OBVIOUS
<1>a. ASSUME UNCHANGED <<idle, open, call, holders>>, peak' \in Nat \ {0}, peak <= peak',
             TypeOK', AdminDone', OwnedOnce', limit' <= peak'
      PROVE  IInv'
  <2>1. Committed' = Committed /\ CountedOut' = CountedOut
    BY <1>a, SameSets
  <2>2. /\ Cardinality(Committed) \in Nat /\ Cardinality(holders) \in Nat
        /\ Len(idle) \in Nat /\ peak \in Nat
    <3>1. Committed \in SUBSET Procs /\ holders \in SUBSET Procs
      BY DEF Committed, TypeOK, LimiterTypeOK
    <3>2. QED BY <3>1, LimiterAssumption, FS_Subset, FS_CardinalityType DEF TypeOK
  <2>3. Room' /\ SlotBudget'
    BY <1>a, <2>1, <2>2 DEF Room, SlotBudget
  <2>4. OpenCount' /\ SlotHeld'
    BY <1>a, <2>1 DEF OpenCount, SlotHeld
  <2>5. QED BY <1>a, <2>3, <2>4
<1>1. ASSUME NEW n \in Limits, Reconfigure(n) PROVE IInv'
  BY <1>1, TakeIdleKeeps, LimiterAssumption DEF Reconfigure, TypeOK
<1>2. CASE Close
  BY <1>2, TakeIdleKeeps DEF Close, TypeOK
<1>3. ASSUME NEW n \in Limits, Resize(n) PROVE IInv'
  <2>1. TypeOK' /\ AdminDone'
    BY <1>3, LimiterAssumption DEF Resize, TypeOK, AdminDone, LimiterTypeOK, limiterVars, poolVars
  <2>2. OwnedOnce'
    BY <1>3 DEF Resize, poolVars, OwnedOnce, Idle, HandsOn
  <2>3. QED BY <1>a, <1>3, <2>1, <2>2
            DEF Resize, poolVars, limiterVars, SlotBudget, TypeOK, LimiterTypeOK
<1>4. CASE ResizeSem
  <2>1. /\ limit' \in Nat \ {0} /\ peak' = Greater(peak, limit')
        /\ UNCHANGED <<holders, poolVars, adminN, doomed, admins, call>> /\ adminAt' = "drain"
    BY <1>4 DEF ResizeSem, SetLimit, AtLeastOne, TypeOK
  <2>2. peak' \in Nat \ {0} /\ peak <= peak' /\ limit' <= peak'
    BY <2>1 DEF Greater, TypeOK
  <2>3. TypeOK' /\ AdminDone'
    BY <2>1, <2>2 DEF TypeOK, AdminDone, LimiterTypeOK, poolVars
  <2>4. OwnedOnce'
    BY <2>1 DEF poolVars, OwnedOnce, Idle, HandsOn
  <2>5. QED BY <1>a, <2>1, <2>2, <2>3, <2>4 DEF poolVars
<1>5. CASE CloseDoomed
  <2>0. UNCHANGED <<limiterVars, idle, open, closed, adminN, admins, call, peak>>
    BY <1>5 DEF CloseDoomed
  <2>1. Idle' = Idle /\ HandsOn' = HandsOn
    BY <2>0 DEF Idle, HandsOn
  <2>2. CASE doomed = {} /\ adminAt' = "ready" /\ UNCHANGED <<live, doomed>>
    <3>1. TypeOK' /\ AdminDone'
      BY <2>0, <2>2 DEF TypeOK, AdminDone, LimiterTypeOK, limiterVars
    <3>2. OwnedOnce'
      BY <2>0, <2>1, <2>2 DEF OwnedOnce
    <3>3. QED BY <1>a, <2>0, <3>1, <3>2 DEF limiterVars, SlotBudget, TypeOK
  <2>3. ASSUME NEW c \in doomed, live' = live \ {c}, doomed' = doomed \ {c}, UNCHANGED adminAt
        PROVE  IInv'
    <3>1. TypeOK' /\ AdminDone'
      BY <2>0, <2>3 DEF TypeOK, AdminDone, LimiterTypeOK, limiterVars
    <3>2. OwnedOnce'
      BY <2>0, <2>1, <2>3 DEF OwnedOnce
    <3>3. QED BY <1>a, <2>0, <3>1, <3>2 DEF limiterVars, SlotBudget, TypeOK
  <2>4. QED BY <1>5, <2>2, <2>3 DEF CloseDoomed
<1>6. QED BY <1>1, <1>2, <1>3, <1>4, <1>5 DEF Admin
-----------------------------------------------------------------------------
(* The theorems *)

LEMMA InitInv == Init => IInv
<1> SUFFICES ASSUME Init PROVE IInv
  OBVIOUS
<1>1. limit \in Nat \ {0}
  BY LimiterAssumption DEF Init, LimiterInit, AtLeastOne
<1>2. TypeOK
  <2>1. NoCall \in Calls
    BY PoolAssumption DEF NoCall, Calls, Positions
  <2>2. call \in [Procs -> Calls] /\ idle \in Seq(Ids)
    BY <2>1 DEF Init
  <2>3. /\ open \in Int /\ live \subseteq Ids /\ doomed \subseteq Ids
        /\ adminAt \in {"ready", "resize", "drain"} /\ adminN \in Nat /\ admins \in Nat
    BY DEF Init
  <2>4. LimiterTypeOK /\ peak \in Nat \ {0}
    BY <1>1 DEF Init, LimiterInit, LimiterTypeOK
  <2>5. closed \in BOOLEAN
    BY Zenon DEF Init
  <2>6. QED BY <2>2, <2>3, <2>4, <2>5 DEF TypeOK
<1>3. \A p \in Procs : call[p].at = "out"
  BY DEF Init, NoCall
<1>4. Committed = {} /\ CountedOut = {} /\ HandsOn = {} /\ Idle = {}
  BY <1>3 DEF Init, Committed, CountedOut, HandsOn, Idle
<1>5. Cardinality({}) = 0
  BY FS_EmptySet
<1>6. SlotHeld /\ SlotBudget /\ AdminDone
  BY <1>1, <1>3, <1>5 DEF Init, LimiterInit, SlotHeld, SlotBudget, AdminDone
<1>7. Room /\ OpenCount
  BY <1>1, <1>4, <1>5 DEF Init, Room, OpenCount
<1>8. OwnedOnce
  BY <1>4 DEF Init, OwnedOnce
<1>9. QED BY <1>2, <1>6, <1>7, <1>8 DEF IInv

LEMMA InvStep == IInv /\ [Next]_vars => IInv'
<1> SUFFICES ASSUME IInv, [Next]_vars PROVE IInv'
  OBVIOUS
<1>1. CASE UNCHANGED vars
  <2>1. UNCHANGED <<limit, holders, idle, open, closed, live, call, adminAt, adminN, doomed,
                    admins, peak>>
    BY <1>1 DEF vars, limiterVars, poolVars, adminVars
  <2>2. Committed' = Committed /\ CountedOut' = CountedOut /\ HandsOn' = HandsOn /\ Idle' = Idle
    BY <2>1, SameSets DEF Idle
  <2>3. TypeOK' /\ SlotHeld' /\ SlotBudget' /\ AdminDone'
    BY <2>1 DEF IInv, TypeOK, LimiterTypeOK, SlotHeld, SlotBudget, AdminDone
  <2>4. Room' /\ OpenCount' /\ OwnedOnce'
    BY <2>1, <2>2 DEF IInv, Room, OpenCount, OwnedOnce
  <2>5. QED BY <2>3, <2>4 DEF IInv
<1>2. ASSUME NEW p \in Procs, Call(p) \/ GiveUp(p) \/ Caller(p) PROVE IInv'
  BY <1>2, CallerKeeps, ReturnKeeps, SlotKeeps DEF Caller
<1>3. QED BY <1>1, <1>2, AdminKeeps DEF Next

\* Every variable of the pool keeps its type; in particular a connection that
\* is put on the stack is a real one.
THEOREM TypeCorrect == Spec => []TypeOK
<1>1. IInv => TypeOK
  BY DEF IInv
<1>2. QED BY <1>1, InitInv, InvStep, PTL DEF Spec

\* p.open counts the idle connections and the ones being pinged, discarded or
\* used, through every retry, discard, Reconfigure and Close.
THEOREM OpenCounted == Spec => []OpenCount
<1>1. IInv => OpenCount
  BY DEF IInv
<1>2. QED BY <1>1, InitInv, InvStep, PTL DEF Spec

\* Every socket has one owner: acquire, release, Reconfigure and Close share
\* none, use none after its close and leak none.
THEOREM SocketsOwnedOnce == Spec => []OwnedOnce
<1>1. IInv => OwnedOnce
  BY DEF IInv
<1>2. QED BY <1>1, InitInv, InvStep, PTL DEF Spec

\* The sockets nobody is closing are those of the stack and those in a
\* caller's hand.
LEMMA SocketsCounted ==
  ASSUME IInv
  PROVE  SocketBudget
<1> USE DEF IInv
<1> DEFINE Hands == {call[p].c : p \in HandsOn}
<1>1. live \ doomed = Idle \cup Hands
  BY DEF OwnedOnce
<1>2. IsFiniteSet(Committed) /\ Cardinality(Committed) \in Nat
  <2>1. Committed \in SUBSET Procs
    BY DEF Committed
  <2>2. QED BY <2>1, LimiterAssumption, FS_Subset, FS_CardinalityType
<1>3. IsFiniteSet(HandsOn) /\ Cardinality(HandsOn) <= Cardinality(Committed)
      /\ Cardinality(HandsOn) \in Nat
  <2>1. HandsOn \in SUBSET Committed
    BY DEF HandsOn, Committed
  <2>2. QED BY <1>2, <2>1, FS_Subset, FS_CardinalityType
<1>4. IsFiniteSet(Hands) /\ Cardinality(Hands) <= Cardinality(HandsOn)
  <2> DEFINE f == [p \in HandsOn |-> call[p].c]
  <2>1. f \in Surjection(HandsOn, Hands)
    BY DEF Surjection
  <2>2. QED BY <1>3, <2>1, FS_Surjection
<1>5. IsFiniteSet(Idle) /\ Cardinality(Idle) <= Len(idle) /\ Len(idle) \in Nat
  <2>1. Len(idle) \in Nat /\ DOMAIN idle = 1..Len(idle)
    BY DEF TypeOK
  <2>2. IsFiniteSet(1..Len(idle)) /\ Cardinality(1..Len(idle)) = Len(idle)
    <3> DEFINE n == Len(idle)
    <3>1. n \in Nat
      BY <2>1
    <3> HIDE DEF n
    <3>2. IsFiniteSet(1..n) /\ Cardinality(1..n) = IF 1 > n THEN 0 ELSE n - 1 + 1
      BY <3>1, FS_Interval
    <3>3. Cardinality(1..n) = n
      BY <3>1, <3>2
    <3>4. QED BY <3>2, <3>3 DEF n
  <2> DEFINE f == [i \in 1..Len(idle) |-> idle[i]]
  <2>3. f \in Surjection(1..Len(idle), Idle)
    BY <2>1 DEF Surjection, Idle
  <2>4. QED BY <2>1, <2>2, <2>3, FS_Surjection
<1>6. /\ Cardinality(Idle \cup Hands) <= Cardinality(Idle) + Cardinality(Hands)
      /\ Cardinality(Idle \cup Hands) \in Nat
      /\ Cardinality(Idle) \in Nat /\ Cardinality(Hands) \in Nat
  <2>1. IsFiniteSet(Idle \cup Hands) /\ IsFiniteSet(Idle \cap Hands)
    BY <1>4, <1>5, FS_Union, FS_Intersection
  <2>2. Cardinality(Idle \cup Hands) =
          Cardinality(Idle) + Cardinality(Hands) - Cardinality(Idle \cap Hands)
    BY <1>4, <1>5, FS_Union
  <2>3. /\ Cardinality(Idle \cup Hands) \in Nat /\ Cardinality(Idle \cap Hands) \in Nat
        /\ Cardinality(Idle) \in Nat /\ Cardinality(Hands) \in Nat
    BY <1>4, <1>5, <2>1, FS_CardinalityType
  <2>4. QED BY <2>2, <2>3
<1>7. peak \in Nat /\ Len(idle) + Cardinality(Committed) <= peak
  BY DEF Room, TypeOK
<1> HIDE DEF Hands
<1>8. Cardinality(Idle \cup Hands) <= peak
  BY <1>2, <1>3, <1>4, <1>5, <1>6, <1>7
<1>9. QED BY <1>1, <1>8 DEF SocketBudget

\* The provider's budget: although acquire dials outside the pool's lock, the
\* sockets never outnumber the largest limit that was in force.
THEOREM SocketsWithinBudget == Spec => []SocketBudget
  BY SocketsCounted, InitInv, InvStep, PTL DEF Spec
=============================================================================
