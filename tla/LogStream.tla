----------------------------- MODULE LogStream -----------------------------
(***************************************************************************)
(* The log buffer: a ring of the newest entries under one lock, and        *)
(* subscribers with buffered channels under another.  A writer stores an   *)
(* entry, gives the first lock back and then publishes.  A subscriber is a *)
(* request for the event stream, whose forwarding goroutine moves entries  *)
(* from the subscription to the connection.                                *)
(***************************************************************************)
EXTENDS Integers, Sequences, SequencesExt

CONSTANTS Writers, Streams,
          BufferCap,   \* Buffer.cap
          ChannelCap,  \* capacity of a subscription
          MaxEntries   \* bound: entries logged

ASSUME LogAssumption == BufferCap \in Nat \ {0} /\ {ChannelCap, MaxEntries} \subseteq Nat

VARIABLES ring, next, full, \* Buffer.entries, next, full
          writer,           \* the entry a writer has yet to publish, 0 none
          subs,             \* the subscription of a stream
          logged            \* history: every entry in the order of the ring

logVars == <<ring, next, full, writer, subs, logged>>

\* begin: entries in the ring when the subscription began; lost (history): an
\* entry came while the channel was full.
NoSub == [at |-> "none", chan |-> <<>>, sent |-> <<>>, lost |-> FALSE, begin |-> 0]

LogInit == /\ ring = [i \in 0..(BufferCap - 1) |-> 0]
           /\ next = 0 /\ full = FALSE
           /\ writer = [w \in Writers |-> 0]
           /\ subs = [s \in Streams |-> NoSub]
           /\ logged = <<>>
-----------------------------------------------------------------------------

\* The write position has come round.
Wraps(n) == n = 0

\* add, under mu.
Add(w) ==
  /\ writer[w] = 0
  /\ Len(logged) < MaxEntries
  /\ LET e == Len(logged) + 1
     IN /\ ring' = [ring EXCEPT ![next] = e]
        /\ writer' = [writer EXCEPT ![w] = e]
        /\ logged' = Append(logged, e)
  /\ next' = (next + 1) % BufferCap
  /\ full' = (full \/ Wraps(next'))
  /\ UNCHANGED subs

Live(s) == subs[s].at = "live"

\* Mutant: the send succeeds only when the stream has caught up.
RoomEmpty(chan) == chan = <<>>

\* The non-blocking send finds room in the channel.
Room(chan) == Len(chan) < ChannelCap

\* publish, under subMu: whoever has no room misses the entry.
Publish(w) ==
  /\ writer[w] # 0
  /\ subs' = [s \in Streams |->
                IF ~Live(s) THEN subs[s]
                ELSE [subs[s] EXCEPT !.chan = IF Room(@) THEN Append(@, writer[w]) ELSE @,
                                     !.lost = @ \/ Len(subs[s].chan) = ChannelCap]]
  /\ writer' = [writer EXCEPT ![w] = 0]
  /\ UNCHANGED <<ring, next, full, logged>>

\* handleEvents subscribes ...
Subscribe(s) ==
  /\ subs[s].at = "none"
  /\ subs' = [subs EXCEPT ![s] = [NoSub EXCEPT !.at = "live", !.begin = Len(logged)]]
  /\ UNCHANGED <<ring, next, full, writer, logged>>

\* ... the handler's goroutine forwards an entry towards the client, in order.
\* (Its own channel and the write to the client, behind it, lose nothing as long
\* as the client stays, and are one with it here) ...
Forward(s) ==
  /\ Live(s) /\ subs[s].chan # <<>>
  /\ subs' = [subs EXCEPT ![s].chan = Tail(@), ![s].sent = Append(@, Head(subs[s].chan))]
  /\ UNCHANGED <<ring, next, full, writer, logged>>

\* ... and when the client is gone the subscription is cancelled and closed.
CancelSub(s) ==
  /\ Live(s)
  /\ subs' = [subs EXCEPT ![s].at = "closed"]
  /\ UNCHANGED <<ring, next, full, writer, logged>>

\* Recent: newest first.  Slots that were never written read as 0.
Ordered == IF full THEN [i \in 1..BufferCap |-> ring[(next + i - 1) % BufferCap]]
                   ELSE [i \in 1..next |-> ring[i - 1]]
Recent(limit) == LET n == IF limit > 0 /\ limit < Len(Ordered) THEN limit ELSE Len(Ordered)
                 IN [i \in 1..n |-> Ordered[Len(Ordered) + 1 - i]]

\* Everybody rests once the bound is reached.
LogRests == Len(logged) = MaxEntries /\ UNCHANGED logVars

LogNext == \/ \E w \in Writers : Add(w) \/ Publish(w)
           \/ \E s \in Streams : Subscribe(s) \/ Forward(s) \/ CancelSub(s)
           \/ LogRests

LogSpec == LogInit /\ [][LogNext]_logVars
-----------------------------------------------------------------------------
LogTypeOK ==
  /\ ring \in [0..(BufferCap - 1) -> 0..MaxEntries]
  /\ next \in 0..(BufferCap - 1) /\ full \in BOOLEAN
  /\ \A s \in Streams : Len(subs[s].chan) <= ChannelCap

\* A stream that never fell behind misses nothing that was logged after it
\* subscribed, and gets no entry twice; and Recent returns the newest entries, in
\* the order they were stored, from the first one on and across every wrap.
StreamComplete ==
  /\ \A s \in Streams : Live(s) /\ ~subs[s].lost =>
       LET got == subs[s].sent \o subs[s].chan
       IN /\ IsInjective(got)
          /\ \A e \in (subs[s].begin + 1)..Len(logged) : \/ e \in Range(got)
                                                         \/ \E w \in Writers : writer[w] = e
  /\ \A limit \in 0..(BufferCap + 1) :
       LET kept == IF Len(logged) < BufferCap THEN Len(logged) ELSE BufferCap
           n == IF limit \in 1..kept THEN limit ELSE kept
       IN Recent(limit) = [i \in 1..n |-> logged[Len(logged) + 1 - i]]
=============================================================================
