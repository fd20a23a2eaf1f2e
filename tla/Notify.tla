------------------------------- MODULE Notify -------------------------------
(***************************************************************************)
(* Webhook notifications.  Producers put events on a bounded queue without *)
(* ever blocking; a few workers take them, suppress what was seen lately,  *)
(* and deliver to every destination that wants the event, with retries.    *)
(* A POST that is not answered in time, or not with 2xx, may have arrived  *)
(* all the same: delivery is at least once.                                *)
(***************************************************************************)
EXTENDS Naturals, Sequences, SequencesExt

CONSTANTS EventIds, Destinations, \* destinations in the order of the configuration
          Wants,          \* the events each enabled destination is configured for
          NotifyWorkers,  \* opts.Workers
          QueueSize, MaxAttempts, HistorySize,
          MaxEmits        \* bound: events emitted

ASSUME NotifyAssumption ==
  /\ Destinations \in Seq(Range(Destinations)) /\ IsInjective(Destinations)
  /\ Wants \in [Range(Destinations) -> SUBSET EventIds]
  /\ {QueueSize, HistorySize, MaxEmits} \subseteq Nat /\ MaxAttempts \in Nat \ {0}

VARIABLES queue, notifier, seen, history, posts, stopped, emits

notifyVars == <<queue, notifier, seen, history, posts, stopped, emits>>

\* late (history): the window of the event has passed since the dispatch began.
NoDispatch == [at |-> "idle", event |-> <<>>, dest |-> 0, attempt |-> 0, late |-> FALSE]

\* History, of the dispatches that began within the window of an event: the
\* POSTs that were made to a destination, each of which may have arrived, and
\* which of them was the first to be acknowledged.
NoPost == [sent |-> 0, acked |-> 0]

NotifyInit ==
  /\ queue = <<>>
  /\ notifier = [w \in NotifyWorkers |-> NoDispatch]
  /\ seen = {}                                   \* ids within the dedup window
  /\ history = <<>>
  /\ posts = [d \in Range(Destinations) |-> [e \in EventIds |-> NoPost]]
  /\ stopped = FALSE
  /\ emits = 0
-----------------------------------------------------------------------------
\* Emit drops the event when the queue is full.
Emit(e) ==
  /\ emits < MaxEmits
  /\ emits' = emits + 1
  /\ \E d \in Range(Destinations) : Wants[d] # {}
  /\ queue' = IF Len(queue) < QueueSize THEN Append(queue, e) ELSE queue
  /\ UNCHANGED <<notifier, seen, history, posts, stopped>>

wants(d, e) == e \in Wants[d]

\* Mutant: an id counts as seen when its delivery has been recorded.
dedupedByHistory(e) ==
  [dup |-> \E i \in DOMAIN history : history[i].event = e /\ history[i].success,
   seen |-> seen \cup {e}]

\* deduped: tells whether the id was seen, and records it, under one lock.
deduped(e) == [dup |-> e \in seen, seen |-> seen \cup {e}]

\* dispatch goes on to the next destination that wants the event, or is done.
NextDestination(e, i, late) ==
  LET more == {j \in DOMAIN Destinations : j > i /\ wants(Destinations[j], e)}
  IN IF more = {} THEN NoDispatch
     ELSE [at |-> "send", event |-> <<e>>, dest |-> Min(more), attempt |-> 1, late |-> late]

\* A worker takes an event.
Dispatch(w) ==
  /\ notifier[w].at = "idle"
  /\ queue # <<>>
  /\ LET e == Head(queue)
     IN /\ seen' = deduped(e).seen
        /\ notifier' = IF deduped(e).dup THEN notifier
                       ELSE [notifier EXCEPT ![w] = NextDestination(e, 0, FALSE)]
  /\ queue' = Tail(queue)
  /\ UNCHANGED <<history, posts, stopped, emits>>

\* record: the history keeps the newest deliveries.
record(r) == LET h == Append(history, r)
             IN IF Len(h) > HistorySize THEN SubSeq(h, Len(h) - HistorySize + 1, Len(h)) ELSE h

EventOf(w) == Head(notifier[w].event)
DestinationOf(w) == Destinations[notifier[w].dest]
GoesOn(w) ==
  notifier' = [notifier EXCEPT ![w] =
                 NextDestination(EventOf(w), notifier[w].dest, notifier[w].late)]

\* send: one more POST, of those that count for the window.
OneMore(p, ok) == [sent |-> p.sent + 1,
                   acked |-> IF ok /\ p.acked = 0 THEN p.sent + 1 ELSE p.acked]
Posts(w, ok) ==
  posts' = IF notifier[w].late THEN posts
           ELSE [posts EXCEPT ![DestinationOf(w)][EventOf(w)] = OneMore(@, ok)]

\* deliver: one attempt that is acknowledged ...
SendSucceeds(w) ==
  /\ notifier[w].at = "send"
  /\ Posts(w, TRUE)
  /\ history' = record([event |-> EventOf(w), dest |-> DestinationOf(w), success |-> TRUE])
  /\ GoesOn(w)
  /\ UNCHANGED <<queue, seen, stopped, emits>>

GivesUp(w) ==
  /\ history' = record([event |-> EventOf(w), dest |-> DestinationOf(w), success |-> FALSE])
  /\ GoesOn(w)

\* ... or is not, whether or not it arrived: the backoff is next, or the
\* failure is recorded.
SendFails(w) ==
  /\ notifier[w].at = "send"
  /\ Posts(w, FALSE)
  /\ \/ /\ notifier[w].attempt < MaxAttempts
        /\ notifier' = [notifier EXCEPT ![w].at = "backoff"]
        /\ UNCHANGED history
     \/ notifier[w].attempt = MaxAttempts /\ GivesUp(w)
  /\ UNCHANGED <<queue, seen, stopped, emits>>

\* The backoff is over, or the service is stopped meanwhile.
Backoff(w) ==
  /\ notifier[w].at = "backoff"
  /\ \/ /\ notifier' = [notifier EXCEPT ![w].at = "send", ![w].attempt = @ + 1]
        /\ UNCHANGED history
     \/ stopped /\ GivesUp(w)
  /\ UNCHANGED <<queue, seen, posts, stopped, emits>>

\* Stop closes the channel; an idle worker leaves, with the queue as it is.
Stop == ~stopped /\ stopped' = TRUE
        /\ UNCHANGED <<queue, notifier, seen, history, posts, emits>>

NotifierLeaves(w) ==
  /\ stopped /\ notifier[w].at = "idle"
  /\ notifier' = [notifier EXCEPT ![w].at = "off"]
  /\ UNCHANGED <<queue, seen, history, posts, stopped, emits>>

\* The dedup window of an id passes, also while its dispatch goes on.
WindowPasses(e) ==
  /\ e \in seen
  /\ seen' = seen \ {e}
  /\ notifier' = [w \in NotifyWorkers |->
                    IF notifier[w].event = <<e>> THEN [notifier[w] EXCEPT !.late = TRUE]
                                                 ELSE notifier[w]]
  /\ posts' = [d \in Range(Destinations) |-> [posts[d] EXCEPT ![e] = NoPost]]
  /\ UNCHANGED <<queue, history, stopped, emits>>

\* History: newest first.
History(limit) == LET n == IF limit > 0 /\ limit < Len(history) THEN limit ELSE Len(history)
                  IN [i \in 1..n |-> history[Len(history) + 1 - i]]

\* Nobody has anything to do any more.
NotifyRests == emits = MaxEmits /\ UNCHANGED notifyVars

NotifyNext ==
  \/ \E e \in EventIds : Emit(e) \/ WindowPasses(e)
  \/ \E w \in NotifyWorkers : \/ Dispatch(w) \/ SendSucceeds(w) \/ SendFails(w) \/ Backoff(w)
                              \/ NotifierLeaves(w)
  \/ Stop \/ NotifyRests

NotifySpec == NotifyInit /\ [][NotifyNext]_notifyVars
-----------------------------------------------------------------------------
Deliveries == [event : EventIds, dest : Range(Destinations), success : BOOLEAN]
NotifyTypeOK ==
  /\ queue \in Seq(EventIds) /\ Len(queue) <= QueueSize
  /\ \A w \in NotifyWorkers : /\ notifier[w].at \in {"idle", "send", "backoff", "off"}
                              /\ notifier[w].attempt \in 0..MaxAttempts
  /\ seen \subseteq EventIds
  /\ history \in Seq(Deliveries) /\ Len(history) <= HistorySize
  /\ \A i \in DOMAIN History(1) : History(1)[i] = history[Len(history)]

\* Two workers about, the event emitted again and again, replies lost: the
\* dispatches that begin within the dedup window make at most MaxAttempts POSTs
\* of an event to a destination, and none after one that was acknowledged.
\* A destination may still get an event twice: a POST whose reply is lost is
\* made again, and a dispatch that outlives its window (by default three
\* attempts of ten seconds to each destination, one after the other, against
\* five minutes) may run beside the next one.
RetriedOnlyUnacked ==
  \A d \in Range(Destinations), e \in EventIds :
    /\ posts[d][e].sent <= MaxAttempts
    /\ posts[d][e].acked # 0 => posts[d][e].acked = posts[d][e].sent
=============================================================================
