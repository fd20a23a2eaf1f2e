----------------------------- MODULE NntpClient -----------------------------
(***************************************************************************)
(* What a pooled NNTP connection carries from one call to the next: the    *)
(* group it has selected, the overview command its server knows, and       *)
(* whether an abandoned response is still on the wire.  A call runs its    *)
(* commands on a connection of its own (ConnPool shows that it is), puts   *)
(* the connection back or drops it, and tries again on another when the    *)
(* error is one of the connection.                                         *)
(***************************************************************************)
EXTENDS Naturals, Sequences, FiniteSets

CONSTANTS Callers, Sockets, NewsGroups, NoGroup,
          MaxRetries     \* cfg.MaxRetries

ASSUME NntpAssumption == MaxRetries \in Nat

Ops == {"SelectGroupInfo", "Overview", "ListActive", "Body", "BodyHeader"}

VARIABLES sock,  \* the connections
          call   \* the calls

nntpVars == <<sock, call>>

\* dirty: the rest of a response is on the wire; foreign (history): a response
\* was read that belongs to another command, or is about another group.
SocketStates == [at : {"closed", "idle", "busy"}, group : NewsGroups \cup {NoGroup},
                 overCmd : {"", "XOVER", "OVER"}, dirty : BOOLEAN, spent : BOOLEAN]
NoSocket == [at |-> "closed", group |-> NoGroup, overCmd |-> "", dirty |-> FALSE, spent |-> FALSE]
NoCall == [at |-> "none", op |-> "ListActive", group |-> NoGroup, sock |-> 0, attempt |-> 0,
           foreign |-> FALSE]

NntpInit == /\ sock = [s \in Sockets |-> NoSocket]
            /\ call = [c \in Callers |-> NoCall]
-----------------------------------------------------------------------------
\* An operation of the pool begins.
Call(c, op, g) ==
  /\ call[c].at = "none"
  /\ call' = [call EXCEPT ![c] = [NoCall EXCEPT !.at = "acquire", !.op = op, !.group = g]]
  /\ UNCHANGED sock

FirstCommand(op) == CASE op \in {"SelectGroupInfo", "Overview"} -> "GROUP"
                      [] op = "ListActive" -> "LIST"
                      [] op \in {"Body", "BodyHeader"} -> "BODY"

\* acquire takes an idle connection, or has dialLib make one: greeting, MODE
\* READER whose answer is ignored, authenticate.
Acquire(c, s) ==
  /\ call[c].at = "acquire"
  /\ sock[s].at = "idle" \/ (sock[s].at = "closed" /\ \A t \in Sockets : sock[t].at # "idle")
  /\ sock' = [sock EXCEPT ![s].at = "busy"]
  /\ call' = [call EXCEPT ![c].at = FirstCommand(call[c].op), ![c].sock = s]

\* The call is tried again, or fails for good.
Again(c) == IF call[c].attempt < MaxRetries
            THEN [call EXCEPT ![c].at = "acquire", ![c].sock = 0, ![c].attempt = @ + 1]
            ELSE [call EXCEPT ![c] = [NoCall EXCEPT !.foreign = call[c].foreign]]

\* The dial fails in one of its steps; the socket is closed.
DialFails(c) ==
  /\ call[c].at = "acquire"
  /\ \A t \in Sockets : sock[t].at # "idle"
  /\ call' = Again(c)
  /\ UNCHANGED sock

\* Mutant: a connection is good as long as the call was.
KeepsAll(spent) == TRUE

\* release(c, c.spentConn()).
Keeps(spent) == ~spent

\* The call returns, and its connection goes back to the pool as k or is closed.
\* close drops a spent socket, and sends QUIT on another.
Return(c, k, read) ==
  /\ sock' = [sock EXCEPT ![call[c].sock] =
                IF Keeps(k.spent) THEN [k EXCEPT !.at = "idle"] ELSE NoSocket]
  /\ call' = [call EXCEPT ![c] = [NoCall EXCEPT !.foreign = read]]

\* isConnFatal: everything but a status response.
ConnFatal(c) ==
  /\ sock' = [sock EXCEPT ![call[c].sock] = NoSocket]
  /\ call' = Again(c)

\* Reading an answer: it is somebody else's if the wire was not clean.
Foreign(c) == call[c].foreign \/ sock[call[c].sock].dirty

\* The connection breaks, the stream is malformed, or the deadline of a body
\* passes in the middle of its lines.
Breaks(c) == call[c].at \in {"GROUP", "OVER", "ALT", "LIST", "BODY"} /\ ConnFatal(c)

\* selectGroup: the group is selected, or there is no such group.
SelectGroup(c) ==
  LET k == [sock[call[c].sock] EXCEPT !.group = call[c].group]
  IN /\ call[c].at = "GROUP"
     /\ \/ /\ call[c].op = "Overview"
           /\ sock' = [sock EXCEPT ![call[c].sock] = k]
           /\ call' = [call EXCEPT ![c].at = "OVER", ![c].foreign = Foreign(c)]
        \/ call[c].op = "SelectGroupInfo" /\ Return(c, k, Foreign(c))
        \/ Return(c, sock[call[c].sock], Foreign(c))

\* An overview is about the group that is selected on the connection.
OverviewOf(c) == Foreign(c) \/ sock[call[c].sock].group # call[c].group

\* overview: XOVER, or what the server took before.  A server that does not know
\* the command is asked with the other one, once.
Overview(c) ==
  LET k == sock[call[c].sock]
      first == IF k.overCmd = "" THEN "XOVER" ELSE k.overCmd
  IN /\ call[c].at = "OVER"
     /\ \/ Return(c, [k EXCEPT !.overCmd = first], OverviewOf(c))
        \/ /\ sock' = [sock EXCEPT ![call[c].sock].overCmd = first]
           /\ call' = [call EXCEPT ![c].at = "ALT"]

OverviewAlt(c) ==
  LET k == sock[call[c].sock]
      alt == IF k.overCmd = "OVER" THEN "XOVER" ELSE "OVER"
  IN /\ call[c].at = "ALT"
     /\ \/ Return(c, [k EXCEPT !.overCmd = alt], OverviewOf(c))
        \/ Return(c, k, Foreign(c))

\* listActive, and body with its status line and its lines.
ListOrBody(c) ==
  /\ call[c].at = "LIST" \/ (call[c].at = "BODY" /\ call[c].op = "Body")
  /\ Return(c, sock[call[c].sock], Foreign(c))

\* bodyHeader: no such article; the control line is found and the rest abandoned;
\* the article ends without one, or has none in its first lines.  The last two
\* are ErrNoYencHeader, which isConnFatal takes for a broken connection.
BodyHeader(c) ==
  LET k == sock[call[c].sock]
  IN /\ call[c].at = "BODY" /\ call[c].op = "BodyHeader"
     /\ \/ Return(c, k, Foreign(c))
        \/ Return(c, [k EXCEPT !.dirty = TRUE, !.spent = TRUE], Foreign(c))
        \/ ConnFatal(c)

\* The server hangs up on an idle connection, or a ping finds it gone.
HangUp(s) == sock[s].at = "idle" /\ sock' = [sock EXCEPT ![s] = NoSocket] /\ UNCHANGED call

NntpNext ==
  \/ \E c \in Callers : \/ \E op \in Ops, g \in NewsGroups : Call(c, op, g)
                        \/ \E s \in Sockets : Acquire(c, s)
                        \/ DialFails(c) \/ Breaks(c) \/ SelectGroup(c) \/ Overview(c)
                        \/ OverviewAlt(c) \/ ListOrBody(c) \/ BodyHeader(c)
  \/ \E s \in Sockets : HangUp(s)

NntpSpec == NntpInit /\ [][NntpNext]_nntpVars
-----------------------------------------------------------------------------
NntpTypeOK ==
  /\ sock \in [Sockets -> SocketStates]
  /\ call \in [Callers -> [at : {"none", "acquire", "GROUP", "OVER", "ALT", "LIST", "BODY"},
                           op : Ops, group : NewsGroups \cup {NoGroup}, sock : Sockets \cup {0},
                           attempt : 0..MaxRetries, foreign : BOOLEAN]]

\* Every answer a call takes is the answer to its own command and about its own
\* group, whatever the connection was used for before: no abandoned body and no
\* group of an earlier call leaks into a later one.
OwnAnswer == \A c \in Callers : ~call[c].foreign
=============================================================================
