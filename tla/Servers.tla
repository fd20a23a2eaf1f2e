------------------------------ MODULE Servers -------------------------------
(***************************************************************************)
(* The news servers an administrator manages.  A handler changes a row,    *)
(* then reads all rows and makes the enabled ones the endpoints of the     *)
(* failover pool: three steps that other handlers interleave with.  What   *)
(* the pool does with new endpoints is in Failover.                        *)
(***************************************************************************)
EXTENDS Integers, Sequences, FiniteSets, SequencesExt

CONSTANTS ServerIds, Handlers,
          Priorities, Limits, \* what a request may ask for; a limit of 0 asks for the default
          ConfigLimit         \* cfg.NNTP.MaxConns of the start-up configuration

ASSUME ServersAssumption ==
  /\ IsFiniteSet(ServerIds) /\ ServerIds \subseteq Nat \ {0} /\ 1 \in ServerIds
  /\ Priorities \subseteq Int /\ Limits \subseteq Int /\ ConfigLimit \in Int

VARIABLES servers,   \* the servers table; <<>>: no row
          endpoints, \* FailoverPool.endpoints
          handler,   \* a request: what it has read
          disturbed  \* history: since the pool was last in line with the table, changes
                     \* overlapped or a list of the servers could not be read

serversVars == <<servers, endpoints, handler, disturbed>>

NoServer == <<>>
NoHandler == [at |-> "none", eps |-> <<>>]
Fallback == [id |-> 0, prio |-> 0, conns |-> ConfigLimit]

\* CreateServer and UpdateServer: a limit that is not positive becomes 10.
ServerRow(prio, limit, enabled) ==
  [prio |-> prio, conns |-> IF limit <= 0 THEN 10 ELSE limit, enabled |-> enabled]

\* ORDER BY priority, id.
ServerBefore(table, i, j) ==
  table[i].prio < table[j].prio \/ (table[i].prio = table[j].prio /\ i < j)

\* ListServers, less the rows its caller skips: the one list of the servers ids.
ListServers(table, ids) ==
  {s \in [1..Cardinality(ids) -> ids] :
     /\ Range(s) = ids
     /\ \A m, n \in DOMAIN s : m < n => ServerBefore(table, s[m], s[n])}

\* Mutant: a server that is switched off stays an endpoint.
enabledAll(table, i) == TRUE
enabledOf(table, i) == table[i].enabled

\* buildEndpoints: the enabled servers; without one, or when they cannot be read,
\* the start-up configuration, which Validate makes sure there is.
buildEndpoints(table, read) ==
  LET on == {i \in ServerIds : table[i] # NoServer /\ enabledOf(table, i)}
  IN IF read /\ on # {}
     THEN {[n \in DOMAIN s |-> [id |-> s[n], prio |-> table[s[n]].prio, conns |-> table[s[n]].conns]] :
             s \in ListServers(table, on)}
     ELSE {<<Fallback>>}

\* seedServerFromConfig: the first start puts the configured server in the table.
Seeded(table) == IF \E i \in ServerIds : table[i] # NoServer THEN table
                 ELSE [table EXCEPT ![1] = ServerRow(0, ConfigLimit, TRUE)]

ServersInit == /\ servers = Seeded([i \in ServerIds |-> NoServer])
               /\ endpoints \in buildEndpoints(servers, TRUE)
               /\ handler = [h \in Handlers |-> NoHandler]
               /\ disturbed = FALSE
-----------------------------------------------------------------------------
Busy == {h \in Handlers : handler[h].at # "none"}

\* A handler has changed a row and is to apply it.
Changed(h, table) ==
  /\ handler[h].at = "none"
  /\ servers' = table
  /\ handler' = [handler EXCEPT ![h] = [at |-> "list", eps |-> <<>>]]
  /\ disturbed' = (disturbed \/ Busy # {})
  /\ UNCHANGED endpoints

handleCreateServer(h, i, row) == servers[i] = NoServer /\ Changed(h, [servers EXCEPT ![i] = row])
handleUpdateServer(h, i, row) == servers[i] # NoServer /\ Changed(h, [servers EXCEPT ![i] = row])
handleDeleteServer(h, i) == servers[i] # NoServer /\ Changed(h, [servers EXCEPT ![i] = NoServer])

\* ApplyActive lists the servers with the context of the request ...
ReadServers(h, read) ==
  /\ handler[h].at = "list"
  /\ \E eps \in buildEndpoints(servers, read) :
       handler' = [handler EXCEPT ![h] = [at |-> "set", eps |-> eps]]
  /\ disturbed' = (disturbed \/ ~read)
  /\ UNCHANGED <<servers, endpoints>>

\* ... and hands them to the pool.
SetEndpoints(h) ==
  /\ handler[h].at = "set"
  /\ endpoints' = handler[h].eps
  /\ handler' = [handler EXCEPT ![h] = NoHandler]
  /\ disturbed' = (disturbed /\ ~(Busy = {h} /\ endpoints' \in buildEndpoints(servers, TRUE)))
  /\ UNCHANGED servers

\* The process ends at any point and is started again.
ServersRestart ==
  /\ servers' = Seeded(servers)
  /\ endpoints' \in buildEndpoints(servers', TRUE)
  /\ handler' = [h \in Handlers |-> NoHandler]
  /\ disturbed' = FALSE

ServersNext ==
  \/ \E h \in Handlers :
       \/ \E i \in ServerIds, p \in Priorities, l \in Limits, on \in BOOLEAN :
            \/ handleCreateServer(h, i, ServerRow(p, l, on))
            \/ handleUpdateServer(h, i, ServerRow(p, l, on))
       \/ \E i \in ServerIds : handleDeleteServer(h, i)
       \/ \E read \in BOOLEAN : ReadServers(h, read)
       \/ SetEndpoints(h)
  \/ ServersRestart

ServersSpec == ServersInit /\ [][ServersNext]_serversVars
-----------------------------------------------------------------------------
ServersTypeOK == /\ \A i \in ServerIds : servers[i] = NoServer \/ servers[i].conns > 0
                 /\ endpoints # <<>> /\ handler \in [Handlers -> [at : {"none", "list", "set"}, eps : Seq([id : ServerIds \cup {0}, prio : Int, conns : Int])]]

\* "provider changes (add/edit/priority/max-conns/enable) take effect live": with
\* no handler under way the first endpoint is the enabled server of the lowest
\* priority number, no endpoint is switched off or deleted, and every limit is
\* the stored one, unless changes overlapped or the servers could not be read.
ServersApplied ==
  Busy = {} /\ ~disturbed =>
    LET on == {i \in ServerIds : servers[i] # NoServer /\ servers[i].enabled}
        used == {endpoints[n].id : n \in DOMAIN endpoints}
    IN /\ used = IF on = {} THEN {0} ELSE on
       /\ \A n \in DOMAIN endpoints : endpoints[n].id # 0 =>
            /\ endpoints[n].conns = servers[endpoints[n].id].conns
            /\ servers[endpoints[1].id].prio <= servers[endpoints[n].id].prio
=============================================================================
