------------------------------ MODULE Tables ------------------------------
(***************************************************************************)
(* The tables of the crawler and the queries on them:                      *)
(*   src/pkg/db/postgresql/peer_info.go, eth_nodes.go, eth_status.go,      *)
(*   ips.go, active_peers_backup.go    (the rows and their queries)        *)
(*   src/pkg/db/postgresql/server.go   (which queries an object causes)    *)
(*   src/pkg/db/postgresql/crawler_metrics.go, eth_metrics.go (summaries)  *)
(*                                                                         *)
(* A persister takes an object, turns it into queries and commits them     *)
(* later, in one transaction.  Persisters do so independently.  The        *)
(* channel, the end of the persisters and the faults of the database are   *)
(* in module DBPersister; here the objects come from a set, and every      *)
(* batch is committed some time.                                           *)
(*                                                                         *)
(* Times are numbers.  The summaries look back 180 days, or one day for    *)
(* the records of nodes: horizon holds the times before which they look    *)
(* no further.  Columns that no query looks at are left out.               *)
(***************************************************************************)
EXTENDS UserAgent, FiniteSets, FiniteSetsExt, Functions, TLC

CONSTANTS
  Peers,
  IPs,
  NoIP,            \* the IP of a host without a public address
  Country,         \* what the API says of an address
  Hosted,          \* for each kind of HostKinds, the addresses of that kind
  Objects,         \* what is sent to the persisters
  Restored,        \* the rows a start may find: a set of tables
  Persisters,
  MaxObjects,      \* bound: the objects that are persisted
  None

HostKinds == {"mobile_ips", "under_proxy", "hosted_ips"}

-----------------------------------------------------------------------------
(* What the columns and the objects are.                                   *)

\* The columns of a row: those of the identification are written together.
IsRow(row) ==
  /\ DOMAIN row = {"ip", "deprecated", "cols", "latency", "attempted", "last_activity"}
  /\ row.ip # None
  /\ row.cols.name # None =>
       row.cols.version # None /\ row.cols.os # None /\ row.cols.arch # None

IsRecord(enr) == enr.fork # None /\ enr.attnets # None

IsTables(t) ==
  /\ DOMAIN t = {"peer_info", "eth_nodes", "eth_status", "ips"}
  /\ DOMAIN t.peer_info = Peers /\ DOMAIN t.eth_nodes = Peers /\ DOMAIN t.eth_status = Peers
  /\ \A p \in Peers :
       /\ t.peer_info[p] # None => IsRow(t.peer_info[p])
       /\ t.eth_nodes[p] # None =>
            DOMAIN t.eth_nodes[p] = {"enr", "timestamp"} /\ IsRecord(t.eth_nodes[p].enr)
  /\ t.ips \subseteq IPs

\* An attribute of a host is about that host.
IsAttribute(a, p) ==
  /\ a.kind \in {"enr", "status", "metadata"} /\ a.peer = p
  /\ a.kind = "enr" => IsRecord(a.enr)

IsAgent(agent) ==
  /\ None \notin agent.names \cup agent.oses \cup agent.archs
  /\ agent.fields \in Seq(Range(agent.fields))
  /\ \A f \in Range(agent.fields) : f.base # None

IsObject(o) ==
  \/ /\ o.kind = "host" /\ o.ip # None
     /\ o.attributes \in Seq(Range(o.attributes))
     /\ \A a \in Range(o.attributes) : IsAttribute(a, o.peer)
     /\ o.agent # None => IsAgent(o.agent)
  \/ o.kind = "peer" /\ o.agent # None /\ IsAgent(o.agent)
  \/ o.kind \in {"attempt", "activity"}
  \/ o.kind = "ip" /\ o.ip \in IPs

ASSUME TablesAssumption ==
  /\ IsFiniteSet(Peers) /\ None \notin Peers
  /\ NoIP \notin IPs
  /\ UnknownName # None /\ \A ip \in IPs : Country[ip] # None
  /\ Hosted \in [HostKinds -> SUBSET IPs]
  /\ \A o \in Objects : IsObject(o)
  /\ \A t \in Restored : IsTables(t)
  /\ MaxObjects \in Nat

VARIABLES
  tables,     \* the committed rows
  batch,      \* the queries each persister holds, in order
  taken,      \* number of objects taken
  serial,     \* history: the rows, had every query been committed when it was taken
  crossed,    \* history: keys two persisters held at once
  backup,     \* the last row of active_peers
  horizon     \* the times the summaries look back to

tableVars == <<tables, batch, taken, serial, crossed, backup, horizon>>

-----------------------------------------------------------------------------
(* The rows.  A column of peer_info that was not written is None (NULL).   *)

NoColumns == [name |-> None, version |-> None, os |-> None, arch |-> None]

NewRow(ip) ==
  [ip |-> ip, deprecated |-> FALSE, cols |-> NoColumns, latency |-> None,
   attempted |-> FALSE, last_activity |-> None]

EmptyTables ==
  [peer_info  |-> [p \in Peers |-> None],
   eth_nodes  |-> [p \in Peers |-> None],
   eth_status |-> [p \in Peers |-> None],
   ips        |-> {}]

Has(t, p) == t.peer_info[p] # None

\* A conflict leaves the columns of the identification and of the attempts alone.
UpsertHostInfo(t, q) ==
  [t EXCEPT !.peer_info[q.peer] =
     IF Has(t, q.peer) THEN [@ EXCEPT !.ip = q.ip, !.deprecated = FALSE]
     ELSE NewRow(q.ip)]

\* Mutant: the operating system is not written.
UpdatePeerInfoParts(t, q) ==
  IF Has(t, q.peer)
  THEN [t EXCEPT !.peer_info[q.peer] =
          [@ EXCEPT !.cols = [q.cols EXCEPT !.os = t.peer_info[q.peer].cols.os],
                    !.latency = q.latency]]
  ELSE t

\* An UPDATE of a row that does not exist does nothing.
UpdatePeerInfo(t, q) ==
  IF Has(t, q.peer)
  THEN [t EXCEPT !.peer_info[q.peer] = [@ EXCEPT !.cols = q.cols, !.latency = q.latency]]
  ELSE t

UpdateConnAttempt(t, q) ==
  LET row == t.peer_info[q.peer]
  IN  IF Has(t, q.peer)
      THEN [t EXCEPT !.peer_info[q.peer] =
              [row EXCEPT !.deprecated = q.deprecable /\ ~q.positive,
                          !.attempted = TRUE,
                          !.last_activity = IF q.positive THEN q.time ELSE @]]
      ELSE t

\* Whatever the time of the row is.
UpdateLastActivityTimestamp(t, q) ==
  IF Has(t, q.peer) THEN [t EXCEPT !.peer_info[q.peer].last_activity = q.time] ELSE t

\* Whatever the seq of the row is.
UpsertEnrInfo(t, q) ==
  [t EXCEPT !.eth_nodes[q.peer] = [enr |-> q.enr, timestamp |-> q.time]]

UpsertEthereumNodeStatus(t, q) ==
  [t EXCEPT !.eth_status[q.peer] =
     IF @ = None THEN [status |-> q.slot, metadata |-> None]
     ELSE [@ EXCEPT !.status = q.slot]]

UpsertEthereumNodeMetadata(t, q) ==
  [t EXCEPT !.eth_status[q.peer] =
     IF @ = None THEN [status |-> None, metadata |-> "known"]
     ELSE [@ EXCEPT !.metadata = "known"]]

UpsertIpInfo(t, q) == [t EXCEPT !.ips = @ \cup {q.ip}]

Apply(t, q) ==
  CASE q.kind = "host"     -> UpsertHostInfo(t, q)
    [] q.kind = "peer"     -> UpdatePeerInfo(t, q)
    [] q.kind = "attempt"  -> UpdateConnAttempt(t, q)
    [] q.kind = "activity" -> UpdateLastActivityTimestamp(t, q)
    [] q.kind = "enr"      -> UpsertEnrInfo(t, q)
    [] q.kind = "status"   -> UpsertEthereumNodeStatus(t, q)
    [] q.kind = "metadata" -> UpsertEthereumNodeMetadata(t, q)
    [] q.kind = "ip"       -> UpsertIpInfo(t, q)

\* The rows after the queries qs, in their order.
Replay(t, qs) ==
  LET after[n \in 0..Len(qs)] == IF n = 0 THEN t ELSE Apply(after[n - 1], qs[n])
  IN  after[Len(qs)]

-----------------------------------------------------------------------------
(* The persisters.                                                         *)

Key(q) == IF q.kind = "ip" THEN q.ip ELSE q.peer
Held(i) == {Key(batch[i][k]) : k \in DOMAIN batch[i]}

Identification(o) ==
  IF o.agent = None THEN {<<>>}
  ELSE {<<[kind |-> "peer", peer |-> o.peer, cols |-> c, latency |-> o.latency]>> :
          c \in ParseClientType(o.agent)}

\* The attributes of a host are in a map; each has columns of its own.
HostQueries(o) ==
  {<<[kind |-> "host", peer |-> o.peer, ip |-> o.ip]>> \o ident \o o.attributes :
     ident \in Identification(o)}

\* The queries that the persister may compose for an object.
Queries(o) ==
  CASE o.kind = "host" -> HostQueries(o)
    [] o.kind = "peer" -> Identification(o)
    [] o.kind \in {"attempt", "activity", "ip"} -> {<<o>>}

Take(i) ==
  /\ taken < MaxObjects
  /\ taken' = taken + 1
  /\ \E o \in Objects : \E qs \in Queries(o) :
       /\ batch' = [batch EXCEPT ![i] = @ \o qs]
       /\ serial' = Replay(serial, qs)
       /\ crossed' = crossed \cup
            {Key(o) : j \in {j \in Persisters \ {i} : Key(o) \in Held(j)}}
  /\ UNCHANGED <<tables, backup, horizon>>

\* Mutant: the last query of a batch is applied first.
CommitReversed(i) ==
  /\ batch[i] # <<>>
  /\ tables' = Replay(tables, [k \in DOMAIN batch[i] |-> batch[i][Len(batch[i]) + 1 - k]])
  /\ batch' = [batch EXCEPT ![i] = <<>>]
  /\ UNCHANGED <<taken, serial, crossed, backup, horizon>>

\* PersistBatch: one transaction.
Commit(i) ==
  /\ batch[i] # <<>>
  /\ tables' = Replay(tables, batch[i])
  /\ batch' = [batch EXCEPT ![i] = <<>>]
  /\ UNCHANGED <<taken, serial, crossed, backup, horizon>>

-----------------------------------------------------------------------------
(* The queries that the summaries and the peering service make.            *)

Rows(t) == {p \in Peers : Has(t, p)}
GetNonDeprecatedPeers(t) == {p \in Rows(t) : ~t.peer_info[p].deprecated}
GetDeprecatedNodes(t) == Cardinality({p \in Rows(t) : t.peer_info[p].deprecated})

\* A comparison with NULL is not true.
After(time, limit) == time # None /\ time > limit

\* The round trips and the addresses are not restricted to attempted peers.
Identified(t) ==
  {p \in GetNonDeprecatedPeers(t) :
     t.peer_info[p].cols.name # None /\ After(t.peer_info[p].last_activity, horizon.peers)}

GetActivePeers(t) == {p \in Identified(t) : t.peer_info[p].attempted}

\* SELECT label, count(column) ... GROUP BY label; count does not see NULL.
Distribution(label, column) ==
  [l \in {label[p] : p \in DOMAIN label} |->
     Cardinality({p \in DOMAIN label : label[p] = l /\ column[p] # None})]

Labels(label) == Distribution(label, label)

Cols(t, p) == t.peer_info[p].cols

GetClientDistribution(t) == Labels([p \in GetActivePeers(t) |-> Cols(t, p).name])
GetVersionDistribution(t) ==
  Distribution([p \in GetActivePeers(t) |-> <<Cols(t, p).name, Cols(t, p).version>>],
               [p \in GetActivePeers(t) |-> Cols(t, p).version])
GetOsDistribution(t) == Labels([p \in GetActivePeers(t) |-> Cols(t, p).os])
GetArchDistribution(t) == Labels([p \in GetActivePeers(t) |-> Cols(t, p).arch])

\* The join with the addresses that the API has located.
Located(t) == {p \in GetActivePeers(t) : t.peer_info[p].ip \in t.ips}

GetGeoDistribution(t) == Labels([p \in Located(t) |-> Country[t.peer_info[p].ip]])
\* One of the three queries of the hosting distribution.
GetHostingDistribution(t, k) ==
  Cardinality({p \in Located(t) : t.peer_info[p].ip \in Hosted[k]})

\* The upper end of the bucket of a latency; 0 is "+1s".
Bucket(ms) == IF ms > 1000 THEN 0 ELSE ((Max({ms, 1}) + 99) \div 100) * 100

\* count(*) counts the rows.
GetRTTDistribution(t) ==
  Distribution([p \in Identified(t) |-> Bucket(t.peer_info[p].latency)],
               [p \in Identified(t) |-> p])

NodesOfIP(t) == Labels([p \in Identified(t) |-> t.peer_info[p].ip])
GetIPDistribution(t) ==
  LET nodes == NodesOfIP(t)
  IN  [n \in {nodes[ip] : ip \in DOMAIN nodes} |->
         Cardinality({ip \in DOMAIN nodes : nodes[ip] = n})]

RecentNodes(t) ==
  {p \in Peers : t.eth_nodes[p] # None /\ After(t.eth_nodes[p].timestamp, horizon.nodes)}
GetNodePerForkDistribution(t) ==
  Labels([p \in RecentNodes(t) |-> t.eth_nodes[p].enr.fork])
GetAttnetsDistribution(t) ==
  Labels([p \in RecentNodes(t) |-> t.eth_nodes[p].enr.attnets])

\* activePeersBackup: an empty list is skipped.
ActivePeersBackup ==
  /\ GetActivePeers(tables) # {}
  /\ backup' = GetActivePeers(tables)
  /\ UNCHANGED <<tables, batch, taken, serial, crossed, horizon>>
=============================================================================
