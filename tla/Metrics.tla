------------------------------ MODULE Metrics ------------------------------
(***************************************************************************)
(* The gauges that the crawler exports, over the tables:                   *)
(*   src/pkg/crawler/metrics.go           (the metrics of the crawler)     *)
(*   src/pkg/metrics/service.go, module.go (the updater)                   *)
(*                                                                         *)
(* The updater walks over the metrics at every tick and makes one query    *)
(* for each, three for the hosting distribution, while the persisters      *)
(* commit and time passes.  A gauge is set for the labels of the answer,   *)
(* and left alone when a query fails; no gauge is ever reset.              *)
(***************************************************************************)
EXTENDS Tables

CONSTANTS
  Exported,    \* bound: the metrics that are run, in the order of GetMetrics
  MaxTime      \* bound: the last time that passes

AllMetrics == <<"client", "version", "geo", "nodes", "deprecated", "os", "arch",
                "hosted", "rtt", "ip">>

ASSUME ExportedAssumption == Range(Exported) \subseteq Range(AllMetrics) /\ Exported # <<>>

VARIABLES
  gauges,     \* the exported values: for every metric, a function of the labels
  updater,    \* the metric that is updated next, 0 between two ticks
  answers     \* the answers to the first queries of that metric

vars == <<tableVars, gauges, updater, answers>>

Init ==
  /\ tables \in Restored
  /\ batch = [i \in Persisters |-> <<>>]
  /\ taken = 0
  /\ serial = tables
  /\ crossed = {}
  /\ backup = {}
  /\ gauges = [m \in Range(Exported) |-> <<>>]
  /\ updater = 0
  /\ answers = <<>>
  /\ horizon = [peers |-> 0, nodes |-> 0]

Single(n) == [l \in {"value"} |-> n]

\* The answer to the query of a metric.
Summary(m, t) ==
  CASE m = "client"     -> GetClientDistribution(t)
    [] m = "version"    -> GetVersionDistribution(t)
    [] m = "geo"        -> GetGeoDistribution(t)
    [] m = "nodes"      -> Single(Cardinality(GetNonDeprecatedPeers(t)))
    [] m = "deprecated" -> Single(GetDeprecatedNodes(t))
    [] m = "os"         -> GetOsDistribution(t)
    [] m = "arch"       -> GetArchDistribution(t)
    [] m = "hosted"     -> [k \in HostKinds |-> GetHostingDistribution(t, k)]
    [] m = "rtt"        -> GetRTTDistribution(t)
    [] m = "ip"         -> GetIPDistribution(t)

Tick ==
  /\ updater = 0
  /\ updater' = 1
  /\ UNCHANGED <<tableVars, gauges, answers>>

\* UpdateSummary walks over the metrics of the module.
NextMetric == (updater + 1) % (Len(Exported) + 1)

\* The order of the three queries of the hosting distribution.
HostOrder == <<"mobile_ips", "under_proxy", "hosted_ips">>

QueryHosting ==
  /\ updater # 0 /\ Exported[updater] = "hosted"
  /\ Len(answers) < Len(HostOrder)
  /\ answers' = Append(answers, GetHostingDistribution(tables, HostOrder[Len(answers) + 1]))
  /\ UNCHANGED <<tableVars, gauges, updater>>

\* The answer that updateFn has once its queries are made: the last one is made
\* here, except for the hosting distribution.
Answer(m) ==
  IF m = "hosted"
  THEN [k \in HostKinds |-> answers[CHOOSE n \in DOMAIN HostOrder : HostOrder[n] = k]]
  ELSE Summary(m, tables)

Answered(m) == m = "hosted" => Len(answers) = Len(HostOrder)

\* Mutant: a label that is exported already is not set again.
UpdateMetricsOnce ==
  /\ updater # 0 /\ Answered(Exported[updater])
  /\ gauges' = [gauges EXCEPT ![Exported[updater]] = @ @@ Answer(Exported[updater])]
  /\ updater' = NextMetric
  /\ answers' = <<>>
  /\ UNCHANGED tableVars

\* updateFn of the next metric.
UpdateMetrics ==
  /\ updater # 0 /\ Answered(Exported[updater])
  /\ gauges' = [gauges EXCEPT ![Exported[updater]] = Answer(Exported[updater]) @@ @]
  /\ updater' = NextMetric
  /\ answers' = <<>>
  /\ UNCHANGED tableVars

\* A query fails: updateFn returns the error, which UpdateSummary logs.
QueryFails ==
  /\ updater # 0
  /\ Exported[updater] = "hosted" => Len(answers) < Len(HostOrder)
  /\ updater' = NextMetric
  /\ answers' = <<>>
  /\ UNCHANGED <<tableVars, gauges>>

\* Time passes: 180 days reach further back than one.
Expire ==
  /\ \/ /\ horizon.nodes < MaxTime
        /\ horizon' = [horizon EXCEPT !.nodes = @ + 1]
     \/ /\ horizon.peers < horizon.nodes
        /\ horizon' = [horizon EXCEPT !.peers = @ + 1]
  /\ UNCHANGED <<tables, batch, taken, serial, crossed, backup, gauges, updater, answers>>

PersisterStep(i) == (Take(i) \/ Commit(i)) /\ UNCHANGED <<gauges, updater, answers>>
BackupStep == ActivePeersBackup /\ UNCHANGED <<gauges, updater, answers>>

Next ==
  \/ \E i \in Persisters : PersisterStep(i)
  \/ BackupStep
  \/ Tick \/ QueryHosting \/ UpdateMetrics \/ QueryFails
  \/ Expire

Spec == Init /\ [][Next]_vars

\* The flush ticker and the ticker of the updater keep firing, and no query fails
\* for ever.
Fairness ==
  /\ \A i \in Persisters : WF_vars(Commit(i) /\ UNCHANGED <<gauges, updater, answers>>)
  /\ WF_vars(Tick)
  /\ \A n \in DOMAIN HostOrder : SF_vars(QueryHosting /\ Len(answers) = n - 1)
  /\ \A m \in DOMAIN Exported : SF_vars(UpdateMetrics /\ updater = m)

FairSpec == Spec /\ Fairness

-----------------------------------------------------------------------------
(* Properties                                                              *)

\* The sum of the values of dist over the labels D.
TotalOver(dist, D) ==
  LET total[E \in SUBSET D] ==
        IF E = {} THEN 0
        ELSE LET l == CHOOSE l \in E : TRUE IN dist[l] + total[E \ {l}]
  IN  total[D]

Total(dist) == TotalOver(dist, DOMAIN dist)

\* The summaries agree with one another: the client, version, operating system
\* and architecture distributions count the peers of the daily backup, the
\* versions of a client add up to the client, the countries to the active peers
\* that are located, the round trips and the addresses to the same peers (at
\* least the active ones), and the exported nodes are the rows that are not
\* deprecated (crawler_metrics.go, eth_metrics.go).
DistributionsAgree ==
  LET active   == Cardinality(GetActivePeers(tables))
      clients  == GetClientDistribution(tables)
      versions == GetVersionDistribution(tables)
      nodes    == GetIPDistribution(tables)
  IN  /\ Total(clients) = active
      /\ \A c \in DOMAIN clients :
           clients[c] = TotalOver(versions, {l \in DOMAIN versions : l[1] = c})
      /\ Total(GetOsDistribution(tables)) = active
      /\ Total(GetArchDistribution(tables)) = active
      /\ Total(GetGeoDistribution(tables)) = Cardinality(Located(tables))
      /\ \A k \in HostKinds :
           GetHostingDistribution(tables, k) <= Total(GetGeoDistribution(tables))
      /\ active <= Total(GetRTTDistribution(tables))
      /\ Total(GetRTTDistribution(tables)) =
           Total([n \in DOMAIN nodes |-> n * nodes[n]])
      /\ Total(GetNodePerForkDistribution(tables)) = Total(GetAttnetsDistribution(tables))
      /\ Cardinality(GetNonDeprecatedPeers(tables)) + GetDeprecatedNodes(tables)
           = Cardinality(Rows(tables))

NotHeld(p) == \A i \in Persisters : p \notin Held(i)

\* The rows of a peer that no two persisters held at once are those of its
\* objects in the order they left the channel, once none is in a batch: a
\* batch keeps the order and the queries of other peers in between do not
\* matter (server.go launchPersister).
RowsFollowOrder ==
  \A p \in Peers :
    NotHeld(p) /\ p \notin crossed =>
      /\ tables.peer_info[p] = serial.peer_info[p]
      /\ tables.eth_nodes[p] = serial.eth_nodes[p]
      /\ tables.eth_status[p] = serial.eth_status[p]

\* In the end the gauges show the table: every label a query answers with has
\* its count, whatever was committed between the queries of one tick and
\* whichever of them failed (crawler/metrics.go, metrics/module.go).
GaugesConverge ==
  <>[](\A m \in Range(Exported) :
         \A l \in DOMAIN Summary(m, tables) :
           l \in DOMAIN gauges[m] /\ gauges[m][l] = Summary(m, tables)[l])

\* The comment over UpsertEnrInfo: "update the data if the ENR has a higher Seq
\* number" (eth_nodes.go:54).  The row of a node never goes back to an older record.
SeqNeverFalls ==
  [][\A p \in Peers :
       tables.eth_nodes[p] # None =>
         tables'.eth_nodes[p].enr.seq >= tables.eth_nodes[p].enr.seq]_vars
=============================================================================
