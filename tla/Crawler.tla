------------------------------ MODULE Crawler ------------------------------
(***************************************************************************)
(* The life of the crawler, with the services that its shutdown touches:   *)
(*   src/pkg/crawler/ethereum.go      (NewEthereumCrawler, Run, Close)     *)
(*   src/cmd/ethereum_crawler.go      (the signal)                         *)
(*   src/pkg/metrics/service.go       (the updater of the metrics)         *)
(*   src/pkg/db/postgresql/server.go  (the persisters, seen from Close)    *)
(* composed with the discovery and with the IP locator.                    *)
(*                                                                         *)
(* NewEthereumCrawler is a sequence of steps that may fail, and cancels    *)
(* the context when one does.  Close stops the services one after another  *)
(* and cancels the context at the end, so a service that does not come to  *)
(* its end keeps all the later ones running.                               *)
(*                                                                         *)
(* Nothing else cancels the context, and Close does it after both have     *)
(* ended, so the handler of the discovery and the updater of the metrics   *)
(* never see it done: their cases for it are left out.                     *)
(*                                                                         *)
(* The batches of the persisters are the subject of DBPersister; here a    *)
(* persister is launched, told to finish, and finishes.  The peering and   *)
(* the gossip only watch the context and are left out.                     *)
(***************************************************************************)
EXTENDS Discovery

CONSTANTS
  maxPersisters,  \* persisters that NewDBClient launches
  MaxInbound      \* bound: inbound connections

ASSUME CrawlerAssumption == maxPersisters \in Nat \ {0} /\ MaxInbound \in Nat

VARIABLES
  phase,       \* the step of New, Run or Close that the main goroutine is at
  persisters,  \* [new, run]: how many have not started yet, how many run
  updater,     \* launchMetricsUpdater: "off", "run" or "done"
  inbound      \* inbound connections so far

crawlerVars == <<phase, persisters, updater, inbound>>
vars == <<crawlerVars, discoveryVars, locatorVars, procVars>>

\* The steps of NewEthereumCrawler that may fail, each with the next one.
NewSteps == [key |-> "interval", interval |-> "db", db |-> "host", host |-> "dv5",
             dv5 |-> "msg_handler", msg_handler |-> "topics", topics |-> "strategy",
             strategy |-> "peering", peering |-> "run_locator"]

\* The steps of Close.
CloseSteps == {"disc_flag", "disc_wait", "disc_send", "host_close", "db_send",
               "db_wait", "metrics_close", "cancel", "closed"}

Init ==
  /\ LocatorInit
  /\ DiscoveryInit
  /\ phase = "key"
  /\ persisters = [new |-> 0, run |-> 0]
  /\ updater = "off"
  /\ inbound = 0
  /\ ctxDone = FALSE
  /\ persistClosed = FALSE
  /\ panic = "no"

-----------------------------------------------------------------------------
(* NewEthereumCrawler and Run.                                             *)

\* NewDBClient launches the persisters.
NewStep ==
  /\ phase \in DOMAIN NewSteps
  /\ phase' = NewSteps[phase]
  /\ persisters' = IF phase = "db" THEN [new |-> maxPersisters, run |-> 0] ELSE persisters
  /\ UNCHANGED <<updater, inbound, discoveryVars, locatorVars, procVars>>

\* A step fails.  NewDiscovery5 and a topic that cannot be joined panic instead.
NewFails ==
  /\ phase \in DOMAIN NewSteps
  /\ IF phase \in {"dv5", "topics"}
     THEN panic' = phase /\ UNCHANGED <<phase, ctxDone>>
     ELSE phase' = "failed" /\ ctxDone' = TRUE /\ UNCHANGED panic
  /\ UNCHANGED <<persisters, updater, inbound, discoveryVars, locatorVars, persistClosed>>

RunLocator ==
  /\ phase = "run_locator"
  /\ phase' = "run_host"
  /\ IpLocatorRun
  /\ UNCHANGED <<persisters, updater, inbound, discoveryVars, client, ipList,
                 locationRequest, requestClosed, tableVars, queued, served, procVars>>

RunHost ==
  /\ phase = "run_host"
  /\ phase' = "run_disc"
  /\ UNCHANGED <<persisters, updater, inbound, discoveryVars, locatorVars, procVars>>

RunDiscovery ==
  /\ phase = "run_disc"
  /\ phase' = "run_metrics"
  /\ DiscoveryStart
  /\ UNCHANGED <<persisters, updater, inbound, doneF, nodeClosed, found, locatorVars,
                 procVars>>

\* No initialisation of a metric returns an error, so Start launches the updater.
RunMetrics ==
  /\ phase = "run_metrics"
  /\ phase' = "running"
  /\ updater' = "run"
  /\ UNCHANGED <<persisters, inbound, discoveryVars, locatorVars, procVars>>

-----------------------------------------------------------------------------
(* The services while the crawler runs.                                    *)

\* The host listens once it is made, before the routines of the locator run, and
\* until it is closed.
Listening ==
  {"dv5", "msg_handler", "topics", "strategy", "peering", "run_locator", "run_host",
   "run_disc", "run_metrics", "running", "disc_flag", "disc_wait", "disc_send",
   "host_close"}

\* standardConnectF of an inbound connection.
Connected(c, ip) ==
  /\ phase \in Listening
  /\ inbound < MaxInbound
  /\ inbound' = inbound + 1
  /\ client[c].pc = "idle"
  /\ LocateIP(c, ip)
  /\ UNCHANGED <<phase, persisters, updater, discoveryVars, ipList, locationRequest,
                 requestClosed, reader, caller, tableVars, queued, served, procVars>>

\* The wait group learns of a persister when its goroutine starts.
LaunchPersister ==
  /\ persisters.new > 0
  /\ persisters' = [new |-> persisters.new - 1, run |-> persisters.run + 1]
  /\ UNCHANGED <<phase, updater, inbound, discoveryVars, locatorVars, procVars>>

PersisterDone ==
  /\ persisters.run > 0
  /\ ctxDone
  /\ persisters' = [persisters EXCEPT !.run = @ - 1]
  /\ UNCHANGED <<phase, updater, inbound, discoveryVars, locatorVars, procVars>>

-----------------------------------------------------------------------------
(* Close, after the signal.                                                *)

Signal ==
  /\ phase = "running"
  /\ phase' = "disc_flag"
  /\ UNCHANGED <<persisters, updater, inbound, discoveryVars, locatorVars, procVars>>

\* Mutant: the iterator is not told.
StopFlagMissing ==
  /\ phase = "disc_flag"
  /\ phase' = "disc_wait"
  /\ UNCHANGED <<persisters, updater, inbound, discoveryVars, locatorVars, procVars>>

\* Discovery5.Stop: the flag ...
StopFlag ==
  /\ phase = "disc_flag"
  /\ doneF' = TRUE
  /\ phase' = "disc_wait"
  /\ UNCHANGED <<persisters, updater, inbound, iterator, nodeClosed, handler, found,
                 locatorVars, procVars>>

\* Mutant: the channel is closed without waiting for the iterator.
StopCloseEarly ==
  /\ phase = "disc_wait"
  /\ nodeClosed' = TRUE
  /\ phase' = "disc_send"
  /\ UNCHANGED <<persisters, updater, inbound, doneF, iterator, handler, found,
                 locatorVars, procVars>>

\* ... and, when the iterator has ended, the channel.
StopClose ==
  /\ phase = "disc_wait"
  /\ iterator.pc = "done"
  /\ nodeClosed' = TRUE
  /\ phase' = "disc_send"
  /\ UNCHANGED <<persisters, updater, inbound, doneF, iterator, handler, found,
                 locatorVars, procVars>>

\* Discovery.Stop: the message to the handler, which ends.
StopSend ==
  /\ phase = "disc_send"
  /\ handler = "select"
  /\ handler' = "done"
  /\ phase' = "host_close"
  /\ UNCHANGED <<persisters, updater, inbound, doneF, iterator, nodeClosed, found,
                 locatorVars, procVars>>

HostClose ==
  /\ phase = "host_close"
  /\ phase' = "db_send"
  /\ UNCHANGED <<persisters, updater, inbound, discoveryVars, locatorVars, procVars>>

\* DBClient.Close: one message, which one persister receives.
DBSend ==
  /\ phase = "db_send"
  /\ persisters.run > 0
  /\ persisters' = [persisters EXCEPT !.run = @ - 1]
  /\ phase' = "db_wait"
  /\ UNCHANGED <<updater, inbound, discoveryVars, locatorVars, procVars>>

\* The wait group is down; the last backup, the pool, the channel.
DBClose ==
  /\ phase = "db_wait"
  /\ persisters.run = 0
  /\ persistClosed' = TRUE
  /\ phase' = "metrics_close"
  /\ UNCHANGED <<persisters, updater, inbound, discoveryVars, locatorVars, ctxDone,
                 panic>>

\* PrometheusMetrics.Close: the message needs an updater, and the wait its end.
MetricsClose ==
  /\ phase = "metrics_close"
  /\ updater = "run"
  /\ updater' = "done"
  /\ phase' = "cancel"
  /\ UNCHANGED <<persisters, inbound, discoveryVars, locatorVars, procVars>>

CancelContext ==
  /\ phase = "cancel"
  /\ ctxDone' = TRUE
  /\ phase' = "closed"
  /\ UNCHANGED <<persisters, updater, inbound, discoveryVars, locatorVars,
                 persistClosed, panic>>

CloseStep ==
  \/ StopFlag \/ StopClose \/ StopSend \/ HostClose
  \/ DBSend \/ DBClose \/ MetricsClose \/ CancelContext

-----------------------------------------------------------------------------

RunStep == RunLocator \/ RunHost \/ RunDiscovery \/ RunMetrics

PersisterStep == LaunchPersister \/ PersisterDone

Next ==
  /\ panic = "no"
  /\ \/ NewStep \/ NewFails \/ RunStep \/ Signal \/ CloseStep
     \/ \E c \in Clients \ {Handler}, ip \in IPs : Connected(c, ip)
     \/ PersisterStep
     \/ DiscoveryNext /\ UNCHANGED crawlerVars
     \/ LocatorNext /\ UNCHANGED <<crawlerVars, discoveryVars>>

Spec == Init /\ [][Next]_vars

\* Every goroutine goes on.  The network keeps answering the iterator of geth, and
\* the API does not limit the same address for ever: both are external.
ApiAnswers == \E a \in Answers \ {"too_many"} : ApiAnswer(a)

CallerGoes == ReceiveRequest \/ CallerTick

Fairness ==
  /\ WF_vars(panic = "no" /\ (NewStep \/ NewFails \/ RunStep \/ CloseStep))
  /\ WF_vars(panic = "no" /\ PersisterStep)
  /\ WF_vars(panic = "no" /\ (CheckDone \/ NextNode) /\ UNCHANGED crawlerVars)
  /\ WF_vars(panic = "no" /\ HandlerStep /\ UNCHANGED crawlerVars)
  /\ \A c \in Clients :
       WF_vars(panic = "no" /\ ClientStep(c) /\ UNCHANGED <<crawlerVars, discoveryVars>>)
  /\ WF_vars(panic = "no" /\ ReaderStep /\ UNCHANGED <<crawlerVars, discoveryVars>>)
  /\ WF_vars(panic = "no" /\ CallerGoes /\ UNCHANGED <<crawlerVars, discoveryVars>>)
  /\ SF_vars(panic = "no" /\ ApiAnswers /\ UNCHANGED <<crawlerVars, discoveryVars>>)

FairSpec == Spec /\ Fairness

-----------------------------------------------------------------------------
(* Properties.                                                             *)

TypeOK ==
  /\ LocatorTypeOK
  /\ doneF \in BOOLEAN /\ nodeClosed \in BOOLEAN
  /\ iterator \in [pc : {"off", "check", "next", "send", "done"},
                   ip : IPs \cup PrivateIPs \cup {None}]
  /\ handler \in {"off", "select", "locate", "done"}
  /\ found \in 0..MaxNodes
  /\ phase \in DOMAIN NewSteps \cup CloseSteps
       \cup {"run_locator", "run_host", "run_disc", "run_metrics", "running", "failed"}
  /\ persisters \in [new : 0..maxPersisters, run : 0..maxPersisters]
  /\ updater \in {"off", "run", "done"}
  /\ inbound \in 0..MaxInbound

\* The iterator never sends on nodeNotC after Stop has closed it.
IteratorEndsFirst == panic # "nodeNotC" /\ (nodeClosed => iterator.pc = "done")

\* Discovery.Stop comes to an end, or the handler reads the closed channel first.
StopReturns ==
  phase \in {"disc_flag", "disc_wait", "disc_send"} ~> phase = "host_close" \/ panic # "no"
=============================================================================
