----------------------------- MODULE IpLocator -----------------------------
(***************************************************************************)
(* The IP locator:                                                         *)
(*   src/pkg/utils/apis/ip_api.go          (LocateIP, ipQueue, routines)   *)
(*   src/pkg/db/postgresql/ips.go          (CheckIpRecords, UpsertIpInfo)  *)
(*                                                                         *)
(* Clients ask for the location of an address.  LocateIP puts it on a      *)
(* bounded list unless it is there or the database knows it; the reader    *)
(* moves it to a bounded channel; the caller asks the IP-API and hands the *)
(* answer to the database writer.  The API and the database are external:  *)
(* the API gives one of the Answers, the database may fail to answer a     *)
(* query.  An answer is abstracted to its error and to whether it asks for *)
(* a delay.                                                                *)
(*                                                                         *)
(* ipExists scans the list without its lock.  A scan that no change of the *)
(* list overlaps is exact; one that a removal overlaps, which moves the    *)
(* elements under it, may find anything.                                   *)
(***************************************************************************)
EXTENDS Naturals, Sequences, FiniteSets

CONSTANTS
  IPs,
  Clients,         \* goroutines that call LocateIP
  ipBuffSize,      \* capacity of the list
  ipChanBuffSize,  \* capacity of the channel locationRequest
  Answers,         \* bound: the answers the API may give in a run
  None

ASSUME LocatorAssumption ==
  /\ ipBuffSize \in Nat \ {0}
  /\ ipChanBuffSize \in Nat \ {0}
  /\ Answers \subseteq {"ok", "ok_delay", "error", "error_delay", "too_many", "no_ttl"}
  /\ None \notin IPs

VARIABLES
  client,           \* [pc, ip, saw]: saw is what the scan of ipExists may find
  ipList,           \* the list of ipQueue
  locationRequest,  \* the channel
  requestClosed,    \* is the channel closed?
  reader,           \* [pc, ip] of the reading routine
  caller,           \* [pc, ip] of the locating routine
  ips,              \* addresses with a row that has not expired
  answered,         \* answers handed to the database writer, not yet committed
  queued,           \* how many addresses the list has accepted
  served,           \* how many of them the API has answered for good
  ctxDone,          \* has the context of the crawler been cancelled?
  persistClosed,    \* has DBClient.Close closed the channel of the writer?
  panic             \* why the process died, or "no"

tableVars == <<ips, answered>>
procVars  == <<ctxDone, persistClosed, panic>>
locatorVars == <<client, ipList, locationRequest, requestClosed, reader, caller,
                 tableVars, queued, served>>

Contains(seq, e) == \E i \in 1..Len(seq) : seq[i] = e

\* A client outside LocateIP.
Idle == [pc |-> "idle", ip |-> None, saw |-> {}]

LocatorInit ==
  /\ client = [c \in Clients |-> Idle]
  /\ ipList = <<>>
  /\ locationRequest = <<>>
  /\ requestClosed = FALSE
  /\ reader = [pc |-> "off", ip |-> None]
  /\ caller = [pc |-> "off", ip |-> None]
  /\ ips = {}
  /\ answered = {}
  /\ queued = 0
  /\ served = 0

\* Run, from the crawler.
IpLocatorRun ==
  /\ reader' = [reader EXCEPT !.pc = "read"]
  /\ caller' = [caller EXCEPT !.pc = "idle"]

-----------------------------------------------------------------------------
(* LocateIP, in the goroutine of a client.                                 *)

\* The scan starts: what it finds if nothing changes the list meanwhile.
LocateIP(c, ip) ==
  client' = [client EXCEPT ![c] =
               [pc |-> "scan", ip |-> ip, saw |-> {Contains(ipList, ip)}]]

IpExists(c) ==
  /\ client[c].pc = "scan"
  /\ \E found \in client[c].saw :
       client' = [client EXCEPT ![c] =
                    IF found THEN Idle ELSE [@ EXCEPT !.pc = "check"]]
  /\ UNCHANGED <<ipList, locationRequest, requestClosed, reader, caller, tableVars,
                 queued, served, procVars>>

\* A row that is missing or has expired is to be located again; an error of the
\* query leaves exists FALSE.
CheckIpRecords(c) ==
  /\ client[c].pc = "check"
  /\ \E error \in BOOLEAN :
       client' = [client EXCEPT ![c] =
                    IF ~error /\ @.ip \in ips THEN Idle ELSE [@ EXCEPT !.pc = "add"]]
  /\ UNCHANGED <<ipList, locationRequest, requestClosed, reader, caller, tableVars,
                 queued, served, procVars>>

\* addItem: a full list is tried again every second, whatever the context says; an
\* address that is in the list is not added.
AddItem(c) ==
  /\ client[c].pc = "add"
  /\ Len(ipList) < ipBuffSize
  /\ IF Contains(ipList, client[c].ip)
     THEN UNCHANGED <<ipList, queued>>
     ELSE /\ ipList' = Append(ipList, client[c].ip)
          /\ queued' = queued + 1
  /\ client' = [client EXCEPT ![c] = Idle]
  /\ UNCHANGED <<locationRequest, requestClosed, reader, caller, tableVars, served,
                 procVars>>

-----------------------------------------------------------------------------
(* The reading routine.                                                    *)

\* Mutant: the routine ends when there is nothing to read.
ReadItemOrEnd ==
  /\ reader.pc = "read"
  /\ IF ipList = <<>>
     THEN /\ reader' = [reader EXCEPT !.pc = "done"]
          /\ UNCHANGED ipList
     ELSE /\ reader' = [pc |-> "send", ip |-> Head(ipList)]
          /\ ipList' = Tail(ipList)
  /\ UNCHANGED <<client, locationRequest, requestClosed, caller, tableVars, queued,
                 served, procVars>>

\* readItem moves the rest of the list under the scans of ipExists.
ReadItem ==
  /\ reader.pc = "read"
  /\ IF ipList = <<>>
     THEN /\ reader' = [reader EXCEPT !.pc = "tick"]
          /\ UNCHANGED <<ipList, client>>
     ELSE /\ reader' = [pc |-> "send", ip |-> Head(ipList)]
          /\ ipList' = Tail(ipList)
          /\ client' = [c \in Clients |->
                          IF client[c].pc = "scan"
                          THEN [client[c] EXCEPT !.saw = BOOLEAN] ELSE client[c]]
  /\ UNCHANGED <<locationRequest, requestClosed, caller, tableVars, queued, served,
                 procVars>>

\* The send blocks while the channel is full, and does not watch the context.
SendRequest ==
  /\ reader.pc = "send"
  /\ IF requestClosed
     THEN /\ panic' = "locationRequest"
          /\ UNCHANGED <<locationRequest, reader>>
     ELSE /\ Len(locationRequest) < ipChanBuffSize
          /\ locationRequest' = Append(locationRequest, reader.ip)
          /\ reader' = [pc |-> "tick", ip |-> None]
          /\ UNCHANGED panic
  /\ UNCHANGED <<client, ipList, requestClosed, caller, tableVars, queued, served,
                 ctxDone, persistClosed>>

ReaderTick ==
  /\ reader.pc = "tick"
  /\ \/ reader' = [reader EXCEPT !.pc = "read"]
     \/ ctxDone /\ reader' = [reader EXCEPT !.pc = "done"]
  /\ UNCHANGED <<client, ipList, locationRequest, requestClosed, caller, tableVars,
                 queued, served, procVars>>

-----------------------------------------------------------------------------
(* The locating routine.                                                   *)

ReceiveRequest ==
  /\ caller.pc = "idle"
  /\ locationRequest # <<>>
  /\ caller' = [pc |-> "call", ip |-> Head(locationRequest)]
  /\ locationRequest' = Tail(locationRequest)
  /\ UNCHANGED <<client, ipList, requestClosed, reader, tableVars, queued, served,
                 procVars>>

\* PersistToDB: the capacity of the channel of the writer is not reached.
PersistIpInfo(ip) ==
  IF persistClosed
  THEN panic' = "persistC" /\ UNCHANGED answered
  ELSE answered' = answered \cup {ip} /\ UNCHANGED panic

\* Mutant: an address that the API limits is not tried again.
ApiAnswerNoRetry(a) ==
  /\ caller.pc = "call"
  /\ a # "no_ttl"
  /\ IF a \in {"ok", "ok_delay"} THEN PersistIpInfo(caller.ip)
                                ELSE UNCHANGED <<answered, panic>>
  /\ served' = IF a = "too_many" THEN served ELSE served + 1
  /\ caller' = [pc |-> IF a \in {"ok", "error"} THEN "idle" ELSE "pause", ip |-> None]
  /\ UNCHANGED <<client, ipList, locationRequest, requestClosed, reader, ips, queued,
                 ctxDone, persistClosed>>

\* Mutant: an address that the API limits goes back to the list.
ApiAnswerRequeues(a) ==
  /\ caller.pc = "call"
  /\ IF a = "too_many"
     THEN /\ Len(ipList) < ipBuffSize
          /\ ipList' = Append(ipList, caller.ip)
          /\ UNCHANGED served
     ELSE /\ served' = served + 1
          /\ UNCHANGED ipList
  /\ caller' = [pc |-> "pause", ip |-> None]
  /\ UNCHANGED <<client, locationRequest, requestClosed, reader, tableVars, queued,
                 procVars>>

\* locateIp and the answer of CallIpApi.  An answer without the header X-Ttl is
\* indexed all the same.
ApiAnswer(a) ==
  /\ caller.pc = "call"
  /\ CASE a = "too_many" ->
            /\ caller' = [caller EXCEPT !.pc = "backoff"]
            /\ UNCHANGED <<answered, served, panic>>
       [] a = "no_ttl" ->
            /\ panic' = "no_ttl"
            /\ UNCHANGED <<answered, served, caller>>
       [] OTHER ->
            /\ IF a \in {"ok", "ok_delay"} THEN PersistIpInfo(caller.ip)
                                          ELSE UNCHANGED <<answered, panic>>
            /\ served' = served + 1
            /\ caller' = [pc |-> IF a \in {"ok", "error"} THEN "idle" ELSE "pause",
                          ip |-> None]
  /\ UNCHANGED <<client, ipList, locationRequest, requestClosed, reader, ips, queued,
                 ctxDone, persistClosed>>

\* The delay the API asked for is over.
CallerTick ==
  /\ \/ caller.pc = "backoff" /\ caller' = [caller EXCEPT !.pc = "call"]
     \/ caller.pc = "pause" /\ caller' = [caller EXCEPT !.pc = "idle"]
  /\ UNCHANGED <<client, ipList, locationRequest, requestClosed, reader, tableVars,
                 queued, served, procVars>>

\* The context ends: only an idle caller closes the channel.
CallerDone ==
  /\ ctxDone
  /\ caller.pc \in {"idle", "call", "backoff", "pause"}
  /\ caller' = [caller EXCEPT !.pc = "done"]
  /\ requestClosed' = (caller.pc = "idle")
  /\ UNCHANGED <<client, ipList, locationRequest, reader, tableVars, queued, served,
                 procVars>>

-----------------------------------------------------------------------------
(* The table ips.                                                          *)

\* A persister commits UpsertIpInfo, or its batch is given up.
CommitIpInfo(ip) ==
  /\ ip \in answered
  /\ answered' = answered \ {ip}
  /\ ips' \in {ips, ips \cup {ip}}
  /\ UNCHANGED <<client, ipList, locationRequest, requestClosed, reader, caller,
                 queued, served, procVars>>

\* 30 days pass.
Expire(ip) ==
  /\ ip \in ips
  /\ ips' = ips \ {ip}
  /\ UNCHANGED <<client, ipList, locationRequest, requestClosed, reader, caller,
                 answered, queued, served, procVars>>

-----------------------------------------------------------------------------

ClientStep(c) == IpExists(c) \/ CheckIpRecords(c) \/ AddItem(c)

ReaderStep == ReadItem \/ SendRequest \/ ReaderTick

CallerStep ==
  \/ ReceiveRequest \/ CallerTick \/ CallerDone
  \/ \E a \in Answers : ApiAnswer(a)

LocatorNext ==
  \/ \E c \in Clients : ClientStep(c)
  \/ ReaderStep \/ CallerStep
  \/ \E ip \in IPs : CommitIpInfo(ip) \/ Expire(ip)

-----------------------------------------------------------------------------
(* Properties.                                                             *)

\* The addresses between addItem and the final answer of the API, the next one to
\* be answered first.
Pending ==
  LET held(r) == IF r.ip = None THEN <<>> ELSE <<r.ip>>
  IN  held(caller) \o locationRequest \o held(reader) \o ipList

LocatorTypeOK ==
  /\ client \in [Clients -> [pc : {"idle", "scan", "check", "add"},
                            ip : IPs \cup {None}, saw : SUBSET BOOLEAN]]
  /\ \A c \in Clients : client[c].pc # "idle" => client[c].ip \in IPs
  /\ ipList \in Seq(IPs) /\ Len(ipList) <= ipBuffSize
  /\ locationRequest \in Seq(IPs) /\ Len(locationRequest) <= ipChanBuffSize
  /\ requestClosed \in BOOLEAN
  /\ reader \in [pc : {"off", "read", "send", "tick", "done"}, ip : IPs \cup {None}]
  /\ reader.pc = "send" <=> reader.ip # None
  /\ caller \in [pc : {"off", "idle", "call", "backoff", "pause", "done"},
                 ip : IPs \cup {None}]
  /\ caller.pc \in {"call", "backoff"} => caller.ip # None
  /\ caller.pc \in {"off", "idle", "pause"} => caller.ip = None
  /\ ips \subseteq IPs /\ answered \subseteq IPs
  /\ queued \in Nat /\ served \in Nat
  /\ ctxDone \in BOOLEAN /\ persistClosed \in BOOLEAN

\* Every address that addItem accepted is answered once by the API or still on its
\* way, in the hands of one routine: the rate limit and its retries lose none.
AddressesAccounted == queued = served + Len(Pending)

\* However the scans of ipExists race with the reader, addItem never lets an
\* address be twice in the list.
ListDistinct ==
  \A i, j \in 1..Len(ipList) : ipList[i] = ipList[j] => i = j

\* The list, the reader, the channel and the caller together are one bounded queue,
\* served in the order of arrival.
Line == INSTANCE LookupQueue WITH line <- Pending,
                                  Capacity <- ipBuffSize + ipChanBuffSize + 2

LookupsInOrder == Line!LineSpec

\* Every accepted address is answered for good, unless the crawler stops.
EveryLookupServed ==
  queued > served ~> queued = served \/ ctxDone \/ panic # "no"

\* LocateIP returns to the discovery and to the callbacks of the host: a full list
\* makes it wait, and the reader makes room.
EveryLocateReturns ==
  (\E c \in Clients : client[c].pc # "idle")
    ~> (\A c \in Clients : client[c].pc = "idle") \/ ctxDone \/ panic # "no"
=============================================================================
