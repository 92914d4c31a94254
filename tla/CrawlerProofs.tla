--------------------------- MODULE CrawlerProofs ---------------------------
(***************************************************************************)
(* The crawler, for any addresses, clients and capacities: the way of an   *)
(* address from LocateIP to the API is a bounded queue, served in order of *)
(* arrival, that loses nothing and holds nothing twice in its list; and    *)
(* the iterator of the discovery has ended before its channel is closed.   *)
(***************************************************************************)
EXTENDS Crawler, SequenceTheorems, TLAPS

-----------------------------------------------------------------------------
(* Sequences.                                                              *)

\* The first element of b moves to the empty hand between a and b.
LEMMA TakeHead ==
  ASSUME NEW S, NEW a \in Seq(S), NEW b \in Seq(S), b # <<>>
  PROVE  (a \o <<Head(b)>>) \o Tail(b) = a \o b
<1>1. /\ Head(b) \in S /\ Tail(b) \in Seq(S) /\ <<Head(b)>> \in Seq(S)
  BY HeadTailProperties
<1>2. <<Head(b)>> \o Tail(b) = b
  <2>1. <<Head(b)>> \o Tail(b) \in Seq(S) /\ Len(<<Head(b)>> \o Tail(b)) = Len(b)
    BY <1>1, HeadTailProperties, ConcatProperties, LenProperties
  <2>2. ASSUME NEW i \in 1..Len(b) PROVE (<<Head(b)>> \o Tail(b))[i] = b[i]
    BY <1>1, HeadTailProperties, ConcatProperties, LenProperties
  <2>. QED
    BY <2>1, <2>2, SeqEqual
<1>. QED
  BY <1>1, <1>2, ConcatAssociative

\* The last element of a \o b goes with b.
LEMMA AppendLast ==
  ASSUME NEW S, NEW a \in Seq(S), NEW b \in Seq(S), NEW e \in S
  PROVE  a \o Append(b, e) = Append(a \o b, e)
<1>1. <<e>> \in Seq(S) /\ a \o b \in Seq(S)
  BY ConcatProperties
<1>2. Append(b, e) = b \o <<e>> /\ Append(a \o b, e) = (a \o b) \o <<e>>
  BY <1>1, AppendIsConcat
<1>. QED
  BY <1>1, <1>2, ConcatAssociative

\* The element in the hand goes to the end of a.
LEMMA GiveLast ==
  ASSUME NEW S, NEW a \in Seq(S), NEW b \in Seq(S), NEW e \in S
  PROVE  (Append(a, e) \o <<>>) \o b = (a \o <<e>>) \o b
<1>1. Append(a, e) \in Seq(S) /\ Append(a, e) = a \o <<e>>
  BY AppendProperties, AppendIsConcat
<1>. QED
  BY <1>1, ConcatEmptySeq

\* Without its first element a sequence is the rest of it.
LEMMA DropFirst ==
  ASSUME NEW S, NEW e \in S, NEW b \in Seq(S)
  PROVE  <<e>> \o b # <<>> /\ Tail(<<e>> \o b) = b
<1>1. <<e>> \in Seq(S) /\ Len(<<e>>) = 1
  OBVIOUS
<1>2. /\ <<e>> \o b \in Seq(S) /\ Len(<<e>> \o b) = 1 + Len(b)
      /\ \A i \in 1 .. 1 + Len(b) : (<<e>> \o b)[i] = IF i <= 1 THEN <<e>>[i] ELSE b[i - 1]
  BY <1>1, ConcatProperties
<1>3. Len(b) \in Nat
  BY LenProperties
<1>4. <<e>> \o b # <<>>
  BY <1>2, <1>3, EmptySeq
<1>5. /\ Tail(<<e>> \o b) \in Seq(S) /\ Len(Tail(<<e>> \o b)) = Len(b)
      /\ \A i \in 1 .. Len(b) : Tail(<<e>> \o b)[i] = (<<e>> \o b)[i + 1]
  BY <1>2, <1>3, <1>4, HeadTailProperties
<1>6. \A i \in 1 .. Len(b) : Tail(<<e>> \o b)[i] = b[i]
  BY <1>2, <1>3, <1>5
<1>. QED
  BY <1>4, <1>5, <1>6, SeqEqual

\* The tail of a concatenation, when the first part has a tail.
LEMMA TailConcat ==
  ASSUME NEW S, NEW s \in Seq(S), NEW t \in Seq(S), s # <<>>
  PROVE  s \o t # <<>> /\ s \o t \in Seq(S) /\ Tail(s \o t) = Tail(s) \o t
<1>1. /\ Len(s) \in Nat \ {0} /\ Len(t) \in Nat
      /\ Tail(s) \in Seq(S) /\ Len(Tail(s)) = Len(s) - 1
      /\ \A i \in 1 .. Len(s) - 1 : Tail(s)[i] = s[i + 1]
  BY HeadTailProperties, LenProperties, EmptySeq
<1>2. /\ s \o t \in Seq(S) /\ Len(s \o t) = Len(s) + Len(t)
      /\ \A i \in 1 .. Len(s) + Len(t) : (s \o t)[i] = IF i <= Len(s) THEN s[i] ELSE t[i - Len(s)]
  BY ConcatProperties
<1>3. s \o t # <<>>
  BY <1>1, <1>2, EmptySeq
<1>4. /\ Tail(s \o t) \in Seq(S) /\ Len(Tail(s \o t)) = Len(s) + Len(t) - 1
      /\ \A i \in 1 .. Len(s) + Len(t) - 1 : Tail(s \o t)[i] = (s \o t)[i + 1]
  BY <1>1, <1>2, <1>3, HeadTailProperties
<1>5. /\ Tail(s) \o t \in Seq(S) /\ Len(Tail(s) \o t) = Len(s) - 1 + Len(t)
      /\ \A i \in 1 .. Len(s) - 1 + Len(t) :
           (Tail(s) \o t)[i] = IF i <= Len(s) - 1 THEN Tail(s)[i] ELSE t[i - (Len(s) - 1)]
  BY <1>1, ConcatProperties
<1>6. \A i \in 1 .. Len(s) + Len(t) - 1 : Tail(s \o t)[i] = (Tail(s) \o t)[i]
  <2>. SUFFICES ASSUME NEW i \in 1 .. Len(s) + Len(t) - 1
                PROVE  Tail(s \o t)[i] = (Tail(s) \o t)[i]
    OBVIOUS
  <2>1. CASE i <= Len(s) - 1
    BY <1>1, <1>2, <1>4, <1>5, <2>1
  <2>2. CASE ~(i <= Len(s) - 1)
    <3>1. i + 1 - Len(s) = i - (Len(s) - 1)
      BY <1>1
    <3>2. Tail(s \o t)[i] = t[i + 1 - Len(s)]
      BY <1>1, <1>2, <1>4, <2>2
    <3>3. (Tail(s) \o t)[i] = t[i - (Len(s) - 1)]
      BY <1>1, <1>5, <2>2
    <3>. QED
      BY <3>1, <3>2, <3>3
  <2>. QED
    BY <2>1, <2>2
<1>. QED
  BY <1>1, <1>2, <1>3, <1>4, <1>5, <1>6, SeqEqual

\* The first part of two is given away.
LEMMA GiveFirst ==
  ASSUME NEW S, NEW e \in S, NEW a \in Seq(S)
  PROVE  /\ <<e>> \o a \in Seq(S) /\ <<e>> \o a # <<>>
         /\ Tail(<<e>> \o a) = <<>> \o a
<1>1. <<>> \o a = a
  BY ConcatEmptySeq
<1>2. <<e>> \in Seq(S)
  OBVIOUS
<1>3. <<e>> \o a \in Seq(S)
  BY <1>2, ConcatProperties
<1>. QED
  BY <1>1, <1>3, DropFirst

-----------------------------------------------------------------------------
(* Types of the locator.                                                   *)

QueueOK ==
  /\ ipList \in Seq(IPs) /\ Len(ipList) <= ipBuffSize
  /\ locationRequest \in Seq(IPs) /\ Len(locationRequest) <= ipChanBuffSize

ClientOK ==
  /\ client \in [Clients -> [pc : {"idle", "scan", "check", "add"},
                            ip : IPs \cup {None}, saw : SUBSET BOOLEAN]]
  /\ \A c \in Clients : client[c].pc # "idle" => client[c].ip \in IPs

RoutinesOK ==
  /\ reader \in [pc : {"off", "read", "send", "tick", "done"}, ip : IPs \cup {None}]
  /\ reader.pc = "send" <=> reader.ip # None
  /\ caller \in [pc : {"off", "idle", "call", "backoff", "pause", "done"},
                 ip : IPs \cup {None}]
  /\ caller.pc \in {"call", "backoff"} => caller.ip # None
  /\ caller.pc \in {"off", "idle", "pause"} => caller.ip = None

TablesOK ==
  /\ requestClosed \in BOOLEAN
  /\ ips \subseteq IPs /\ answered \subseteq IPs
  /\ queued \in Nat /\ served \in Nat
  /\ ctxDone \in BOOLEAN /\ persistClosed \in BOOLEAN

\* The type of the IP locator, in four parts ...
LEMMA LocatorParts == LocatorTypeOK <=> QueueOK /\ ClientOK /\ RoutinesOK /\ TablesOK
BY DEF LocatorTypeOK, QueueOK, ClientOK, RoutinesOK, TablesOK

\* ... and after a step.
LEMMA LocatorPartsNext == LocatorTypeOK' <=> QueueOK' /\ ClientOK' /\ RoutinesOK' /\ TablesOK'
BY DEF LocatorTypeOK, QueueOK, ClientOK, RoutinesOK, TablesOK

\* What a step leaves alone keeps its type.
LEMMA Frame ==
  /\ QueueOK /\ UNCHANGED <<ipList, locationRequest>> => QueueOK'
  /\ ClientOK /\ UNCHANGED client => ClientOK'
  /\ RoutinesOK /\ UNCHANGED <<reader, caller>> => RoutinesOK'
  /\ TablesOK /\ UNCHANGED <<requestClosed, tableVars, queued, served, ctxDone, persistClosed>>
       => TablesOK'
BY DEF QueueOK, ClientOK, RoutinesOK, TablesOK, tableVars

\* A step of one client keeps the type of all.
LEMMA OneClient ==
  ASSUME ClientOK, NEW c \in Clients,
         NEW r \in [pc : {"idle", "scan", "check", "add"}, ip : IPs \cup {None},
                    saw : SUBSET BOOLEAN],
         r.pc # "idle" => r.ip \in IPs,
         client' = [client EXCEPT ![c] = r]
  PROVE  ClientOK'
BY DEF ClientOK

\* The idle client is well typed.
LEMMA IdleOK ==
  /\ Idle \in [pc : {"idle", "scan", "check", "add"}, ip : IPs \cup {None},
               saw : SUBSET BOOLEAN]
  /\ Idle.pc = "idle"
BY DEF Idle

\* A client enters LocateIP.
LEMMA LocateTyped ==
  ASSUME ClientOK, NEW c \in Clients, NEW ip \in IPs, LocateIP(c, ip)
  PROVE  ClientOK'
<1>. DEFINE r == [pc |-> "scan", ip |-> ip, saw |-> {Contains(ipList, ip)}]
<1>1. Contains(ipList, ip) \in BOOLEAN
  BY DEF Contains
<1>2. r \in [pc : {"idle", "scan", "check", "add"}, ip : IPs \cup {None},
             saw : SUBSET BOOLEAN] /\ r.ip \in IPs
  BY <1>1
<1>3. client' = [client EXCEPT ![c] = r]
  BY DEF LocateIP
<1>. HIDE DEF r
<1>. QED
  BY <1>2, <1>3, OneClient, Zenon

\* LocateIP keeps the types: the list is extended only below ipBuffSize.
LEMMA ClientTyped ==
  ASSUME LocatorTypeOK, NEW c \in Clients, ClientStep(c)
  PROVE  LocatorTypeOK'
<1>0. QueueOK /\ ClientOK /\ RoutinesOK /\ TablesOK
  BY LocatorParts
<1>. DEFINE K == [pc : {"idle", "scan", "check", "add"}, ip : IPs \cup {None},
                  saw : SUBSET BOOLEAN]
<1>1. client \in [Clients -> K] /\ client[c] \in K /\ (client[c].pc # "idle" => client[c].ip \in IPs)
  BY <1>0 DEF ClientOK
<1>2. ASSUME NEW pc \in {"check", "add"}, client[c].pc # "idle",
             \/ client' = [client EXCEPT ![c] = Idle]
             \/ client' = [client EXCEPT ![c].pc = pc]
      PROVE  ClientOK'
  <2>. DEFINE r == [client[c] EXCEPT !.pc = pc]
  <2>1. r \in K /\ r.ip \in IPs
    BY <1>1, <1>2
  <2>2. CASE client' = [client EXCEPT ![c] = Idle]
    BY <1>0, <2>2, IdleOK, OneClient, Zenon
  <2>3. CASE client' = [client EXCEPT ![c].pc = pc]
    <3>1. client' = [client EXCEPT ![c] = r]
      BY <2>3
    <3>. HIDE DEF r
    <3>. QED
      BY <1>0, <2>1, <3>1, OneClient, Zenon
  <2>. QED
    BY <1>2, <2>2, <2>3
<1>3. CASE IpExists(c)
  <2>1. ClientOK'
    <3>1. \/ client' = [client EXCEPT ![c] = Idle]
          \/ client' = [client EXCEPT ![c].pc = "check"]
      BY <1>1, <1>3, Zenon DEF IpExists
    <3>. QED
      BY <1>2, <1>3, <3>1 DEF IpExists
  <2>. QED
    BY <1>0, <1>3, <2>1, Frame, LocatorPartsNext DEF IpExists, procVars
<1>4. CASE CheckIpRecords(c)
  <2>1. ClientOK'
    <3>1. \/ client' = [client EXCEPT ![c] = Idle]
          \/ client' = [client EXCEPT ![c].pc = "add"]
      BY <1>1, <1>4, Zenon DEF CheckIpRecords
    <3>. QED
      BY <1>2, <1>4, <3>1 DEF CheckIpRecords
  <2>. QED
    BY <1>0, <1>4, <2>1, Frame, LocatorPartsNext DEF CheckIpRecords, procVars
<1>5. CASE AddItem(c)
  <2>1. ClientOK'
    BY <1>2, <1>5 DEF AddItem
  <2>2. QueueOK' /\ queued' \in Nat
    <3>1. client[c].ip \in IPs /\ queued \in Nat
      BY <1>0, <1>1, <1>5 DEF AddItem, TablesOK
    <3>2. CASE ipList' = ipList /\ queued' = queued
      BY <1>0, <1>5, <3>1, <3>2 DEF QueueOK, AddItem
    <3>3. CASE ipList' = Append(ipList, client[c].ip) /\ queued' = queued + 1
      <4>1. ipList' \in Seq(IPs) /\ Len(ipList') = Len(ipList) + 1
        BY <1>0, <3>1, <3>3, AppendProperties DEF QueueOK
      <4>2. Len(ipList) \in Nat /\ Len(ipList) < ipBuffSize
        BY <1>0, <1>5, LenProperties DEF QueueOK, AddItem
      <4>. QED
        BY <1>0, <1>5, <3>1, <3>3, <4>1, <4>2, LocatorAssumption DEF QueueOK, AddItem
    <3>. QED
      BY <1>5, <3>2, <3>3 DEF AddItem
  <2>3. TablesOK'
    BY <1>0, <1>5, <2>2 DEF AddItem, TablesOK, tableVars, procVars
  <2>. QED
    BY <1>0, <1>5, <2>1, <2>2, <2>3, Frame, LocatorPartsNext DEF AddItem
<1>. QED
  BY <1>3, <1>4, <1>5 DEF ClientStep

\* The reading routine keeps the types: it sends only below ipChanBuffSize.
LEMMA ReaderTyped ==
  ASSUME LocatorTypeOK, ReaderStep
  PROVE  LocatorTypeOK'
<1>0. QueueOK /\ ClientOK /\ RoutinesOK /\ TablesOK
  BY LocatorParts
<1>1. CASE ReadItem
  <2>1. CASE ipList = <<>>
    <3>1. reader' = [reader EXCEPT !.pc = "tick"] /\ UNCHANGED <<ipList, client>>
      BY <1>1, <2>1 DEF ReadItem
    <3>2. RoutinesOK'
      BY <1>0, <1>1, <3>1 DEF ReadItem, RoutinesOK
    <3>. QED
      BY <1>0, <1>1, <3>1, <3>2, Frame, LocatorPartsNext DEF ReadItem, procVars
  <2>2. CASE ipList # <<>>
    <3>1. Head(ipList) \in IPs /\ Tail(ipList) \in Seq(IPs) /\ Len(Tail(ipList)) = Len(ipList) - 1
      BY <1>0, <2>2, HeadTailProperties DEF QueueOK
    <3>2. reader' = [pc |-> "send", ip |-> Head(ipList)] /\ ipList' = Tail(ipList)
      BY <1>1, <2>2 DEF ReadItem
    <3>3. Len(ipList) \in Nat
      BY <1>0, LenProperties DEF QueueOK
    <3>4. QueueOK'
      BY <1>0, <1>1, <3>1, <3>2, <3>3, LocatorAssumption DEF QueueOK, ReadItem
    <3>5. RoutinesOK'
      BY <1>0, <1>1, <3>1, <3>2, LocatorAssumption DEF RoutinesOK, ReadItem
    <3>6. ClientOK'
      <4>1. client' = [c \in Clients |-> IF client[c].pc = "scan"
                                         THEN [client[c] EXCEPT !.saw = BOOLEAN] ELSE client[c]]
        BY <1>1, <2>2 DEF ReadItem
      <4>. SUFFICES ASSUME NEW c \in Clients
                    PROVE  /\ client'[c] \in [pc : {"idle", "scan", "check", "add"},
                                              ip : IPs \cup {None}, saw : SUBSET BOOLEAN]
                           /\ client'[c].pc # "idle" => client'[c].ip \in IPs
        BY <4>1, Zenon DEF ClientOK
      <4>2. CASE client[c].pc = "scan"
        BY <1>0, <4>1, <4>2 DEF ClientOK
      <4>3. CASE client[c].pc # "scan"
        BY <1>0, <4>1, <4>3 DEF ClientOK
      <4>. QED
        BY <4>2, <4>3
    <3>. QED
      BY <1>0, <1>1, <3>4, <3>5, <3>6, Frame, LocatorPartsNext DEF ReadItem, procVars
  <2>. QED
    BY <2>1, <2>2
<1>2. CASE SendRequest
  <2>1. CASE requestClosed
    BY <1>0, <1>2, <2>1, Frame, LocatorPartsNext DEF SendRequest
  <2>2. CASE ~requestClosed
    <3>1. reader.ip \in IPs
      BY <1>0, <1>2 DEF SendRequest, RoutinesOK
    <3>2. /\ locationRequest' = Append(locationRequest, reader.ip)
          /\ reader' = [pc |-> "tick", ip |-> None]
          /\ Len(locationRequest) < ipChanBuffSize
      BY <1>2, <2>2 DEF SendRequest
    <3>3. locationRequest' \in Seq(IPs) /\ Len(locationRequest') = Len(locationRequest) + 1
      BY <1>0, <3>1, <3>2, AppendProperties DEF QueueOK
    <3>4. Len(locationRequest) \in Nat
      BY <1>0, LenProperties DEF QueueOK
    <3>5. QueueOK'
      BY <1>0, <1>2, <3>2, <3>3, <3>4, LocatorAssumption DEF QueueOK, SendRequest
    <3>6. RoutinesOK'
      BY <1>0, <1>2, <3>2 DEF RoutinesOK, SendRequest
    <3>. QED
      BY <1>0, <1>2, <3>5, <3>6, Frame, LocatorPartsNext DEF SendRequest
  <2>. QED
    BY <2>1, <2>2
<1>3. CASE ReaderTick
  <2>1. RoutinesOK'
    BY <1>0, <1>3 DEF ReaderTick, RoutinesOK
  <2>. QED
    BY <1>0, <1>3, <2>1, Frame, LocatorPartsNext DEF ReaderTick, procVars
<1>. QED
  BY <1>1, <1>2, <1>3 DEF ReaderStep

\* The locating routine keeps the types.
LEMMA CallerTyped ==
  ASSUME LocatorTypeOK, CallerStep
  PROVE  LocatorTypeOK'
<1>0. QueueOK /\ ClientOK /\ RoutinesOK /\ TablesOK
  BY LocatorParts
<1>1. CASE ReceiveRequest
  <2>1. /\ Head(locationRequest) \in IPs /\ Tail(locationRequest) \in Seq(IPs)
        /\ Len(Tail(locationRequest)) = Len(locationRequest) - 1
        /\ Len(locationRequest) \in Nat
    BY <1>0, <1>1, HeadTailProperties, LenProperties DEF QueueOK, ReceiveRequest
  <2>2. QueueOK'
    BY <1>0, <1>1, <2>1, LocatorAssumption DEF QueueOK, ReceiveRequest
  <2>3. RoutinesOK'
    BY <1>0, <1>1, <2>1, LocatorAssumption DEF RoutinesOK, ReceiveRequest
  <2>. QED
    BY <1>0, <1>1, <2>2, <2>3, Frame, LocatorPartsNext DEF ReceiveRequest, procVars
<1>2. CASE CallerTick
  <2>1. RoutinesOK'
    BY <1>0, <1>2 DEF RoutinesOK, CallerTick
  <2>. QED
    BY <1>0, <1>2, <2>1, Frame, LocatorPartsNext DEF CallerTick, procVars
<1>3. CASE CallerDone
  <2>1. RoutinesOK'
    BY <1>0, <1>3 DEF RoutinesOK, CallerDone
  <2>2. TablesOK'
    BY <1>0, <1>3 DEF TablesOK, CallerDone, tableVars, procVars
  <2>. QED
    BY <1>0, <1>3, <2>1, <2>2, Frame, LocatorPartsNext DEF CallerDone
<1>4. ASSUME NEW a \in Answers, ApiAnswer(a) PROVE LocatorTypeOK'
  <2>0. caller.ip \in IPs
    BY <1>0, <1>4 DEF RoutinesOK, ApiAnswer
  <2>1. RoutinesOK'
    <3>1. \/ caller' = [caller EXCEPT !.pc = "backoff"]
          \/ caller' = caller
          \/ caller' = [pc |-> "idle", ip |-> None]
          \/ caller' = [pc |-> "pause", ip |-> None]
      BY <1>4 DEF ApiAnswer
    <3>2. UNCHANGED reader /\ caller.pc = "call"
      BY <1>4 DEF ApiAnswer
    <3>. QED
      BY <1>0, <3>1, <3>2 DEF RoutinesOK
  <2>2. TablesOK'
    <3>1. answered' \subseteq IPs
      BY <1>0, <1>4, <2>0 DEF ApiAnswer, PersistIpInfo, TablesOK
    <3>2. served' \in Nat
      BY <1>0, <1>4 DEF ApiAnswer, TablesOK
    <3>. QED
      BY <1>0, <1>4, <3>1, <3>2 DEF ApiAnswer, TablesOK
  <2>. QED
    BY <1>0, <1>4, <2>1, <2>2, Frame, LocatorPartsNext DEF ApiAnswer
<1>. QED
  BY <1>1, <1>2, <1>3, <1>4 DEF CallerStep

\* Every step of the IP locator keeps its types.
LEMMA LocatorTyped ==
  ASSUME LocatorTypeOK, LocatorNext
  PROVE  LocatorTypeOK'
<1>0. QueueOK /\ ClientOK /\ RoutinesOK /\ TablesOK
  BY LocatorParts
<1>1. ASSUME NEW ip \in IPs, CommitIpInfo(ip) \/ Expire(ip) PROVE LocatorTypeOK'
  <2>1. TablesOK'
    BY <1>0, <1>1 DEF TablesOK, CommitIpInfo, Expire, procVars
  <2>. QED
    BY <1>0, <1>1, <2>1, Frame, LocatorPartsNext DEF CommitIpInfo, Expire
<1>. QED
  BY <1>1, ClientTyped, ReaderTyped, CallerTyped DEF LocatorNext

-----------------------------------------------------------------------------
(* The queue.                                                              *)

Capacity == ipBuffSize + ipChanBuffSize + 2

\* An address is accepted, answered, or moved from one hand to the next.
Joins == \E ip \in IPs : /\ Len(Pending) < Capacity /\ Pending' = Append(Pending, ip)
                         /\ queued' = queued + 1 /\ served' = served
Serves == /\ Pending # <<>> /\ Pending' = Tail(Pending)
          /\ served' = served + 1 /\ queued' = queued
Waits == Pending' = Pending /\ queued' = queued /\ served' = served

\* What a routine holds.
Held(r) == IF r.ip = None THEN <<>> ELSE <<r.ip>>

\* A routine holds one address at most.
LEMMA HeldOK ==
  ASSUME RoutinesOK
  PROVE  /\ Held(caller) \in Seq(IPs) /\ Len(Held(caller)) <= 1 /\ Len(Held(caller)) \in Nat
         /\ Held(reader) \in Seq(IPs) /\ Len(Held(reader)) <= 1 /\ Len(Held(reader)) \in Nat
<1>1. caller.ip \in IPs \cup {None} /\ reader.ip \in IPs \cup {None}
  BY DEF RoutinesOK
<1>2. \A ip \in IPs : <<ip>> \in Seq(IPs) /\ Len(<<ip>>) = 1
  OBVIOUS
<1>3. <<>> \in Seq(IPs) /\ Len(<<>>) = 0
  BY EmptySeq
<1>. QED
  BY <1>1, <1>2, <1>3 DEF Held

\* The queue, by who holds what ...
LEMMA PendingIs == Pending = ((Held(caller) \o locationRequest) \o Held(reader)) \o ipList
BY DEF Pending, Held

\* ... and after a step.
LEMMA PendingIsNext ==
  Pending' = ((Held(caller') \o locationRequest') \o Held(reader')) \o ipList'
BY DEF Pending, Held

\* The queue is never longer than its places.
LEMMA PendingLen ==
  ASSUME LocatorTypeOK
  PROVE  /\ Pending \in Seq(IPs)
         /\ Len(Pending) \in Nat
         /\ Len(Pending) <= Len(locationRequest) + Len(ipList) + 2
<1>0. QueueOK /\ RoutinesOK
  BY LocatorParts
<1>. DEFINE a == Held(caller)
            b == Held(reader)
<1>1. a \in Seq(IPs) /\ Len(a) <= 1 /\ Len(a) \in Nat /\ b \in Seq(IPs) /\ Len(b) <= 1 /\ Len(b) \in Nat
  BY <1>0, HeldOK
<1>2. /\ locationRequest \in Seq(IPs) /\ ipList \in Seq(IPs)
      /\ Len(locationRequest) \in Nat /\ Len(ipList) \in Nat
  BY <1>0, LenProperties DEF QueueOK
<1>. HIDE DEF a, b
<1>3. a \o locationRequest \in Seq(IPs) /\ Len(a \o locationRequest) = Len(a) + Len(locationRequest)
  BY <1>1, <1>2, ConcatProperties
<1>4. /\ (a \o locationRequest) \o b \in Seq(IPs)
      /\ Len((a \o locationRequest) \o b) = Len(a) + Len(locationRequest) + Len(b)
  BY <1>1, <1>3, ConcatProperties
<1>5. /\ ((a \o locationRequest) \o b) \o ipList \in Seq(IPs)
      /\ Len(((a \o locationRequest) \o b) \o ipList)
           = Len(a) + Len(locationRequest) + Len(b) + Len(ipList)
  BY <1>2, <1>4, ConcatProperties
<1>6. Pending = ((a \o locationRequest) \o b) \o ipList
  BY PendingIs DEF a, b
<1>. QED
  BY <1>1, <1>2, <1>5, <1>6

\* addItem puts an address at the end of the queue, or leaves it alone.
LEMMA AddItemJoins ==
  ASSUME LocatorTypeOK, NEW c \in Clients, AddItem(c)
  PROVE  Joins \/ Waits
<1>0. QueueOK /\ RoutinesOK /\ ClientOK
  BY LocatorParts
<1>1. UNCHANGED <<caller, reader, locationRequest, served>>
  BY DEF AddItem
<1>2. CASE ipList' = ipList /\ queued' = queued
  BY <1>1, <1>2, PendingIs, PendingIsNext DEF Waits
<1>3. CASE ipList' = Append(ipList, client[c].ip) /\ queued' = queued + 1
  <2>. DEFINE a == (Held(caller) \o locationRequest) \o Held(reader)
  <2>1. client[c].ip \in IPs /\ ipList \in Seq(IPs) /\ locationRequest \in Seq(IPs)
    BY <1>0 DEF AddItem, ClientOK, QueueOK
  <2>2. a \in Seq(IPs)
    BY <1>0, <2>1, HeldOK, ConcatProperties
  <2>3. Pending = a \o ipList /\ Pending' = a \o ipList'
    BY <1>1, PendingIs, PendingIsNext
  <2>. HIDE DEF a
  <2>4. Pending' = Append(Pending, client[c].ip)
    BY <1>3, <2>1, <2>2, <2>3, AppendLast
  <2>5. Len(Pending) < Capacity
    BY <1>0, <2>1, PendingLen, LenProperties, LocatorAssumption DEF Capacity, AddItem, QueueOK
  <2>. QED
    BY <1>1, <1>3, <2>1, <2>4, <2>5 DEF Joins
<1>. QED
  BY <1>2, <1>3 DEF AddItem

\* The reading routine moves an address within the queue.
LEMMA ReaderWaits ==
  ASSUME LocatorTypeOK, ReaderStep
  PROVE  Waits
<1>0. QueueOK /\ RoutinesOK
  BY LocatorParts
<1>1. ipList \in Seq(IPs) /\ locationRequest \in Seq(IPs) /\ Held(caller) \in Seq(IPs)
  BY <1>0, HeldOK DEF QueueOK
<1>2. Held(caller) \o locationRequest \in Seq(IPs)
  BY <1>1, ConcatProperties
<1>3. UNCHANGED <<caller, queued, served>>
  BY DEF ReaderStep, ReadItem, SendRequest, ReaderTick
<1>4. ASSUME UNCHANGED <<ipList, locationRequest>>, reader'.ip = reader.ip PROVE Waits
  BY <1>3, <1>4, PendingIs, PendingIsNext DEF Waits, Held
<1>5. CASE ReadItem
  <2>1. CASE ipList = <<>>
    <3>1. reader'.ip = reader.ip
      BY <1>0, <1>5, <2>1 DEF ReadItem, RoutinesOK
    <3>. QED
      BY <1>4, <1>5, <2>1, <3>1 DEF ReadItem
  <2>2. CASE ipList # <<>>
    <3>1. reader' = [pc |-> "send", ip |-> Head(ipList)] /\ ipList' = Tail(ipList)
            /\ locationRequest' = locationRequest
      BY <1>5, <2>2 DEF ReadItem
    <3>2. reader.ip = None /\ Head(ipList) \in IPs
      BY <1>0, <1>1, <1>5, <2>2, HeadTailProperties DEF ReadItem, RoutinesOK
    <3>3. Held(reader) = <<>> /\ Held(reader') = <<Head(ipList)>>
      BY <3>1, <3>2, LocatorAssumption DEF Held
    <3>. DEFINE a == Held(caller) \o locationRequest
    <3>4. Pending = (a \o <<>>) \o ipList /\ Pending' = (a \o <<Head(ipList)>>) \o Tail(ipList)
      BY <1>3, <3>1, <3>3, PendingIs, PendingIsNext
    <3>5. a \in Seq(IPs)
      BY <1>2
    <3>. HIDE DEF a
    <3>6. a \o <<>> = a
      BY <3>5, ConcatEmptySeq
    <3>7. Pending' = Pending
      BY <1>1, <2>2, <3>4, <3>5, <3>6, TakeHead
    <3>. QED
      BY <1>3, <3>7 DEF Waits
  <2>. QED
    BY <2>1, <2>2
<1>6. CASE SendRequest
  <2>1. CASE requestClosed
    BY <1>4, <1>6, <2>1 DEF SendRequest
  <2>2. CASE ~requestClosed
    <3>1. /\ locationRequest' = Append(locationRequest, reader.ip)
          /\ reader' = [pc |-> "tick", ip |-> None] /\ ipList' = ipList
      BY <1>6, <2>2 DEF SendRequest
    <3>2. reader.ip \in IPs /\ reader.ip # None
      BY <1>0, <1>6 DEF SendRequest, RoutinesOK
    <3>3. Held(reader) = <<reader.ip>> /\ Held(reader') = <<>>
      BY <3>1, <3>2 DEF Held
    <3>. DEFINE a == Held(caller) \o locationRequest
    <3>4. Held(caller) \o locationRequest' = Append(a, reader.ip)
      BY <1>1, <3>1, <3>2, AppendLast
    <3>5. /\ Pending = (a \o <<reader.ip>>) \o ipList
          /\ Pending' = (Append(a, reader.ip) \o <<>>) \o ipList
      BY <1>3, <3>1, <3>3, <3>4, PendingIs, PendingIsNext, Zenon
    <3>6. a \in Seq(IPs)
      BY <1>2
    <3>. HIDE DEF a
    <3>7. Pending' = Pending
      BY <1>1, <3>2, <3>5, <3>6, GiveLast
    <3>. QED
      BY <1>3, <3>7 DEF Waits
  <2>. QED
    BY <2>1, <2>2
<1>7. CASE ReaderTick
  <2>1. reader'.ip = reader.ip
    BY <1>0, <1>7 DEF ReaderTick, RoutinesOK
  <2>. QED
    BY <1>4, <1>7, <2>1 DEF ReaderTick
<1>. QED
  BY <1>5, <1>6, <1>7 DEF ReaderStep

\* The locating routine takes the first address from the queue when it is answered.
LEMMA CallerServes ==
  ASSUME LocatorTypeOK, CallerStep
  PROVE  Serves \/ Waits
<1>0. QueueOK /\ RoutinesOK /\ TablesOK
  BY LocatorParts
<1>1. /\ ipList \in Seq(IPs) /\ locationRequest \in Seq(IPs) /\ Held(reader) \in Seq(IPs)
      /\ caller \in [pc : {"off", "idle", "call", "backoff", "pause", "done"},
                     ip : IPs \cup {None}]
  BY <1>0, HeldOK DEF QueueOK, RoutinesOK
<1>2. UNCHANGED <<ipList, reader, queued>>
  BY DEF CallerStep, ReceiveRequest, CallerTick, CallerDone, ApiAnswer
<1>3. ASSUME UNCHANGED <<locationRequest, served>>, caller'.ip = caller.ip PROVE Waits
  BY <1>2, <1>3, PendingIs, PendingIsNext DEF Waits, Held
<1>4. CASE ReceiveRequest
  <2>1. /\ caller' = [pc |-> "call", ip |-> Head(locationRequest)]
        /\ locationRequest' = Tail(locationRequest) /\ locationRequest # <<>>
        /\ served' = served /\ caller.ip = None
    BY <1>0, <1>4 DEF ReceiveRequest, RoutinesOK
  <2>2. Head(locationRequest) \in IPs /\ Tail(locationRequest) \in Seq(IPs)
    BY <1>1, <2>1, HeadTailProperties
  <2>3. Held(caller) = <<>> /\ Held(caller') = <<Head(locationRequest)>>
    BY <2>1, <2>2, LocatorAssumption DEF Held
  <2>4. <<>> \in Seq(IPs) /\ <<Head(locationRequest)>> \in Seq(IPs)
    BY <2>2
  <2>5. <<>> \o <<Head(locationRequest)>> = <<Head(locationRequest)>>
    BY <2>4, ConcatEmptySeq
  <2>6. Held(caller') \o locationRequest' = Held(caller) \o locationRequest
    <3>1. (<<>> \o <<Head(locationRequest)>>) \o Tail(locationRequest) = <<>> \o locationRequest
      BY <1>1, <2>1, <2>4, TakeHead
    <3>. QED
      BY <2>1, <2>3, <2>5, <3>1, Zenon
  <2>. QED
    BY <1>2, <2>1, <2>6, PendingIs, PendingIsNext DEF Waits
<1>5. CASE CallerTick
  <2>1. caller'.ip = caller.ip
    BY <1>1, <1>5 DEF CallerTick
  <2>. QED
    BY <1>3, <1>5, <2>1 DEF CallerTick
<1>6. CASE CallerDone
  <2>1. caller'.ip = caller.ip
    BY <1>1, <1>6 DEF CallerDone
  <2>. QED
    BY <1>3, <1>6, <2>1 DEF CallerDone
<1>7. ASSUME NEW a \in Answers, ApiAnswer(a) PROVE Serves \/ Waits
  <2>1. caller.ip \in IPs /\ caller.ip # None /\ locationRequest' = locationRequest
    BY <1>0, <1>7 DEF ApiAnswer, RoutinesOK
  <2>2. CASE caller'.ip = caller.ip /\ served' = served
    BY <1>3, <2>1, <2>2
  <2>3. CASE caller'.ip = None /\ served' = served + 1
    <3>1. Held(caller) = <<caller.ip>> /\ Held(caller') = <<>>
      BY <2>1, <2>3 DEF Held
    <3>2. PICK e \in IPs, a1 \in Seq(IPs), b \in Seq(IPs), c \in Seq(IPs) :
            e = caller.ip /\ a1 = locationRequest /\ b = Held(reader) /\ c = ipList
      BY <1>1, <2>1, Zenon
    <3>3. PICK s, first : s = <<e>> \o a1 /\ first = <<>> \o a1
      BY Zenon
    <3>4. s \in Seq(IPs) /\ s # <<>> /\ Tail(s) = first
      BY <3>3, GiveFirst
    <3>5. PICK t : t = s \o b
      BY Zenon
    <3>6. t \in Seq(IPs) /\ t # <<>> /\ Tail(t) = Tail(s) \o b
      BY <3>4, <3>5, TailConcat
    <3>7. t \o c # <<>> /\ Tail(t \o c) = Tail(t) \o c
      BY <3>6, TailConcat
    <3>8. Pending = t \o c
      BY <3>1, <3>2, <3>3, <3>5, PendingIs, Zenon
    <3>9. Pending' = Tail(t) \o c
      BY <1>2, <2>1, <3>1, <3>2, <3>3, <3>4, <3>6, PendingIsNext, Zenon
    <3>. QED
      BY <1>2, <2>3, <3>7, <3>8, <3>9, Zenon DEF Serves
  <2>4. \/ caller'.ip = caller.ip /\ served' = served
        \/ caller'.ip = None /\ served' = served + 1
    BY <1>1, <1>7 DEF ApiAnswer
  <2>. QED
    BY <2>2, <2>3, <2>4
<1>. QED
  BY <1>4, <1>5, <1>6, <1>7 DEF CallerStep

\* Every step of the IP locator extends, serves or keeps the queue.
LEMMA LocatorMoves ==
  ASSUME LocatorTypeOK, LocatorNext
  PROVE  Joins \/ Serves \/ Waits
<1>1. ASSUME UNCHANGED <<caller, reader, ipList, locationRequest, queued, served>>
      PROVE  Waits
  BY <1>1, PendingIs, PendingIsNext DEF Waits
<1>2. ASSUME NEW c \in Clients, ClientStep(c) PROVE Joins \/ Waits
  BY <1>1, <1>2, AddItemJoins DEF ClientStep, IpExists, CheckIpRecords
<1>3. ASSUME NEW ip \in IPs, CommitIpInfo(ip) \/ Expire(ip) PROVE Waits
  BY <1>1, <1>3 DEF CommitIpInfo, Expire
<1>. QED
  BY <1>2, <1>3, ReaderWaits, CallerServes DEF LocatorNext

\* addItem looks for the address under the lock.
LEMMA LocatorDistinct ==
  ASSUME LocatorTypeOK, ListDistinct, LocatorNext
  PROVE  ListDistinct'
<1>0. ipList \in Seq(IPs) /\ Len(ipList) \in Nat
  BY LenProperties DEF LocatorTypeOK
<1>1. ASSUME NEW c \in Clients, AddItem(c) PROVE ListDistinct'
  <2>1. CASE ipList' = ipList
    BY <2>1 DEF ListDistinct
  <2>2. CASE ~Contains(ipList, client[c].ip) /\ ipList' = Append(ipList, client[c].ip)
    <3>1. client[c].ip \in IPs
      BY <1>1 DEF LocatorTypeOK, AddItem
    <3>2. /\ Len(ipList') = Len(ipList) + 1
          /\ \A i \in 1..Len(ipList) : ipList'[i] = ipList[i] /\ ipList[i] # client[c].ip
          /\ ipList'[Len(ipList) + 1] = client[c].ip
      BY <1>0, <2>2, <3>1, AppendProperties DEF Contains
    <3>. QED
      BY <1>0, <3>2 DEF ListDistinct
  <2>. QED
    BY <1>1, <2>1, <2>2 DEF AddItem
<1>2. CASE ReadItem
  <2>1. CASE ipList = <<>>
    BY <1>2, <2>1 DEF ReadItem, ListDistinct
  <2>2. CASE ipList # <<>>
    <3>1. /\ ipList' = Tail(ipList) /\ Len(Tail(ipList)) = Len(ipList) - 1
          /\ \A i \in 1..Len(Tail(ipList)) : Tail(ipList)[i] = ipList[i + 1]
      BY <1>0, <1>2, <2>2, HeadTailProperties DEF ReadItem
    <3>. QED
      BY <1>0, <3>1 DEF ListDistinct
  <2>. QED
    BY <2>1, <2>2
<1>3. CASE UNCHANGED ipList
  BY <1>3 DEF ListDistinct
<1>. QED
  BY <1>1, <1>2, <1>3
     DEF LocatorNext, ClientStep, IpExists, CheckIpRecords, ReaderStep, SendRequest, ReaderTick,
         CallerStep, ReceiveRequest, CallerTick, CallerDone, ApiAnswer, CommitIpInfo, Expire

-----------------------------------------------------------------------------
(* The order of the shutdown.                                              *)

PreRun == {"key", "interval", "db", "host", "dv5", "msg_handler", "topics", "strategy",
           "peering", "run_locator"}
Early == PreRun \cup {"run_host", "run_disc", "failed"}
Phases == Early \cup CloseSteps \cup {"run_metrics", "running"}

Cancelled == {"cancel", "closed"}
WriterClosed == {"metrics_close"} \cup Cancelled
HandlerEnded == {"host_close", "db_send", "db_wait"} \cup WriterClosed
IteratorEnded == {"disc_send"} \cup HandlerEnded

\* What is down at each step of Close.
Control ==
  /\ phase \in Phases
  /\ phase \in PreRun => reader.pc = "off" /\ caller.pc = "off"
  /\ phase \in Early => iterator.pc = "off" /\ handler = "off" /\ ~nodeClosed
  /\ nodeClosed => iterator.pc = "done"
  /\ phase \in IteratorEnded => nodeClosed
  /\ phase \in HandlerEnded => handler = "done"
  /\ phase \in WriterClosed => persistClosed
  /\ phase \in Cancelled => updater = "done"
  /\ ctxDone => phase \in {"failed", "closed"}
  /\ panic # "nodeNotC"

\* The steps of NewEthereumCrawler lead to one another, and to Run.
LEMMA NewStepsOK ==
  /\ DOMAIN NewSteps \cup {"run_locator"} = PreRun
  /\ \A p \in DOMAIN NewSteps : NewSteps[p] \in PreRun
BY DEF NewSteps, PreRun

\* The steps of the main goroutine.
LEMMA PhasesIs ==
  Phases = DOMAIN NewSteps \cup CloseSteps
             \cup {"run_locator", "run_host", "run_disc", "run_metrics", "running", "failed"}
BY NewStepsOK DEF Phases, Early

DiscOK ==
  /\ doneF \in BOOLEAN /\ nodeClosed \in BOOLEAN
  /\ iterator \in [pc : {"off", "check", "next", "send", "done"},
                   ip : IPs \cup PrivateIPs \cup {None}]
  /\ handler \in {"off", "select", "locate", "done"}
  /\ found \in 0..MaxNodes

MainOK ==
  /\ persisters \in [new : 0..maxPersisters, run : 0..maxPersisters]
  /\ updater \in {"off", "run", "done"}
  /\ inbound \in 0..MaxInbound

\* The type of the whole, in four parts ...
LEMMA TypeParts == TypeOK <=> LocatorTypeOK /\ DiscOK /\ phase \in Phases /\ MainOK
BY PhasesIs DEF TypeOK, DiscOK, MainOK

\* ... and after a step.
LEMMA TypePartsNext == TypeOK' <=> LocatorTypeOK' /\ DiscOK' /\ phase' \in Phases /\ MainOK'
BY PhasesIs DEF TypeOK, DiscOK, MainOK

\* The locator is left alone, except that the context and the channel of the writer
\* may end.
LEMMA LocatorFrame ==
  ASSUME LocatorTypeOK, UNCHANGED locatorVars, ctxDone' \in BOOLEAN, persistClosed' \in BOOLEAN
  PROVE  LocatorTypeOK'
<1>0. QueueOK /\ ClientOK /\ RoutinesOK /\ TablesOK
  BY LocatorParts
<1>1. TablesOK'
  BY <1>0 DEF TablesOK, locatorVars, tableVars
<1>. QED
  BY <1>0, <1>1, Frame, LocatorPartsNext DEF locatorVars

\* The context and the channel of the writer are up or down.
LEMMA Booleans ==
  ASSUME LocatorTypeOK
  PROVE  ctxDone \in BOOLEAN /\ persistClosed \in BOOLEAN
BY DEF LocatorTypeOK

\* A step that leaves the discovery alone keeps its type.
LEMMA DiscFrame == DiscOK /\ UNCHANGED discoveryVars => DiscOK'
BY DEF DiscOK, discoveryVars

\* A step that leaves the main goroutine's services alone keeps their types.
LEMMA MainFrame == MainOK /\ UNCHANGED <<persisters, updater, inbound>> => MainOK'
BY DEF MainOK

\* A step of New, Run or Close.
MainStep == NewStep \/ NewFails \/ RunStep \/ Signal \/ CloseStep

\* New, Run and Close keep the types: RunLocator needs routines that are off.
LEMMA MainTyped ==
  ASSUME TypeOK, Control, MainStep
  PROVE  TypeOK'
<1>0. LocatorTypeOK /\ DiscOK /\ phase \in Phases /\ MainOK
  BY TypeParts
<1>1. phase' \in Phases
  BY <1>0, NewStepsOK
     DEF MainStep, NewStep, NewFails, RunStep, RunLocator, RunHost, RunDiscovery, RunMetrics,
         Signal, CloseStep, StopFlag, StopClose, StopSend, HostClose, DBSend, DBClose,
         MetricsClose, CancelContext, Phases, Early, PreRun, CloseSteps
<1>2. MainOK'
  <2>1. CASE UNCHANGED <<persisters, updater, inbound>>
    BY <1>0, <2>1, MainFrame
  <2>2. CASE NewStep
    BY <1>0, <2>2, CrawlerAssumption DEF NewStep, MainOK
  <2>3. CASE RunMetrics
    BY <1>0, <2>3 DEF RunMetrics, MainOK
  <2>4. CASE DBSend
    BY <1>0, <2>4, CrawlerAssumption DEF DBSend, MainOK
  <2>5. CASE MetricsClose
    BY <1>0, <2>5 DEF MetricsClose, MainOK
  <2>. QED
    BY <2>1, <2>2, <2>3, <2>4, <2>5
       DEF MainStep, NewFails, RunStep, RunLocator, RunHost, RunDiscovery, Signal, CloseStep,
           StopFlag, StopClose, StopSend, HostClose, DBClose, CancelContext
<1>3. DiscOK'
  <2>1. CASE UNCHANGED discoveryVars
    BY <1>0, <2>1, DiscFrame
  <2>2. CASE RunDiscovery
    BY <1>0, <2>2 DEF RunDiscovery, DiscoveryStart, DiscOK
  <2>3. CASE StopFlag \/ StopClose \/ StopSend
    BY <1>0, <2>3, Zenon DEF StopFlag, StopClose, StopSend, DiscOK
  <2>. QED
    BY <2>1, <2>2, <2>3
       DEF MainStep, NewStep, NewFails, RunStep, RunLocator, RunHost, RunMetrics, Signal,
           CloseStep, HostClose, DBSend, DBClose, MetricsClose, CancelContext
<1>4. LocatorTypeOK'
  <2>1. ctxDone' \in BOOLEAN /\ persistClosed' \in BOOLEAN
    BY <1>0, Booleans, Zenon
      DEF MainStep, NewStep, NewFails, RunStep, RunLocator, RunHost, RunDiscovery, RunMetrics,
           Signal, CloseStep, StopFlag, StopClose, StopSend, HostClose, DBSend, DBClose,
           MetricsClose, CancelContext, procVars
  <2>2. CASE UNCHANGED locatorVars
    BY <1>0, <2>1, <2>2, LocatorFrame
  <2>3. CASE RunLocator
    <3>1. QueueOK /\ ClientOK /\ RoutinesOK /\ TablesOK
      BY <1>0, LocatorParts
    <3>2. reader.pc = "off" /\ caller.pc = "off"
      BY <2>3 DEF RunLocator, Control, PreRun
    <3>3. /\ reader' = [reader EXCEPT !.pc = "read"]
          /\ caller' = [caller EXCEPT !.pc = "idle"]
      BY <2>3 DEF RunLocator, IpLocatorRun
    <3>4. RoutinesOK'
      BY <3>1, <3>2, <3>3 DEF RoutinesOK
    <3>. QED
      BY <2>3, <3>1, <3>4, Frame, LocatorPartsNext DEF RunLocator, procVars
  <2>. QED
    BY <2>2, <2>3
       DEF MainStep, NewStep, NewFails, RunStep, RunHost, RunDiscovery, RunMetrics,
           Signal, CloseStep, StopFlag, StopClose, StopSend, HostClose, DBSend, DBClose,
           MetricsClose, CancelContext
<1>. QED
  BY <1>1, <1>2, <1>3, <1>4, TypePartsNext

\* No more persisters than NewDBClient launches.
Launched == persisters.new + persisters.run <= maxPersisters

\* A persister is launched once.
LEMMA LaunchedKept ==
  ASSUME MainOK, Launched, [Next]_vars
  PROVE  Launched'
<1>0. /\ persisters.new \in Nat /\ persisters.run \in Nat
      /\ persisters \in [new : 0..maxPersisters, run : 0..maxPersisters]
      /\ maxPersisters \in Nat
  BY CrawlerAssumption DEF MainOK
<1>1. CASE UNCHANGED persisters
  BY <1>1 DEF Launched
<1>2. CASE NewStep
  BY <1>0, <1>2 DEF NewStep, Launched
<1>3. CASE PersisterStep
  BY <1>0, <1>3 DEF PersisterStep, LaunchPersister, PersisterDone, Launched
<1>4. CASE DBSend
  BY <1>0, <1>4 DEF DBSend, Launched
<1>. QED
  BY <1>1, <1>2, <1>3, <1>4
     DEF Next, vars, crawlerVars, NewFails, RunStep, RunLocator, RunHost, RunDiscovery,
         RunMetrics, Signal, CloseStep, StopFlag, StopClose, StopSend, HostClose, DBClose,
         MetricsClose, CancelContext, Connected

\* A callback of the host keeps the types.
LEMMA ConnectedTyped ==
  ASSUME TypeOK, NEW c \in Clients, NEW ip \in IPs, Connected(c, ip)
  PROVE  TypeOK'
<1>0. LocatorTypeOK /\ DiscOK /\ phase \in Phases /\ MainOK
  BY TypeParts
<1>1. QueueOK /\ ClientOK /\ RoutinesOK /\ TablesOK
  BY <1>0, LocatorParts
<1>2. LocatorTypeOK'
  BY <1>1, LocateTyped, Frame, LocatorPartsNext, Zenon DEF Connected, procVars
<1>3. MainOK'
  <2>1. inbound < MaxInbound /\ inbound' = inbound + 1 /\ UNCHANGED <<persisters, updater>>
    BY Zenon DEF Connected
  <2>2. inbound' \in 0..MaxInbound
    BY <1>0, <2>1, CrawlerAssumption DEF MainOK
  <2>. QED
    BY <1>0, <2>1, <2>2 DEF MainOK
<1>. QED
  BY <1>0, <1>2, <1>3, DiscFrame, TypePartsNext, Zenon DEF Connected

\* The persisters keep the types.
LEMMA PersisterTyped ==
  ASSUME TypeOK, Launched, PersisterStep
  PROVE  TypeOK'
<1>0. LocatorTypeOK /\ DiscOK /\ phase \in Phases /\ MainOK
  BY TypeParts
<1>1. MainOK'
  BY <1>0, CrawlerAssumption DEF PersisterStep, LaunchPersister, PersisterDone, MainOK, Launched
<1>2. LocatorTypeOK'
  BY <1>0, Booleans, LocatorFrame DEF PersisterStep, LaunchPersister, PersisterDone, procVars
<1>. QED
  BY <1>0, <1>1, <1>2, DiscFrame, TypePartsNext DEF PersisterStep, LaunchPersister, PersisterDone

\* The discovery keeps the types.
LEMMA DiscoveryTyped ==
  ASSUME TypeOK, DiscoveryNext, UNCHANGED crawlerVars
  PROVE  TypeOK'
<1>0. LocatorTypeOK /\ DiscOK /\ phase \in Phases /\ MainOK
  BY TypeParts
<1>1. phase' \in Phases /\ MainOK'
  BY <1>0, MainFrame DEF crawlerVars
<1>2. DiscOK'
  <2>1. CASE CheckDone
    BY <1>0, <2>1 DEF CheckDone, DiscOK
  <2>2. CASE NextNode
    BY <1>0, <2>2, DiscoveryAssumption DEF NextNode, DiscOK
  <2>3. CASE HandlePeer
    BY <1>0, <2>3 DEF HandlePeer, PeerHandler, DiscOK
  <2>4. CASE HandleNil \/ HandlerLocated
    BY <1>0, <2>4, Zenon DEF HandleNil, HandlerLocated, DiscOK, discoveryVars
  <2>. QED
    BY <2>1, <2>2, <2>3, <2>4 DEF DiscoveryNext, HandlerStep
<1>3. LocatorTypeOK'
  <2>1. CASE UNCHANGED <<locatorVars, ctxDone, persistClosed>>
    BY <1>0, <2>1, Booleans, LocatorFrame
  <2>2. CASE HandlePeer
    <3>1. QueueOK /\ ClientOK /\ RoutinesOK /\ TablesOK
      BY <1>0, LocatorParts
    <3>2. ClientOK'
      <4>1. CASE UNCHANGED client
        BY <3>1, <4>1, Frame
      <4>2. CASE iterator.ip \in IPs /\ LocateIP(Handler, iterator.ip)
        BY <3>1, <4>2, LocateTyped, DiscoveryAssumption
      <4>. QED
        BY <2>2, <4>1, <4>2 DEF HandlePeer, PeerHandler
    <3>. QED
      BY <2>2, <3>1, <3>2, Frame, LocatorPartsNext DEF HandlePeer
  <2>. QED
    BY <2>1, <2>2
       DEF DiscoveryNext, HandlerStep, CheckDone, NextNode, HandleNil, HandlerLocated, procVars
<1>. QED
  BY <1>1, <1>2, <1>3, TypePartsNext

\* Every step keeps the types.
LEMMA NextTyped ==
  ASSUME TypeOK, Control, Launched, [Next]_vars
  PROVE  TypeOK'
<1>1. CASE MainStep
  BY <1>1, MainTyped
<1>2. ASSUME NEW c \in Clients, NEW ip \in IPs, Connected(c, ip) PROVE TypeOK'
  BY <1>2, ConnectedTyped
<1>3. CASE PersisterStep
  BY <1>3, PersisterTyped
<1>4. CASE DiscoveryNext /\ UNCHANGED crawlerVars
  BY <1>4, DiscoveryTyped
<1>5. CASE LocatorNext /\ UNCHANGED <<crawlerVars, discoveryVars>>
  BY <1>5, TypeParts, TypePartsNext, LocatorTyped, DiscFrame, MainFrame DEF crawlerVars
<1>6. CASE UNCHANGED vars
  <2>1. UNCHANGED <<locatorVars, ctxDone, persistClosed>> /\ UNCHANGED discoveryVars
        /\ UNCHANGED <<phase, persisters, updater, inbound>>
    BY <1>6 DEF vars, crawlerVars, procVars
  <2>. QED
    BY <2>1, TypeParts, TypePartsNext, Booleans, LocatorFrame, DiscFrame, MainFrame
<1>. QED
  BY <1>1, <1>2, <1>3, <1>4, <1>5, <1>6 DEF Next, MainStep

-----------------------------------------------------------------------------
(* Control is kept.                                                        *)

\* The IP locator does not touch what Control is about.
LEMMA LocatorControl ==
  ASSUME LocatorTypeOK, Control, LocatorNext, UNCHANGED <<crawlerVars, discoveryVars>>
  PROVE  Control'
<1>1. UNCHANGED <<ctxDone, persistClosed>>
  BY DEF LocatorNext, ClientStep, IpExists, CheckIpRecords, AddItem, ReaderStep, ReadItem,
         SendRequest, ReaderTick, CallerStep, ReceiveRequest, CallerTick, CallerDone, ApiAnswer,
         CommitIpInfo, Expire, procVars
<1>2. panic' \in {panic, "locationRequest", "persistC", "no_ttl"}
  BY DEF LocatorNext, ClientStep, IpExists, CheckIpRecords, AddItem, ReaderStep, ReadItem,
         SendRequest, ReaderTick, CallerStep, ReceiveRequest, CallerTick, CallerDone, ApiAnswer,
         PersistIpInfo, CommitIpInfo, Expire, procVars
<1>3. reader.pc = "off" => reader' = reader
  BY DEF LocatorNext, ClientStep, IpExists, CheckIpRecords, AddItem, ReaderStep, ReadItem,
         SendRequest, ReaderTick, CallerStep, ReceiveRequest, CallerTick, CallerDone, ApiAnswer,
         CommitIpInfo, Expire
<1>4. caller.pc = "off" => caller' = caller
  BY DEF LocatorNext, ClientStep, IpExists, CheckIpRecords, AddItem, ReaderStep, ReadItem,
         SendRequest, ReaderTick, CallerStep, ReceiveRequest, CallerTick, CallerDone, ApiAnswer,
         CommitIpInfo, Expire
<1>. QED
  BY <1>1, <1>2, <1>3, <1>4 DEF Control, crawlerVars, discoveryVars

\* An iterator that sends has not ended, so its channel is open.
LEMMA DiscoveryControl ==
  ASSUME DiscOK, Control, DiscoveryNext, UNCHANGED crawlerVars
  PROVE  Control'
<1>0. UNCHANGED <<reader, caller, ctxDone, persistClosed, phase, updater, nodeClosed>>
  BY DEF DiscoveryNext, HandlerStep, CheckDone, NextNode, HandlePeer, HandleNil,
         HandlerLocated, locatorVars, discoveryVars, procVars, crawlerVars
<1>1. CASE CheckDone \/ NextNode
  <2>1. /\ iterator.pc \in {"check", "next"} /\ handler' = handler /\ panic' = panic
    BY <1>1 DEF CheckDone, NextNode, procVars
  <2>. QED
    BY <1>0, <2>1 DEF Control
<1>2. CASE HandlePeer
  <2>1. iterator.pc = "send" /\ ~nodeClosed
    BY <1>2 DEF HandlePeer, Control
  <2>2. panic' \in {panic, "persistC"} /\ handler = "select"
    BY <1>2, <2>1 DEF HandlePeer, PeerHandler
  <2>. QED
    BY <1>0, <2>1, <2>2 DEF Control
<1>3. CASE HandleNil
  BY <1>0, <1>3 DEF HandleNil, discoveryVars, Control
<1>4. CASE HandlerLocated
  <2>1. handler = "locate" /\ iterator' = iterator /\ panic' = panic
    BY <1>4 DEF HandlerLocated, procVars
  <2>. QED
    BY <1>0, <2>1 DEF Control
<1>. QED
  BY <1>1, <1>2, <1>3, <1>4 DEF DiscoveryNext, HandlerStep

\* NewEthereumCrawler starts no service of the discovery.
LEMMA NewControl ==
  ASSUME Control, NewStep \/ NewFails
  PROVE  Control'
<1>1. CASE NewStep
  <2>1. phase \in PreRun /\ phase' \in PreRun
    BY <1>1, NewStepsOK DEF NewStep
  <2>2. UNCHANGED <<reader, caller, updater, discoveryVars, ctxDone, persistClosed, panic>>
    BY <1>1 DEF NewStep, locatorVars, procVars
  <2>. QED
    BY <2>1, <2>2
       DEF Control, PreRun, Early, Phases, IteratorEnded, HandlerEnded, WriterClosed, Cancelled,
           discoveryVars
<1>2. CASE NewFails
  <2>1. phase \in PreRun
    BY <1>2, NewStepsOK DEF NewFails
  <2>2. UNCHANGED <<reader, caller, updater, discoveryVars, persistClosed>>
    BY <1>2 DEF NewFails, locatorVars
  <2>3. \/ phase' = phase /\ ctxDone' = ctxDone /\ panic' \in {"dv5", "topics"}
        \/ phase' = "failed" /\ panic' = panic
    BY <1>2 DEF NewFails
  <2>. QED
    BY <2>1, <2>2, <2>3
       DEF Control, PreRun, Early, Phases, IteratorEnded, HandlerEnded, WriterClosed, Cancelled,
           discoveryVars
<1>. QED
  BY <1>1, <1>2

\* Run starts the services when nothing is closed.
LEMMA RunControl ==
  ASSUME DiscOK, Control, RunStep \/ Signal
  PROVE  Control'
<1>. USE DEF Control, PreRun, Early, Phases, IteratorEnded, HandlerEnded, WriterClosed,
             Cancelled, CloseSteps, discoveryVars, procVars, locatorVars
<1>1. CASE RunLocator
  BY <1>1 DEF RunLocator
<1>2. CASE RunHost
  BY <1>2 DEF RunHost
<1>3. CASE RunDiscovery
  BY <1>3 DEF RunDiscovery
<1>4. CASE RunMetrics
  BY <1>4 DEF RunMetrics
<1>5. CASE Signal
  BY <1>5 DEF Signal
<1>. QED
  BY <1>1, <1>2, <1>3, <1>4, <1>5, Zenon DEF RunStep

\* Every step of Close finds the services before it ended.
LEMMA CloseControl ==
  ASSUME Control, CloseStep
  PROVE  Control'
<1>. USE DEF Control, PreRun, Early, Phases, IteratorEnded, HandlerEnded, WriterClosed,
             Cancelled, CloseSteps, discoveryVars, procVars, locatorVars
<1>1. CASE StopFlag
  BY <1>1 DEF StopFlag
<1>2. CASE StopClose
  BY <1>2 DEF StopClose
<1>3. CASE StopSend
  BY <1>3 DEF StopSend
<1>4. CASE HostClose
  BY <1>4 DEF HostClose
<1>5. CASE DBSend
  BY <1>5 DEF DBSend
<1>6. CASE DBClose
  BY <1>6 DEF DBClose
<1>7. CASE MetricsClose
  BY <1>7 DEF MetricsClose
<1>8. CASE CancelContext
  BY <1>8 DEF CancelContext
<1>. QED
  BY <1>1, <1>2, <1>3, <1>4, <1>5, <1>6, <1>7, <1>8, Zenon DEF CloseStep

\* Every step keeps Control.
LEMMA NextControl ==
  ASSUME TypeOK, Control, [Next]_vars
  PROVE  Control'
<1>0. LocatorTypeOK /\ DiscOK
  BY TypeParts
<1>1. ASSUME UNCHANGED <<reader, caller, phase, updater, discoveryVars, procVars>>
      PROVE  Control'
  BY <1>1 DEF Control, discoveryVars, procVars
<1>2. ASSUME NEW c \in Clients, NEW ip \in IPs, Connected(c, ip) PROVE Control'
  BY <1>1, <1>2 DEF Connected
<1>3. CASE PersisterStep
  BY <1>1, <1>3 DEF PersisterStep, LaunchPersister, PersisterDone, locatorVars
<1>4. CASE UNCHANGED vars
  BY <1>1, <1>4 DEF vars, crawlerVars, locatorVars
<1>. QED
  BY <1>0, <1>2, <1>3, <1>4, NewControl, RunControl, CloseControl, DiscoveryControl,
     LocatorControl DEF Next

-----------------------------------------------------------------------------
(* The queue.                                                              *)

\* Every step extends, serves or keeps the queue.
LEMMA NextMoves ==
  ASSUME LocatorTypeOK, [Next]_vars
  PROVE  Joins \/ Serves \/ Waits
<1>1. ASSUME reader'.ip = reader.ip, caller'.ip = caller.ip,
             UNCHANGED <<ipList, locationRequest, queued, served>>
      PROVE  Waits
  BY <1>1, PendingIs, PendingIsNext DEF Waits, Held
<1>2. CASE RunLocator
  <2>1. reader'.ip = reader.ip /\ caller'.ip = caller.ip
    BY <1>2 DEF RunLocator, IpLocatorRun, LocatorTypeOK
  <2>. QED
    BY <1>1, <1>2, <2>1 DEF RunLocator
<1>3. CASE LocatorNext
  BY <1>3, LocatorMoves
<1>4. CASE UNCHANGED <<reader, caller, ipList, locationRequest, queued, served>>
  BY <1>1, <1>4
<1>. QED
  BY <1>2, <1>3, <1>4
     DEF Next, vars, NewStep, NewFails, RunStep, RunHost, RunDiscovery, RunMetrics, Signal,
         CloseStep, StopFlag, StopClose, StopSend, HostClose, DBSend, DBClose, MetricsClose,
         CancelContext, Connected, PersisterStep, LaunchPersister, PersisterDone, DiscoveryNext,
         HandlerStep, CheckDone, NextNode, HandlePeer, HandleNil, HandlerLocated, locatorVars

\* The counters follow the queue.
LEMMA NextAccounted ==
  ASSUME LocatorTypeOK, AddressesAccounted, [Next]_vars
  PROVE  AddressesAccounted'
<1>0. /\ Pending \in Seq(IPs) /\ Len(Pending) \in Nat
      /\ queued \in Nat /\ served \in Nat /\ queued = served + Len(Pending)
  BY PendingLen DEF LocatorTypeOK, AddressesAccounted
<1>1. CASE Joins
  <2>1. PICK ip \in IPs : /\ Pending' = Append(Pending, ip)
                          /\ queued' = queued + 1 /\ served' = served
    BY <1>1 DEF Joins
  <2>2. Len(Pending') = Len(Pending) + 1
    BY <1>0, <2>1, AppendProperties
  <2>. QED
    BY <1>0, <2>1, <2>2 DEF AddressesAccounted
<1>2. CASE Serves
  <2>1. Len(Pending') = Len(Pending) - 1
    BY <1>0, <1>2, HeadTailProperties DEF Serves
  <2>. QED
    BY <1>0, <1>2, <2>1 DEF Serves, AddressesAccounted
<1>3. CASE Waits
  BY <1>0, <1>3 DEF Waits, AddressesAccounted
<1>. QED
  BY <1>1, <1>2, <1>3, NextMoves

\* Only addItem extends the list.
LEMMA NextDistinct ==
  ASSUME LocatorTypeOK, ListDistinct, [Next]_vars
  PROVE  ListDistinct'
<1>1. CASE LocatorNext
  BY <1>1, LocatorDistinct
<1>2. CASE UNCHANGED ipList
  BY <1>2 DEF ListDistinct
<1>. QED
  BY <1>1, <1>2
     DEF Next, vars, NewStep, NewFails, RunStep, RunLocator, RunHost, RunDiscovery, RunMetrics,
         Signal, CloseStep, StopFlag, StopClose, StopSend, HostClose, DBSend, DBClose,
         MetricsClose, CancelContext, Connected, PersisterStep, LaunchPersister, PersisterDone,
         DiscoveryNext, HandlerStep, CheckDone, NextNode, HandlePeer, HandleNil, HandlerLocated,
         locatorVars

-----------------------------------------------------------------------------
(* The theorems.                                                           *)

IInv == TypeOK /\ Control /\ Launched /\ ListDistinct /\ AddressesAccounted

\* The queue is empty at first.
LEMMA EmptyLine ==
  ASSUME Init
  PROVE  Pending = <<>>
<1>1. Held(caller) = <<>> /\ Held(reader) = <<>> /\ locationRequest = <<>> /\ ipList = <<>>
  BY DEF Init, LocatorInit, Held
<1>. QED
  BY <1>1, PendingIs

\* The inductive invariant holds at first ...
LEMMA InitInv ==
  ASSUME Init
  PROVE  IInv
<1>1. LocatorTypeOK
  <2>1. Idle \in [pc : {"idle", "scan", "check", "add"}, ip : IPs \cup {None},
                  saw : SUBSET BOOLEAN] /\ Idle.pc = "idle"
    BY IdleOK
  <2>2. ClientOK
    BY <2>1 DEF Init, LocatorInit, ClientOK
  <2>3. QueueOK
    BY LocatorAssumption DEF Init, LocatorInit, QueueOK
  <2>4. RoutinesOK /\ TablesOK
    BY Zenon DEF Init, LocatorInit, RoutinesOK, TablesOK
  <2>. QED
    BY <2>2, <2>3, <2>4, LocatorParts
<1>2. DiscOK /\ MainOK
  <2>1. DiscOK
    <3>1. doneF \in BOOLEAN /\ nodeClosed \in BOOLEAN
      BY Zenon DEF Init, DiscoveryInit
    <3>2. /\ iterator \in [pc : {"off", "check", "next", "send", "done"},
                            ip : IPs \cup PrivateIPs \cup {None}]
          /\ handler \in {"off", "select", "locate", "done"}
      BY DEF Init, DiscoveryInit
    <3>3. found \in 0..MaxNodes
      BY DiscoveryAssumption DEF Init, DiscoveryInit
    <3>. QED
      BY <3>1, <3>2, <3>3 DEF DiscOK
  <2>2. MainOK
    BY CrawlerAssumption DEF Init, MainOK
  <2>. QED
    BY <2>1, <2>2
<1>3. Control
  BY DEF Init, LocatorInit, DiscoveryInit, Control, PreRun, Early, Phases, IteratorEnded,
         HandlerEnded, WriterClosed, Cancelled
<1>4. Launched /\ ListDistinct
  BY CrawlerAssumption DEF Init, LocatorInit, Launched, ListDistinct
<1>5. AddressesAccounted
  <2>1. Len(Pending) = 0
    BY EmptyLine
  <2>2. queued = 0 /\ served = 0
    BY DEF Init, LocatorInit
  <2>. QED
    BY <2>1, <2>2 DEF AddressesAccounted
<1>. QED
  BY <1>1, <1>2, <1>3, <1>4, <1>5, TypeParts DEF IInv, Control

\* ... and every step keeps it.
LEMMA NextInv ==
  ASSUME IInv, [Next]_vars
  PROVE  IInv'
BY TypeParts, NextTyped, NextControl, LaunchedKept, NextDistinct, NextAccounted DEF IInv

\* What is down at each step of Close, and the queue of the IP locator, are as
\* IInv says in every state.
THEOREM Inductive == Spec => []IInv
BY InitInv, NextInv, PTL DEF Spec

\* The variables of the crawler, of the discovery and of the IP locator keep their
\* types: no buffer exceeds its size, and no more persisters run than were launched.
THEOREM Typed == Spec => []TypeOK
<1>1. IInv => TypeOK
  BY DEF IInv
<1>. QED
  BY <1>1, Inductive, PTL

\* addItem never lets an address be twice in the list, for any number of clients
\* and any size of the list.
THEOREM Distinct == Spec => []ListDistinct
<1>1. IInv => ListDistinct
  BY DEF IInv
<1>. QED
  BY <1>1, Inductive, PTL

\* Every address that addItem accepted is answered once or held by one routine.
THEOREM Accounted == Spec => []AddressesAccounted
<1>1. IInv => AddressesAccounted
  BY DEF IInv
<1>. QED
  BY <1>1, Inductive, PTL

\* Discovery5.Stop waits for the iterator before it closes nodeNotC.
THEOREM IteratorFirst == Spec => []IteratorEndsFirst
<1>1. IInv => IteratorEndsFirst
  BY DEF IInv, Control, IteratorEndsFirst
<1>. QED
  BY <1>1, Inductive, PTL

\* The list, the channel and the two routines implement a queue of bounded length
\* that is served in the order of arrival.
THEOREM InOrder == Spec => LookupsInOrder
<1>1. Init => Line!LineInit
  BY EmptyLine DEF Line!LineInit
<1>2. IInv /\ [Next]_vars => [Line!Join \/ Line!Serve]_Pending
  BY TypeParts, NextMoves
     DEF IInv, Joins, Serves, Waits, Capacity, Line!Join, Line!Serve
<1>. QED
  BY <1>1, <1>2, Inductive, PTL DEF Spec, LookupsInOrder, Line!LineSpec
=============================================================================
