-------------------------- MODULE ConnEventsProofs --------------------------
(***************************************************************************)
(* The rows of conn_events, for any number of peers, connections,          *)
(* persisters and places in the channels, however often a peer connects:   *)
(* each row pairs the beginning and the end of connections of its own      *)
(* peer.                                                                   *)
(*                                                                         *)
(* The argument follows a time from the callback that read it to the row:  *)
(* the event that carries it is about a connection that has begun (or      *)
(* ended), so is the time in the buffer of the peer, and a ConnEvent is on *)
(* its way to a persister only when both its times are set, which stays so *)
(* while the recorder goes on changing it.                                 *)
(***************************************************************************)
EXTENDS ConnEvents, SequenceTheorems, TLAPS

\* A connection that has begun has its peer; only such a connection ends.
RemoteOK ==
  \A c \in Conns : /\ opening[c] # "no" => remote[c] \in Peers
                   /\ closing[c] # "no" => opening[c] # "no"

\* The times that may stand in the buffer and the rows of a peer.
BeginOf(t, p) == t \in Conns /\ remote[t] = p /\ opening[t] # "no"

EndOf(t, p) == t \in Conns /\ remote[t] = p /\ closing[t] # "no"

\* An event on its way is about a connection that has begun, or ended.
EventOK(e) == opening[e.conn] # "no" /\ (e.kind = "disc" => closing[e.conn] # "no")

EventsOK ==
  /\ forwarder # None => EventOK(forwarder)
  /\ \A k \in 1..Len(connEventNotChannel) : EventOK(connEventNotChannel[k])
  /\ \A k \in 1..Len(identNotChannel) : EventOK(identNotChannel[k])

\* What is in the buffer of a peer was read by callbacks of its own connections.
BufferOK ==
  \A p \in Peers :
    /\ buffer[p].connTime # ZeroTime => BeginOf(buffer[p].connTime, p)
    /\ buffer[p].discTime # ZeroTime => EndOf(buffer[p].discTime, p)

Complete(p) == buffer[p].connTime # ZeroTime /\ buffer[p].discTime # ZeroTime

\* A ConnEvent is complete as soon as a pointer to it is on its way.
ObjectOK(obj) == obj.kind = "event" => Complete(obj.peer)

ObjectsOK ==
  /\ recorder # None => ObjectOK(recorder)
  /\ \A k \in 1..Len(persistC) : ObjectOK(persistC[k])

\* What was copied from it, and what was written.
PairOK(r) == BeginOf(r.connTime, r.peer) /\ EndOf(r.discTime, r.peer)

WritesOK ==
  /\ \A i \in Persisters : batch[i] # None /\ batch[i].kind = "event" => PairOK(batch[i])
  /\ \A k \in 1..Len(rows) : PairOK(rows[k])

IInv == TypeOK /\ RemoteOK /\ EventsOK /\ BufferOK /\ ObjectsOK /\ WritesOK

ConnEventRecords == [connTime : Times, discTime : Times, timed : BOOLEAN]

Rows == [peer : Peers, connTime : Times, discTime : Times]

-----------------------------------------------------------------------------
(* Places in a sequence.                                                   *)

\* A receive takes the first element and moves the others.
LEMMA Received ==
  ASSUME NEW S, NEW s \in Seq(S), s # <<>>
  PROVE  /\ Head(s) \in S /\ Tail(s) \in Seq(S) /\ Len(Tail(s)) = Len(s) - 1
         /\ Len(s) \in Nat \ {0}
         /\ Head(s) = s[1] /\ \A k \in 1..Len(Tail(s)) : Tail(s)[k] = s[k + 1]
BY HeadTailProperties, LenProperties, EmptySeq

\* A send adds one place.
LEMMA Appended ==
  ASSUME NEW S, NEW s \in Seq(S), NEW x \in S
  PROVE  /\ Append(s, x) \in Seq(S) /\ Len(Append(s, x)) = Len(s) + 1
         /\ Append(s, x)[Len(s) + 1] = x
         /\ \A k \in 1..Len(s) : Append(s, x)[k] = s[k]
         /\ Len(s) \in Nat
BY AppendProperties, LenProperties

\* What is in a channel after a send was there before or is what was sent ...
LEMMA PlacesAfterSend ==
  ASSUME NEW S, NEW s \in Seq(S), NEW x \in S
  PROVE  \A k \in 1..Len(Append(s, x)) :
           Append(s, x)[k] = x \/ \E j \in 1..Len(s) : Append(s, x)[k] = s[j]
<1>0. Len(s) \in Nat /\ Len(Append(s, x)) = Len(s) + 1 /\ Append(s, x)[Len(s) + 1] = x
      /\ \A k \in 1..Len(s) : Append(s, x)[k] = s[k]
  BY Appended
<1>1. \A k \in 1..(Len(s) + 1) : k \in 1..Len(s) \/ k = Len(s) + 1
  BY <1>0
<1>. QED
  BY <1>0, <1>1

\* ... and what is received, or there after a receive, was there before.
LEMMA PlacesAfterReceive ==
  ASSUME NEW S, NEW s \in Seq(S), s # <<>>
  PROVE  /\ \E j \in 1..Len(s) : Head(s) = s[j]
         /\ \A k \in 1..Len(Tail(s)) : \E j \in 1..Len(s) : Tail(s)[k] = s[j]
<1>0. /\ Len(s) \in Nat \ {0} /\ Len(Tail(s)) = Len(s) - 1
      /\ Head(s) = s[1] /\ \A k \in 1..Len(Tail(s)) : Tail(s)[k] = s[k + 1]
  BY Received
<1>1. 1 \in 1..Len(s) /\ \A k \in 1..Len(Tail(s)) : k + 1 \in 1..Len(s)
  BY <1>0
<1>. QED
  BY <1>0, <1>1

-----------------------------------------------------------------------------
(* Types.                                                                  *)

HostOK ==
  /\ remote \in [Conns -> Peers \cup {None}]
  /\ opening \in [Conns -> {"no", "identify", "recConn", "recIdent", "returned"}]
  /\ closing \in [Conns -> {"no", "recDisc", "returned"}]

ChannelsOK ==
  /\ connEventNotChannel \in Seq(Reports)
  /\ Len(connEventNotChannel) <= ConnNotChannSize
  /\ identNotChannel \in Seq(Identifications)
  /\ Len(identNotChannel) <= ConnNotChannSize
  /\ forwarder \in Reports \cup Identifications \cup {None}

RecorderOK ==
  /\ buffer \in [Peers -> ConnEventRecords]
  /\ recorder \in Objects \cup {None}

DatabaseOK ==
  /\ persistC \in Seq(Objects) /\ Len(persistC) <= PersistCap
  /\ batch \in [Persisters -> Writes \cup {None}]
  /\ rows \in Seq(Rows)
  /\ hostRows \subseteq Peers
  /\ lastActivity \in [Peers -> Times]

\* The types, in four parts ...
LEMMA TypeParts == TypeOK <=> HostOK /\ ChannelsOK /\ RecorderOK /\ DatabaseOK
BY DEF TypeOK, HostOK, ChannelsOK, RecorderOK, DatabaseOK, ConnEventRecords, Rows

\* ... and after a step.
LEMMA TypePartsNext == TypeOK' <=> HostOK' /\ ChannelsOK' /\ RecorderOK' /\ DatabaseOK'
BY DEF TypeOK, HostOK, ChannelsOK, RecorderOK, DatabaseOK, ConnEventRecords, Rows

\* What a step leaves alone keeps its type.
LEMMA Frame ==
  /\ HostOK /\ UNCHANGED hostVars => HostOK'
  /\ ChannelsOK /\ UNCHANGED <<chanVars, forwarder>> => ChannelsOK'
  /\ RecorderOK /\ UNCHANGED <<buffer, recorder>> => RecorderOK'
  /\ DatabaseOK /\ UNCHANGED dbVars => DatabaseOK'
BY DEF HostOK, ChannelsOK, RecorderOK, DatabaseOK, hostVars, chanVars, dbVars

\* The callbacks keep the types: they send only when there is a place.
LEMMA HostTyped ==
  ASSUME TypeOK, NEW c \in Conns,
         (\E p \in Peers : Connected(c, p)) \/ Disconnected(c) \/ Callback(c)
  PROVE  TypeOK'
<1>0. HostOK /\ ChannelsOK /\ RecorderOK /\ DatabaseOK
  BY TypeParts
<1>1. HostOK'
  <2>1. CASE \E p \in Peers : Connected(c, p)
    BY <1>0, <2>1 DEF Connected, HostOK
  <2>2. CASE Disconnected(c)
    BY <1>0, <2>2 DEF Disconnected, HostOK
  <2>3. CASE Identified(c) \/ RecConnInfo(c) \/ RecIdentEvent(c)
    BY <1>0, <2>3, Zenon DEF Identified, RecConnInfo, RecIdentEvent, HostOK
  <2>4. CASE RecEndConnInfo(c)
    BY <1>0, <2>4 DEF RecEndConnInfo, HostOK
  <2>. QED
    BY <2>1, <2>2, <2>3, <2>4 DEF Callback
<1>2. RecorderOK' /\ DatabaseOK'
  BY <1>0, Frame DEF Connected, Disconnected, Callback, Identified, RecConnInfo, RecIdentEvent,
                     RecEndConnInfo
<1>3. ChannelsOK'
  <2>1. CASE UNCHANGED chanVars /\ UNCHANGED forwarder
    BY <1>0, <2>1, Frame
  <2>2. ASSUME NEW k \in {"conn", "disc"},
               Len(connEventNotChannel) < ConnNotChannSize,
               connEventNotChannel' = Append(connEventNotChannel, [kind |-> k, conn |-> c]),
               UNCHANGED <<identNotChannel, forwarder>>
        PROVE  ChannelsOK'
    <3>1. [kind |-> k, conn |-> c] \in Reports
      BY DEF Reports
    <3>2. /\ connEventNotChannel' \in Seq(Reports)
          /\ Len(connEventNotChannel') = Len(connEventNotChannel) + 1
          /\ Len(connEventNotChannel) \in Nat
      BY <1>0, <2>2, <3>1, Appended DEF ChannelsOK
    <3>. QED
      BY <1>0, <2>2, <3>2, EventAssumption DEF ChannelsOK
  <2>3. CASE RecIdentEvent(c)
    <3>1. [kind |-> "ident", conn |-> c] \in Identifications
      BY DEF Identifications
    <3>2. /\ identNotChannel' \in Seq(Identifications)
          /\ Len(identNotChannel') = Len(identNotChannel) + 1
          /\ Len(identNotChannel) \in Nat
      BY <1>0, <2>3, <3>1, Appended DEF ChannelsOK, RecIdentEvent
    <3>. QED
      BY <1>0, <2>3, <3>2, EventAssumption DEF ChannelsOK, RecIdentEvent
  <2>4. CASE RecConnInfo(c)
    BY <2>2, <2>4 DEF RecConnInfo
  <2>5. CASE RecEndConnInfo(c)
    BY <2>2, <2>5 DEF RecEndConnInfo
  <2>. QED
    BY <2>1, <2>3, <2>4, <2>5 DEF Connected, Disconnected, Callback, Identified
<1>. QED
  BY <1>1, <1>2, <1>3, TypePartsNext

\* The forwarder keeps the types.
LEMMA ForwardTyped ==
  ASSUME TypeOK, Forward
  PROVE  TypeOK'
<1>0. HostOK /\ ChannelsOK /\ RecorderOK /\ DatabaseOK
  BY TypeParts
<1>1. HostOK' /\ RecorderOK' /\ DatabaseOK'
  BY <1>0, Frame DEF Forward, ForwardConnEvent, ForwardIdentEvent
<1>2. CASE ForwardConnEvent
  <2>1. /\ forwarder' \in Reports /\ connEventNotChannel' \in Seq(Reports)
        /\ Len(connEventNotChannel') = Len(connEventNotChannel) - 1
        /\ Len(connEventNotChannel) \in Nat
    BY <1>0, <1>2, Received DEF ForwardConnEvent, ChannelsOK
  <2>2. ChannelsOK'
    BY <1>0, <1>2, <2>1, EventAssumption DEF ForwardConnEvent, ChannelsOK
  <2>. QED
    BY <1>1, <2>2, TypePartsNext
<1>3. CASE ForwardIdentEvent
  <2>1. /\ forwarder' \in Identifications /\ identNotChannel' \in Seq(Identifications)
        /\ Len(identNotChannel') = Len(identNotChannel) - 1
        /\ Len(identNotChannel) \in Nat
    BY <1>0, <1>3, Received DEF ForwardIdentEvent, ChannelsOK
  <2>2. ChannelsOK'
    BY <1>0, <1>3, <2>1, EventAssumption DEF ForwardIdentEvent, ChannelsOK
  <2>. QED
    BY <1>1, <2>2, TypePartsNext
<1>. QED
  BY <1>2, <1>3 DEF Forward

\* The event that the recorder receives, and what it makes of the buffer.
LEMMA Recorded ==
  ASSUME TypeOK, RemoteOK, EventsOK, RecordConnEvent
  PROVE  \E c \in Conns, k \in {"conn", "disc"}, p \in Peers :
           /\ opening[c] # "no" /\ (k = "disc" => closing[c] # "no") /\ remote[c] = p
           /\ forwarder' = None
           /\ \E ev \in ConnEventRecords :
                /\ ev.connTime = IF k = "conn" THEN c ELSE buffer[p].connTime
                /\ ev.discTime = IF k = "disc" THEN c ELSE buffer[p].discTime
                /\ buffer' = [buffer EXCEPT ![p] = ev]
                /\ \/ recorder' = None
                   \/ /\ ev.connTime # ZeroTime /\ ev.discTime # ZeroTime
                      /\ recorder' = [kind |-> "event", peer |-> p]
<1>0. HostOK /\ ChannelsOK /\ RecorderOK
  BY TypeParts
<1>1. forwarder \in Reports /\ forwarder # None
  BY <1>0 DEF RecordConnEvent, ChannelsOK, Identifications
<1>2. PICK c \in Conns, k \in {"conn", "disc"} : forwarder = [kind |-> k, conn |-> c]
  BY <1>1 DEF Reports
<1>3. PICK p : p = remote[c]
  OBVIOUS
<1>4. opening[c] # "no" /\ (k = "disc" => closing[c] # "no")
  BY <1>1, <1>2 DEF EventsOK, EventOK
<1>5. p \in Peers /\ buffer[p] \in ConnEventRecords /\ c \in Times
  BY <1>0, <1>3, <1>4 DEF RemoteOK, RecorderOK, Times
<1>6. PICK ev : ev = IF k = "conn" THEN AddConnInfo(buffer[p], c)
                     ELSE AddDisconn(buffer[p], c)
  OBVIOUS
<1>7. /\ ev \in ConnEventRecords
      /\ ev.connTime = IF k = "conn" THEN c ELSE buffer[p].connTime
      /\ ev.discTime = IF k = "disc" THEN c ELSE buffer[p].discTime
  BY <1>5, <1>6, Zenon DEF AddConnInfo, AddDisconn, ConnEventRecords
<1>8. /\ forwarder' = None
      /\ buffer' = [buffer EXCEPT ![p] = ev]
      /\ recorder' = IF IsReadyToPersist(ev) THEN [kind |-> "event", peer |-> p] ELSE None
  BY <1>2, <1>3, <1>6 DEF RecordConnEvent
<1>9. IsReadyToPersist(ev) => ev.connTime # ZeroTime /\ ev.discTime # ZeroTime
  BY DEF IsReadyToPersist
<1>10. \/ recorder' = None
       \/ /\ ev.connTime # ZeroTime /\ ev.discTime # ZeroTime
          /\ recorder' = [kind |-> "event", peer |-> p]
  BY <1>8, <1>9
<1>. QED
  BY <1>3, <1>4, <1>5, <1>7, <1>8, <1>10, Zenon

\* The recorder keeps the types.
LEMMA RecordTyped ==
  ASSUME TypeOK, RemoteOK, EventsOK, Record
  PROVE  TypeOK'
<1>0. HostOK /\ ChannelsOK /\ RecorderOK /\ DatabaseOK
  BY TypeParts
<1>1. HostOK'
  BY <1>0, Frame DEF Record, RecordConnEvent, RecordIdentification, PersistToDB
<1>2. CASE RecordConnEvent
  <2>1. RecorderOK'
    <3>1. PICK p \in Peers : /\ recorder' \in {None, [kind |-> "event", peer |-> p]}
                             /\ \E ev \in ConnEventRecords :
                                  buffer' = [buffer EXCEPT ![p] = ev]
      BY <1>2, Recorded
    <3>2. [kind |-> "event", peer |-> p] \in Objects
      BY <3>1 DEF Objects
    <3>. QED
      BY <1>0, <3>1, <3>2 DEF RecorderOK
  <2>2. ChannelsOK' /\ DatabaseOK'
    BY <1>0, <1>2, Frame DEF RecordConnEvent, ChannelsOK, chanVars
  <2>. QED
    BY <1>1, <2>1, <2>2, TypePartsNext
<1>3. CASE RecordIdentification
  <2>1. forwarder \in Identifications
    BY <1>0, <1>3 DEF RecordIdentification, ChannelsOK, Reports
  <2>2. recorder' \in Objects
    <3>1. forwarder.conn \in Conns /\ opening[forwarder.conn] # "no"
      BY <1>3, <2>1 DEF RecordIdentification, Identifications, EventsOK, EventOK
    <3>2. remote[forwarder.conn] \in Peers
      BY <3>1 DEF RemoteOK
    <3>. QED
      BY <1>3, <3>2 DEF RecordIdentification, Objects
  <2>3. RecorderOK'
    BY <1>0, <1>3, <2>2 DEF RecordIdentification, RecorderOK
  <2>4. ChannelsOK' /\ DatabaseOK'
    BY <1>0, <1>3, Frame DEF RecordIdentification, ChannelsOK, chanVars
  <2>. QED
    BY <1>1, <2>3, <2>4, TypePartsNext
<1>4. CASE PersistToDB
  <2>1. recorder \in Objects
    BY <1>0, <1>4 DEF PersistToDB, RecorderOK
  <2>2. /\ persistC' \in Seq(Objects) /\ Len(persistC') = Len(persistC) + 1
        /\ Len(persistC) \in Nat
    BY <1>0, <1>4, <2>1, Appended DEF PersistToDB, DatabaseOK
  <2>3. DatabaseOK'
    BY <1>0, <1>4, <2>2, EventAssumption DEF PersistToDB, DatabaseOK
  <2>4. RecorderOK' /\ ChannelsOK'
    BY <1>0, <1>4, Frame DEF PersistToDB, RecorderOK
  <2>. QED
    BY <1>1, <2>3, <2>4, TypePartsNext
<1>. QED
  BY <1>2, <1>3, <1>4 DEF Record

\* What a persister composes from the object it receives.
LEMMA Composed ==
  ASSUME TypeOK, NEW i \in Persisters, ComposeQueries(i)
  PROVE  \E obj \in Objects :
           \E w \in Writes :
             /\ persistC # <<>> /\ persistC \in Seq(Objects)
             /\ obj = Head(persistC) /\ persistC' = Tail(persistC)
             /\ w.kind = obj.kind /\ w.peer = obj.peer
             /\ w.connTime = buffer[obj.peer].connTime
             /\ w.discTime = buffer[obj.peer].discTime
             /\ batch[i] = None /\ batch' = [batch EXCEPT ![i] = w]
<1>0. RecorderOK /\ DatabaseOK
  BY TypeParts
<1>1. persistC # <<>> /\ persistC \in Seq(Objects) /\ Head(persistC) \in Objects
  BY <1>0, Received DEF ComposeQueries, DatabaseOK
<1>2. PICK obj \in Objects : obj = Head(persistC)
  BY <1>1
<1>3. PICK w : w = [kind |-> obj.kind, peer |-> obj.peer,
                    connTime |-> buffer[obj.peer].connTime,
                    discTime |-> buffer[obj.peer].discTime]
  BY Zenon
<1>4. /\ w \in Writes /\ w.kind = obj.kind /\ w.peer = obj.peer
      /\ w.connTime = buffer[obj.peer].connTime /\ w.discTime = buffer[obj.peer].discTime
  BY <1>0, <1>2, <1>3 DEF Writes, Objects, RecorderOK, ConnEventRecords
<1>5. /\ persistC' = Tail(persistC) /\ batch[i] = None
      /\ batch' = [batch EXCEPT ![i] = w]
  BY <1>2, <1>3 DEF ComposeQueries
<1>. QED
  BY <1>1, <1>2, <1>4, <1>5, Zenon

\* The row of a write, if the table is kept.
LEMMA Committed ==
  ASSUME TypeOK, NEW i \in Persisters, CommitConnEvent(i)
  PROVE  \E w \in Writes :
           /\ w = batch[i] /\ batch[i] # None /\ w.kind = "event"
           /\ batch' = [batch EXCEPT ![i] = None]
           /\ \/ rows' = rows
              \/ \E r \in Rows :
                   /\ r.peer = w.peer /\ r.connTime = w.connTime /\ r.discTime = w.discTime
                   /\ rows' = Append(rows, r)
           /\ lastActivity' \in [Peers -> Times]
<1>0. DatabaseOK
  BY TypeParts
<1>1. PICK w \in Writes : w = batch[i]
  BY <1>0 DEF CommitConnEvent, DatabaseOK
<1>2. PICK r : r = [peer |-> w.peer, connTime |-> w.connTime, discTime |-> w.discTime]
  BY Zenon
<1>3. /\ r \in Rows
      /\ r.peer = w.peer /\ r.connTime = w.connTime /\ r.discTime = w.discTime
  BY <1>1, <1>2 DEF Writes, Rows
<1>4. /\ batch[i] # None /\ w.kind = "event" /\ batch' = [batch EXCEPT ![i] = None]
      /\ rows' = rows \/ rows' = Append(rows, r)
      /\ lastActivity' = lastActivity \/ lastActivity' = [lastActivity EXCEPT ![w.peer] = w.discTime]
  BY <1>1, <1>2 DEF CommitConnEvent
<1>5. lastActivity' \in [Peers -> Times]
  BY <1>0, <1>1, <1>4 DEF DatabaseOK, Writes
<1>. QED
  BY <1>1, <1>3, <1>4, <1>5

\* The persisters keep the types.
LEMMA PersistTyped ==
  ASSUME TypeOK, NEW i \in Persisters, Persist(i)
  PROVE  TypeOK'
<1>0. HostOK /\ ChannelsOK /\ RecorderOK /\ DatabaseOK
  BY TypeParts
<1>1. HostOK' /\ ChannelsOK' /\ RecorderOK'
  BY <1>0, Frame DEF Persist, ComposeQueries, CommitConnEvent, CommitHostInfo
<1>2. CASE ComposeQueries(i)
  <2>1. PICK w \in Writes : /\ persistC # <<>> /\ persistC' = Tail(persistC)
                            /\ batch' = [batch EXCEPT ![i] = w]
    BY <1>2, Composed
  <2>2. /\ persistC' \in Seq(Objects) /\ Len(persistC') = Len(persistC) - 1
        /\ Len(persistC) \in Nat
    BY <1>0, <2>1, Received DEF DatabaseOK
  <2>3. Len(persistC') <= PersistCap
    BY <1>0, <2>2, EventAssumption DEF DatabaseOK
  <2>4. DatabaseOK'
    BY <1>0, <1>2, <2>1, <2>2, <2>3 DEF DatabaseOK, ComposeQueries
  <2>. QED
    BY <1>1, <2>4, TypePartsNext
<1>3. CASE CommitConnEvent(i)
  <2>1. /\ batch' = [batch EXCEPT ![i] = None] /\ lastActivity' \in [Peers -> Times]
        /\ \/ rows' = rows
           \/ \E r \in Rows : rows' = Append(rows, r)
    BY <1>3, Committed
  <2>2. rows' \in Seq(Rows)
    <3>1. PICK R : R = Rows
      BY Zenon
    <3>2. rows \in Seq(R) /\ (rows' = rows \/ \E r \in R : rows' = Append(rows, r))
      BY <1>0, <2>1, <3>1 DEF DatabaseOK
    <3>3. rows' \in Seq(R)
      BY <3>2, Appended
    <3>. QED
      BY <3>1, <3>3
  <2>3. batch' \in [Persisters -> Writes \cup {None}]
    BY <1>0, <2>1 DEF DatabaseOK
  <2>4. DatabaseOK'
    BY <1>0, <1>3, <2>1, <2>2, <2>3 DEF DatabaseOK, CommitConnEvent
  <2>. QED
    BY <1>1, <2>4, TypePartsNext
<1>4. CASE CommitHostInfo(i)
  <2>1. batch[i].peer \in Peers
    BY <1>0, <1>4 DEF CommitHostInfo, DatabaseOK, Writes
  <2>2. DatabaseOK'
    BY <1>0, <1>4, <2>1 DEF CommitHostInfo, DatabaseOK
  <2>. QED
    BY <1>1, <2>2, TypePartsNext
<1>. QED
  BY <1>2, <1>3, <1>4 DEF Persist

\* Every step keeps the types.
LEMMA NextTyped ==
  ASSUME TypeOK, RemoteOK, EventsOK, [Next]_vars
  PROVE  TypeOK'
<1>1. CASE UNCHANGED vars
  BY <1>1, TypeParts, TypePartsNext, Frame DEF vars
<1>. QED
  BY <1>1, HostTyped, ForwardTyped, RecordTyped, PersistTyped DEF Next, Quiet

-----------------------------------------------------------------------------
(* A connection that has begun, or ended, stays so, and keeps its peer.    *)

Stays ==
  \A c \in Conns :
    /\ opening[c] # "no" => opening'[c] # "no" /\ remote'[c] = remote[c]
    /\ closing[c] # "no" => closing'[c] # "no"

\* Only the callbacks of the host change it, and they never take it back.
LEMMA NextRemote ==
  ASSUME TypeOK, RemoteOK, [Next]_vars
  PROVE  RemoteOK' /\ Stays
<1>0. HostOK
  BY TypeParts
<1>1. CASE UNCHANGED hostVars
  BY <1>1 DEF RemoteOK, Stays, hostVars
<1>2. ASSUME NEW c \in Conns, NEW p \in Peers, Connected(c, p) PROVE RemoteOK' /\ Stays
  BY <1>0, <1>2 DEF Connected, RemoteOK, Stays, HostOK
<1>3. ASSUME NEW c \in Conns, Disconnected(c) PROVE RemoteOK' /\ Stays
  BY <1>0, <1>3 DEF Disconnected, RemoteOK, Stays, HostOK
<1>4. ASSUME NEW c \in Conns, Callback(c) PROVE RemoteOK' /\ Stays
  BY <1>0, <1>4 DEF Callback, Identified, RecConnInfo, RecIdentEvent, RecEndConnInfo, RemoteOK,
                    Stays, HostOK
<1>. QED
  BY <1>1, <1>2, <1>3, <1>4, Zenon
    DEF Next, vars, Forward, ForwardConnEvent, ForwardIdentEvent, Record, RecordConnEvent,
         RecordIdentification, PersistToDB, Persist, ComposeQueries, CommitConnEvent,
         CommitHostInfo, Quiet

-----------------------------------------------------------------------------
(* The events.                                                             *)

\* A callback reports its own connection after it has begun, or ended.
LEMMA NextEvents ==
  ASSUME TypeOK, RemoteOK, EventsOK, Stays, [Next]_vars
  PROVE  EventsOK'
<1>0. ChannelsOK
  BY TypeParts
<1> DEFINE Old(e) == e.conn \in Conns /\ EventOK(e)
<1>1. \A e : Old(e) => EventOK(e)'
  BY DEF Stays, EventOK
<1>2. /\ forwarder # None => Old(forwarder)
      /\ \A k \in 1..Len(connEventNotChannel) : Old(connEventNotChannel[k])
      /\ \A k \in 1..Len(identNotChannel) : Old(identNotChannel[k])
  <2>1. \A k \in 1..Len(connEventNotChannel) : connEventNotChannel[k] \in Reports
    BY <1>0, ElementOfSeq DEF ChannelsOK
  <2>2. \A k \in 1..Len(identNotChannel) : identNotChannel[k] \in Identifications
    BY <1>0, ElementOfSeq DEF ChannelsOK
  <2>3. forwarder # None => forwarder \in Reports \cup Identifications
    BY <1>0 DEF ChannelsOK
  <2>4. \A e \in Reports \cup Identifications : e.conn \in Conns
    BY DEF Reports, Identifications
  <2>. QED
    BY <2>1, <2>2, <2>3, <2>4 DEF EventsOK
<1> HIDE DEF Old
<1>3. CASE UNCHANGED <<chanVars, forwarder>>
  BY <1>1, <1>2, <1>3 DEF EventsOK, chanVars
<1>4. ASSUME NEW c \in Conns, NEW k \in {"conn", "disc"},
             connEventNotChannel' = Append(connEventNotChannel, [kind |-> k, conn |-> c]),
             UNCHANGED <<identNotChannel, forwarder>>,
             opening[c] # "no", k = "disc" => closing[c] # "no"
      PROVE  EventsOK'
  <2>1. [kind |-> k, conn |-> c] \in Reports /\ Old([kind |-> k, conn |-> c])
    BY <1>4 DEF Reports, Old, EventOK
  <2>2. \A j \in 1..Len(connEventNotChannel') :
          \/ connEventNotChannel'[j] = [kind |-> k, conn |-> c]
          \/ \E l \in 1..Len(connEventNotChannel) :
               connEventNotChannel'[j] = connEventNotChannel[l]
    BY <1>0, <1>4, <2>1, PlacesAfterSend DEF ChannelsOK
  <2>3. \A j \in 1..Len(connEventNotChannel') : Old(connEventNotChannel'[j])
    BY <1>2, <2>1, <2>2
  <2>. QED
    BY <1>1, <1>2, <1>4, <2>3 DEF EventsOK
<1>5. ASSUME NEW c \in Conns, RecIdentEvent(c) PROVE EventsOK'
  <2>1. /\ [kind |-> "ident", conn |-> c] \in Identifications
        /\ Old([kind |-> "ident", conn |-> c])
    BY <1>5 DEF RecIdentEvent, Identifications, Old, EventOK
  <2>2. \A j \in 1..Len(identNotChannel') :
          \/ identNotChannel'[j] = [kind |-> "ident", conn |-> c]
          \/ \E l \in 1..Len(identNotChannel) : identNotChannel'[j] = identNotChannel[l]
    BY <1>0, <1>5, <2>1, PlacesAfterSend DEF ChannelsOK, RecIdentEvent
  <2>3. \A j \in 1..Len(identNotChannel') : Old(identNotChannel'[j])
    BY <1>2, <2>1, <2>2
  <2>. QED
    BY <1>1, <1>2, <1>5, <2>3 DEF EventsOK, RecIdentEvent
<1>6. CASE ForwardConnEvent
  <2>1. /\ \E j \in 1..Len(connEventNotChannel) : forwarder' = connEventNotChannel[j]
        /\ \A k \in 1..Len(connEventNotChannel') : \E j \in 1..Len(connEventNotChannel) :
             connEventNotChannel'[k] = connEventNotChannel[j]
    BY <1>0, <1>6, PlacesAfterReceive DEF ForwardConnEvent, ChannelsOK
  <2>2. Old(forwarder') /\ \A k \in 1..Len(connEventNotChannel') : Old(connEventNotChannel'[k])
    BY <1>2, <2>1
  <2>. QED
    BY <1>1, <1>2, <1>6, <2>2 DEF EventsOK, ForwardConnEvent
<1>7. CASE ForwardIdentEvent
  <2>1. /\ \E j \in 1..Len(identNotChannel) : forwarder' = identNotChannel[j]
        /\ \A k \in 1..Len(identNotChannel') : \E j \in 1..Len(identNotChannel) :
             identNotChannel'[k] = identNotChannel[j]
    BY <1>0, <1>7, PlacesAfterReceive DEF ForwardIdentEvent, ChannelsOK
  <2>2. Old(forwarder') /\ \A k \in 1..Len(identNotChannel') : Old(identNotChannel'[k])
    BY <1>2, <2>1
  <2>. QED
    BY <1>1, <1>2, <1>7, <2>2 DEF EventsOK, ForwardIdentEvent
<1>8. CASE RecordConnEvent \/ RecordIdentification
  <2>1. forwarder' = None /\ UNCHANGED chanVars
    BY <1>8 DEF RecordConnEvent, RecordIdentification
  <2>. QED
    BY <1>1, <1>2, <2>1 DEF EventsOK, chanVars
<1>9. ASSUME NEW c \in Conns, RecConnInfo(c) PROVE EventsOK'
  BY <1>4, <1>9 DEF RecConnInfo
<1>10. ASSUME NEW c \in Conns, RecEndConnInfo(c) PROVE EventsOK'
  <2>1. closing[c] # "no" /\ opening[c] # "no"
    BY <1>10 DEF RecEndConnInfo, RemoteOK
  <2>. QED
    BY <1>4, <1>10, <2>1 DEF RecEndConnInfo
<1>. QED
  BY <1>3, <1>5, <1>6, <1>7, <1>8, <1>9, <1>10, Zenon
    DEF Next, vars, Callback, Connected, Disconnected, Identified, Forward, Record, PersistToDB,
        Persist, ComposeQueries, CommitConnEvent, CommitHostInfo, Quiet

-----------------------------------------------------------------------------
(* The buffer, the objects and the rows.                                   *)

\* The recorder writes the times of connections of the peer, and never clears one.
LEMMA NextBuffer ==
  ASSUME TypeOK, RemoteOK, EventsOK, BufferOK, Stays, [Next]_vars
  PROVE  BufferOK' /\ \A p \in Peers : Complete(p) => Complete(p)'
<1>1. CASE UNCHANGED buffer
  BY <1>1 DEF BufferOK, Complete, BeginOf, EndOf, RemoteOK, Stays
<1>2. CASE RecordConnEvent
  <2>1. PICK c \in Conns, k \in {"conn", "disc"}, p \in Peers :
          /\ opening[c] # "no" /\ (k = "disc" => closing[c] # "no") /\ remote[c] = p
          /\ \E ev \in ConnEventRecords :
               /\ ev.connTime = IF k = "conn" THEN c ELSE buffer[p].connTime
               /\ ev.discTime = IF k = "disc" THEN c ELSE buffer[p].discTime
               /\ buffer' = [buffer EXCEPT ![p] = ev]
    BY <1>2, Recorded
  <2>2. BeginOf(c, p) /\ (k = "disc" => EndOf(c, p)) /\ c # ZeroTime
    BY <2>1, EventAssumption DEF BeginOf, EndOf, ZeroTime
  <2>3. /\ \A q \in Peers : q # p => buffer'[q] = buffer[q]
        /\ buffer'[p].connTime = IF k = "conn" THEN c ELSE buffer[p].connTime
        /\ buffer'[p].discTime = IF k = "disc" THEN c ELSE buffer[p].discTime
    <3>1. buffer \in [Peers -> ConnEventRecords]
      BY TypeParts DEF RecorderOK
    <3>. QED
      BY <2>1, <3>1
  <2>4. ASSUME NEW q \in Peers
        PROVE  /\ buffer'[q].connTime # ZeroTime => BeginOf(buffer'[q].connTime, q)
               /\ buffer'[q].discTime # ZeroTime => EndOf(buffer'[q].discTime, q)
               /\ Complete(q) => Complete(q)'
    BY <2>1, <2>2, <2>3 DEF BufferOK, Complete
  <2>. QED
    BY <2>4 DEF BufferOK, BeginOf, EndOf, RemoteOK, Stays
<1>. QED
  BY <1>1, <1>2, Zenon
    DEF Next, vars, Callback, Connected, Disconnected, Identified, RecConnInfo, RecIdentEvent,
        RecEndConnInfo, Forward, ForwardConnEvent, ForwardIdentEvent, Record,
        RecordIdentification, PersistToDB, Persist, ComposeQueries, CommitConnEvent,
        CommitHostInfo, Quiet

\* A pointer to a ConnEvent leaves the recorder when the ConnEvent is complete.
LEMMA NextObjects ==
  ASSUME TypeOK, RemoteOK, EventsOK, ObjectsOK, [Next]_vars,
         \A p \in Peers : Complete(p) => Complete(p)'
  PROVE  ObjectsOK'
<1>0. RecorderOK /\ DatabaseOK
  BY TypeParts
<1> DEFINE Old(obj) == obj.peer \in Peers /\ ObjectOK(obj)
<1>1. \A obj : Old(obj) => ObjectOK(obj)'
  BY DEF ObjectOK
<1>2. /\ recorder # None => Old(recorder)
      /\ \A k \in 1..Len(persistC) : Old(persistC[k])
  <2>1. \A k \in 1..Len(persistC) : persistC[k] \in Objects
    BY <1>0, ElementOfSeq DEF DatabaseOK
  <2>2. recorder # None => recorder \in Objects
    BY <1>0 DEF RecorderOK
  <2>3. \A obj \in Objects : obj.peer \in Peers
    BY DEF Objects
  <2>. QED
    BY <2>1, <2>2, <2>3 DEF ObjectsOK
<1> HIDE DEF Old
<1>3. CASE UNCHANGED <<recorder, persistC>>
  BY <1>1, <1>2, <1>3 DEF ObjectsOK
<1>4. CASE RecordConnEvent
  <2>1. PICK p \in Peers :
          \E ev \in ConnEventRecords :
             /\ buffer' = [buffer EXCEPT ![p] = ev]
             /\ \/ recorder' = None
                \/ /\ ev.connTime # ZeroTime /\ ev.discTime # ZeroTime
                   /\ recorder' = [kind |-> "event", peer |-> p]
    BY <1>4, Recorded
  <2>2. recorder' # None => recorder' = [kind |-> "event", peer |-> p] /\ Complete(p)'
    BY <1>0, <2>1 DEF RecorderOK, Complete, ZeroTime
  <2>3. recorder' # None => ObjectOK(recorder)'
    BY <2>2 DEF ObjectOK, Complete
  <2>4. UNCHANGED persistC
    BY <1>4 DEF RecordConnEvent, dbVars
  <2>. QED
    BY <1>1, <1>2, <2>3, <2>4 DEF ObjectsOK
<1>5. CASE RecordIdentification
  <2>1. recorder'.kind = "host" /\ UNCHANGED persistC
    BY <1>5 DEF RecordIdentification, dbVars
  <2>. QED
    BY <1>1, <1>2, <2>1 DEF ObjectsOK, ObjectOK
<1>6. CASE PersistToDB
  <2>1. recorder \in Objects /\ recorder # None /\ recorder' = None
    BY <1>0, <1>6 DEF PersistToDB, RecorderOK
  <2>2. \A k \in 1..Len(persistC') :
          persistC'[k] = recorder \/ \E j \in 1..Len(persistC) : persistC'[k] = persistC[j]
    BY <1>0, <1>6, <2>1, PlacesAfterSend DEF PersistToDB, DatabaseOK
  <2>3. \A k \in 1..Len(persistC') : Old(persistC'[k])
    BY <1>2, <2>1, <2>2
  <2>. QED
    BY <1>1, <2>1, <2>3 DEF ObjectsOK
<1>7. ASSUME NEW i \in Persisters, ComposeQueries(i) PROVE ObjectsOK'
  <2>1. \A k \in 1..Len(persistC') : \E j \in 1..Len(persistC) : persistC'[k] = persistC[j]
    BY <1>0, <1>7, PlacesAfterReceive DEF ComposeQueries, DatabaseOK
  <2>2. \A k \in 1..Len(persistC') : Old(persistC'[k])
    BY <1>2, <2>1
  <2>. QED
    BY <1>1, <1>2, <1>7, <2>2 DEF ObjectsOK, ComposeQueries
<1>. QED
  BY <1>3, <1>4, <1>5, <1>6, <1>7, Zenon
    DEF Next, vars, Callback, Connected, Disconnected, Identified, RecConnInfo, RecIdentEvent,
        RecEndConnInfo, Forward, ForwardConnEvent, ForwardIdentEvent, Record, Persist,
        CommitConnEvent, CommitHostInfo, Quiet, dbVars

\* What a persister copies from a complete ConnEvent is a pair of times of the peer.
LEMMA NextWrites ==
  ASSUME TypeOK, RemoteOK, BufferOK, ObjectsOK, WritesOK, Stays, [Next]_vars
  PROVE  WritesOK'
<1>0. DatabaseOK
  BY TypeParts
<1>1. \A r : PairOK(r) => PairOK(r)'
  BY DEF PairOK, BeginOf, EndOf, RemoteOK, Stays
<1>2. CASE UNCHANGED <<batch, rows>>
  BY <1>1, <1>2 DEF WritesOK
<1>3. ASSUME NEW i \in Persisters, ComposeQueries(i) PROVE WritesOK'
  <2>1. PICK obj \in Objects :
          \E w \in Writes :
             /\ persistC # <<>> /\ persistC \in Seq(Objects)
             /\ obj = Head(persistC)
             /\ w.kind = obj.kind /\ w.peer = obj.peer
             /\ w.connTime = buffer[obj.peer].connTime
             /\ w.discTime = buffer[obj.peer].discTime
             /\ batch' = [batch EXCEPT ![i] = w]
    BY <1>3, Composed
  <2>2. PICK w \in Writes :
             /\ w.kind = obj.kind /\ w.peer = obj.peer
             /\ w.connTime = buffer[obj.peer].connTime
             /\ w.discTime = buffer[obj.peer].discTime
             /\ batch' = [batch EXCEPT ![i] = w]
    BY <2>1
  <2>3. ObjectOK(obj) /\ obj.peer \in Peers
    <3>1. \E j \in 1..Len(persistC) : obj = persistC[j]
      BY <2>1, PlacesAfterReceive
    <3>. QED
      BY <3>1 DEF ObjectsOK, Objects
  <2>4. w.kind = "event" => PairOK(w)
    BY <2>2, <2>3 DEF ObjectOK, Complete, BufferOK, PairOK
  <2>5. /\ batch'[i] = w
        /\ \A j \in Persisters : j # i => batch'[j] = batch[j]
        /\ rows' = rows
    BY <1>0, <1>3, <2>2 DEF DatabaseOK, ComposeQueries
  <2>. QED
    BY <1>1, <2>4, <2>5 DEF WritesOK
<1>4. ASSUME NEW i \in Persisters, CommitConnEvent(i) PROVE WritesOK'
  <2>1. PICK w \in Writes :
           /\ w = batch[i] /\ batch[i] # None /\ w.kind = "event"
           /\ batch' = [batch EXCEPT ![i] = None]
           /\ \/ rows' = rows
              \/ \E r \in Rows :
                   /\ r.peer = w.peer /\ r.connTime = w.connTime /\ r.discTime = w.discTime
                   /\ rows' = Append(rows, r)
    BY <1>4, Committed
  <2>2. PairOK(w)
    BY <2>1 DEF WritesOK
  <2>3. \A k \in 1..Len(rows') : PairOK(rows'[k])
    <3>1. CASE rows' = rows
      BY <3>1 DEF WritesOK
    <3>2. ASSUME NEW r \in Rows, rows' = Append(rows, r),
                 r.peer = w.peer, r.connTime = w.connTime, r.discTime = w.discTime
          PROVE  \A k \in 1..Len(rows') : PairOK(rows'[k])
      <4>1. PairOK(r)
        BY <2>2, <3>2 DEF PairOK
      <4>2. \A k \in 1..Len(rows') :
              rows'[k] = r \/ \E j \in 1..Len(rows) : rows'[k] = rows[j]
        BY <1>0, <3>2, PlacesAfterSend DEF DatabaseOK
      <4>. QED
        BY <4>1, <4>2 DEF WritesOK
    <3>. QED
      BY <2>1, <3>1, <3>2
  <2>4. batch'[i] = None /\ \A j \in Persisters : j # i => batch'[j] = batch[j]
    BY <1>0, <2>1 DEF DatabaseOK
  <2>. QED
    BY <1>1, <2>3, <2>4 DEF WritesOK
<1>5. ASSUME NEW i \in Persisters, CommitHostInfo(i) PROVE WritesOK'
  <2>1. /\ batch'[i] = None /\ \A j \in Persisters : j # i => batch'[j] = batch[j]
        /\ rows' = rows
    BY <1>0, <1>5 DEF DatabaseOK, CommitHostInfo
  <2>. QED
    BY <1>1, <2>1 DEF WritesOK
<1>. QED
  BY <1>2, <1>3, <1>4, <1>5, Zenon
    DEF Next, vars, Callback, Connected, Disconnected, Identified, RecConnInfo, RecIdentEvent,
        RecEndConnInfo, Forward, ForwardConnEvent, ForwardIdentEvent, Record, RecordConnEvent,
        RecordIdentification, PersistToDB, Persist, Quiet, dbVars

-----------------------------------------------------------------------------
(* The theorems.                                                           *)

\* The inductive invariant holds at first.
LEMMA InitInv ==
  ASSUME Init
  PROVE  IInv
<1>1. HostOK
  BY DEF Init, HostOK
<1>2. ChannelsOK
  BY EventAssumption DEF Init, ChannelsOK
<1>3. RecorderOK
  <2>1. NewConnEvent \in ConnEventRecords
    BY DEF NewConnEvent, ConnEventRecords, Times
  <2>. QED
    BY <2>1 DEF Init, RecorderOK
<1>4. DatabaseOK
  BY EventAssumption DEF Init, DatabaseOK, Times
<1>5. TypeOK
  BY <1>1, <1>2, <1>3, <1>4, TypeParts
<1>6. \A p \in Peers : buffer[p].connTime = ZeroTime /\ buffer[p].discTime = ZeroTime
  BY DEF Init, NewConnEvent
<1>7. /\ 1..Len(connEventNotChannel) = {} /\ 1..Len(identNotChannel) = {}
      /\ 1..Len(persistC) = {} /\ 1..Len(rows) = {}
  BY DEF Init
<1>8. RemoteOK /\ BufferOK
  BY <1>6 DEF Init, RemoteOK, BufferOK
<1>9. EventsOK /\ ObjectsOK /\ WritesOK
  BY <1>7, Zenon DEF Init, EventsOK, ObjectsOK, WritesOK
<1>. QED
  BY <1>5, <1>8, <1>9 DEF IInv

\* The inductive invariant: the channels hold what their receivers expect and never
\* more than their capacity, and every time on its way to a row belongs to the peer.
THEOREM Inductive == Spec => []IInv
<1>1. Init => IInv
  BY InitInv
<1>2. IInv /\ [Next]_vars => IInv'
  BY NextTyped, NextRemote, NextEvents, NextBuffer, NextObjects, NextWrites DEF IInv
<1>. QED
  BY <1>1, <1>2, PTL DEF Spec

\* Every row pairs the beginning and the end of connections of its own peer, however
\* the callbacks, the recorder and the persisters interleave and however often a peer
\* connects (eventRecorderRoutine, InsertNewConnEvent).
THEOREM RowsBelong == Spec => []RowsOfThePeer
<1>1. IInv => RowsOfThePeer
  BY DEF IInv, WritesOK, PairOK, BeginOf, EndOf, RowsOfThePeer
<1>. QED
  BY <1>1, Inductive, PTL
=============================================================================
