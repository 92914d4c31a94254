----------------------------- MODULE ConnEvents -----------------------------
(***************************************************************************)
(* The way of a connection from the callbacks of the libp2p host to the    *)
(* tables conn_events and peer_info:                                       *)
(*   src/pkg/hosts/notify.go               (the two callbacks)             *)
(*   src/pkg/hosts/host.go                 (their channels)                *)
(*   src/pkg/peering/peering.go            (eventRecorderRoutine: forward) *)
(*   src/pkg/peering/pruning_strategy.go   (eventRecorderRoutine: pairing) *)
(*   src/pkg/db/models/connevents.go       (ConnEvent)                     *)
(*                                                                         *)
(* The callback of a new connection identifies the peer and then reports   *)
(* the connection and the identification; the callback of a disconnection  *)
(* reports it at once, maybe earlier.  The context of the identification   *)
(* has a timeout of 5 seconds, but reading an answer from a stream does    *)
(* not heed it: a silent peer keeps the callback until it is gone.  The    *)
(* recorder keeps one ConnEvent per peer, and hands a pointer to it to the *)
(* database whenever it is complete: what a persister writes is what the   *)
(* ConnEvent holds when the persister builds the query.                    *)
(*                                                                         *)
(* Every callback reads the clock once, and no two readings are equal.  A  *)
(* time is only copied and tested for zero, so the model names a reading   *)
(* by the connection whose callback took it.                               *)
(* The latency, the direction, the error and what the identification found *)
(* are carried along and never tested; they are left out, as are the       *)
(* faults of the database (module DBPersister).                            *)
(***************************************************************************)
EXTENDS Naturals, Sequences, FiniteSets

CONSTANTS
  Peers,
  Conns,        \* bound: the connections of the run
  Persisters,
  ConnNotChannSize,
  PersistCap,   \* capacity of persistC
  persistConnEvents,   \* is the table conn_events kept at all?
  None

ASSUME EventAssumption ==
  /\ None \notin Conns
  /\ None \notin Peers
  /\ ConnNotChannSize \in Nat \ {0}
  /\ PersistCap \in Nat \ {0}
  /\ persistConnEvents \in BOOLEAN

VARIABLES
  remote,        \* for each connection, its peer, None before there is one
  opening,       \* pc of its callback standardConnectF
  closing,       \* and of its callback standardDisconnectF
  connEventNotChannel, identNotChannel,
  forwarder,     \* event the peering service is handing to the strategy
  buffer,        \* connEventBuffer: a ConnEvent for every peer
  recorder,      \* object the strategy is handing to the database, or None
  persistC,
  batch,         \* composed write of each persister, or None
  rows,          \* conn_events
  hostRows,      \* peers with a row in peer_info
  lastActivity   \* its column last_activity

hostVars == <<remote, opening, closing>>
chanVars == <<connEventNotChannel, identNotChannel>>
dbVars   == <<persistC, batch, rows, hostRows, lastActivity>>
vars == <<hostVars, chanVars, forwarder, buffer, recorder, dbVars>>

-----------------------------------------------------------------------------
(* ConnEvent.                                                              *)

ZeroTime == None

NewConnEvent == [connTime |-> ZeroTime, discTime |-> ZeroTime, timed |-> FALSE]

\* `timed': ConnDuration has been computed, and is not zero.
AddConnInfo(ev, t) ==
  [ev EXCEPT !.connTime = t, !.timed = @ \/ ev.discTime # ZeroTime]

\* Mutant: a disconnection that comes first is dropped.
AddDisconnLate(ev, t) ==
  IF ev.connTime = ZeroTime THEN ev
  ELSE [ev EXCEPT !.discTime = t, !.timed = TRUE]

AddDisconn(ev, t) ==
  [ev EXCEPT !.discTime = t, !.timed = @ \/ ev.connTime # ZeroTime]

\* Mutant: the disconnection is not waited for.
IsReadyToPersistEarly(ev) == ev.connTime # ZeroTime

IsReadyToPersist(ev) ==
  ev.connTime # ZeroTime /\ ev.discTime # ZeroTime /\ ev.timed

-----------------------------------------------------------------------------

Init ==
  /\ remote = [c \in Conns |-> None]
  /\ opening = [c \in Conns |-> "no"]
  /\ closing = [c \in Conns |-> "no"]
  /\ connEventNotChannel = <<>>
  /\ identNotChannel = <<>>
  /\ forwarder = None
  /\ buffer = [p \in Peers |-> NewConnEvent]
  /\ recorder = None
  /\ persistC = <<>>
  /\ batch = [i \in Persisters |-> None]
  /\ rows = <<>>
  /\ hostRows \in SUBSET Peers
  /\ lastActivity = [p \in Peers |-> ZeroTime]

-----------------------------------------------------------------------------
(* The callbacks of the host.                                              *)

Connected(c, p) ==
  /\ opening[c] = "no"
  /\ remote' = [remote EXCEPT ![c] = p]
  /\ opening' = [opening EXCEPT ![c] = "identify"]
  /\ UNCHANGED <<closing, chanVars, forwarder, buffer, recorder, dbVars>>

\* ReqHostInfo, ReqBeaconStatus and ReqBeaconMetadata end (module ReqResp).
Identified(c) ==
  /\ opening[c] = "identify"
  /\ opening' = [opening EXCEPT ![c] = "recConn"]
  /\ UNCHANGED <<remote, closing, chanVars, forwarder, buffer, recorder, dbVars>>

RecConnInfo(c) ==
  /\ opening[c] = "recConn"
  /\ Len(connEventNotChannel) < ConnNotChannSize
  /\ connEventNotChannel' = Append(connEventNotChannel, [kind |-> "conn", conn |-> c])
  /\ opening' = [opening EXCEPT ![c] = "recIdent"]
  /\ UNCHANGED <<remote, closing, identNotChannel, forwarder, buffer,
                 recorder, dbVars>>

RecIdentEvent(c) ==
  /\ opening[c] = "recIdent"
  /\ Len(identNotChannel) < ConnNotChannSize
  /\ identNotChannel' = Append(identNotChannel, [kind |-> "ident", conn |-> c])
  /\ opening' = [opening EXCEPT ![c] = "returned"]
  /\ UNCHANGED <<remote, closing, connEventNotChannel, forwarder, buffer,
                 recorder, dbVars>>

Disconnected(c) ==
  /\ opening[c] # "no"
  /\ closing[c] = "no"
  /\ closing' = [closing EXCEPT ![c] = "recDisc"]
  /\ UNCHANGED <<remote, opening, chanVars, forwarder, buffer, recorder, dbVars>>

RecEndConnInfo(c) ==
  /\ closing[c] = "recDisc"
  /\ Len(connEventNotChannel) < ConnNotChannSize
  /\ connEventNotChannel' = Append(connEventNotChannel, [kind |-> "disc", conn |-> c])
  /\ closing' = [closing EXCEPT ![c] = "returned"]
  /\ UNCHANGED <<remote, opening, identNotChannel, forwarder, buffer,
                 recorder, dbVars>>

-----------------------------------------------------------------------------
(* The peering service forwards, the strategy pairs.                       *)

ForwardConnEvent ==
  /\ forwarder = None
  /\ connEventNotChannel # <<>>
  /\ forwarder' = Head(connEventNotChannel)
  /\ connEventNotChannel' = Tail(connEventNotChannel)
  /\ UNCHANGED <<hostVars, identNotChannel, buffer, recorder, dbVars>>

ForwardIdentEvent ==
  /\ forwarder = None
  /\ identNotChannel # <<>>
  /\ forwarder' = Head(identNotChannel)
  /\ identNotChannel' = Tail(identNotChannel)
  /\ UNCHANGED <<hostVars, connEventNotChannel, buffer, recorder, dbVars>>

\* Mutant: a ConnEvent that was complete already is not handed over again.
RecordConnEventOnce ==
  LET c  == forwarder.conn
      p  == remote[c]
      ev == IF forwarder.kind = "conn" THEN AddConnInfo(buffer[p], c)
            ELSE AddDisconn(buffer[p], c)
  IN  /\ recorder = None
      /\ forwarder # None
      /\ forwarder.kind \in {"conn", "disc"}
      /\ forwarder' = None
      /\ buffer' = [buffer EXCEPT ![p] = ev]
      /\ recorder' = IF IsReadyToPersist(ev) /\ ~IsReadyToPersist(buffer[p])
                     THEN [kind |-> "event", peer |-> p]
                     ELSE None
      /\ UNCHANGED <<hostVars, chanVars, dbVars>>

\* The recorder takes an event from an unbuffered channel.  A complete ConnEvent
\* goes to the database and stays in the buffer.
RecordConnEvent ==
  LET c  == forwarder.conn
      p  == remote[c]
      ev == IF forwarder.kind = "conn" THEN AddConnInfo(buffer[p], c)
            ELSE AddDisconn(buffer[p], c)
  IN  /\ recorder = None
      /\ forwarder # None
      /\ forwarder.kind \in {"conn", "disc"}
      /\ forwarder' = None
      /\ buffer' = [buffer EXCEPT ![p] = ev]
      /\ recorder' = IF IsReadyToPersist(ev) THEN [kind |-> "event", peer |-> p]
                     ELSE None
      /\ UNCHANGED <<hostVars, chanVars, dbVars>>

RecordIdentification ==
  /\ recorder = None
  /\ forwarder # None
  /\ forwarder.kind = "ident"
  /\ forwarder' = None
  /\ recorder' = [kind |-> "host", peer |-> remote[forwarder.conn]]
  /\ UNCHANGED <<hostVars, chanVars, buffer, dbVars>>

PersistToDB ==
  /\ recorder # None
  /\ Len(persistC) < PersistCap
  /\ persistC' = Append(persistC, recorder)
  /\ recorder' = None
  /\ UNCHANGED <<hostVars, chanVars, forwarder, buffer, batch, rows, hostRows,
                 lastActivity>>

-----------------------------------------------------------------------------
(* A persister builds the queries of an object, and commits them later.    *)

ComposeQueries(i) ==
  LET obj == Head(persistC)
      ev  == buffer[obj.peer]
  IN  /\ batch[i] = None
      /\ persistC # <<>>
      /\ persistC' = Tail(persistC)
      /\ batch' = [batch EXCEPT ![i] =
                     [kind |-> obj.kind, peer |-> obj.peer,
                      connTime |-> ev.connTime, discTime |-> ev.discTime]]
      /\ UNCHANGED <<hostVars, chanVars, forwarder, buffer, recorder, rows, hostRows,
                     lastActivity>>

\* InsertNewConnEvent and UpdateLastActivityTimestamp; the latter needs a row.
CommitConnEvent(i) ==
  LET w == batch[i]
  IN  /\ w # None
      /\ w.kind = "event"
      /\ rows' = IF persistConnEvents
                 THEN Append(rows, [peer |-> w.peer, connTime |-> w.connTime,
                                    discTime |-> w.discTime])
                 ELSE rows
      /\ lastActivity' = IF w.peer \in hostRows
                         THEN [lastActivity EXCEPT ![w.peer] = w.discTime]
                         ELSE lastActivity
      /\ batch' = [batch EXCEPT ![i] = None]
      /\ UNCHANGED <<hostVars, chanVars, forwarder, buffer, recorder, persistC, hostRows>>

\* UpsertHostInfo and UpdatePeerInfo.
CommitHostInfo(i) ==
  /\ batch[i] # None
  /\ batch[i].kind = "host"
  /\ hostRows' = hostRows \cup {batch[i].peer}
  /\ batch' = [batch EXCEPT ![i] = None]
  /\ UNCHANGED <<hostVars, chanVars, forwarder, buffer, recorder, persistC, rows,
                 lastActivity>>

-----------------------------------------------------------------------------

\* Every connection has come and gone and has been dealt with.
Quiet ==
  /\ \A c \in Conns : opening[c] = "returned" /\ closing[c] = "returned"
  /\ connEventNotChannel = <<>> /\ identNotChannel = <<>>
  /\ forwarder = None /\ recorder = None
  /\ persistC = <<>> /\ \A i \in Persisters : batch[i] = None
  /\ UNCHANGED vars

Callback(c) == Identified(c) \/ RecConnInfo(c) \/ RecIdentEvent(c) \/ RecEndConnInfo(c)

\* Mutant: the identifications are not forwarded.
ForwardWithoutIdent == ForwardConnEvent

Forward == ForwardConnEvent \/ ForwardIdentEvent

Record == RecordConnEvent \/ RecordIdentification \/ PersistToDB

Persist(i) == ComposeQueries(i) \/ CommitConnEvent(i) \/ CommitHostInfo(i)

Next ==
  \/ \E c \in Conns :
       \/ \E p \in Peers : Connected(c, p)
       \/ Disconnected(c) \/ Callback(c)
  \/ Forward \/ Record
  \/ \E i \in Persisters : Persist(i)
  \/ Quiet

Spec == Init /\ [][Next]_vars

\* The callbacks go on; the requests of the identification need not end before the
\* connection does.
CallbackGoes(c) ==
  \/ closing[c] # "no" /\ Identified(c)
  \/ RecConnInfo(c) \/ RecIdentEvent(c) \/ RecEndConnInfo(c)

\* Every goroutine goes on while it can.  Nothing makes a peer connect or
\* disconnect.
Fairness ==
  /\ \A c \in Conns : WF_vars(CallbackGoes(c))
  /\ WF_vars(Forward)
  /\ WF_vars(Record)
  /\ \A i \in Persisters : WF_vars(Persist(i))

FairSpec == Spec /\ Fairness

-----------------------------------------------------------------------------
(* Properties.                                                             *)

Times == Conns \cup {ZeroTime}
Reports == [kind : {"conn", "disc"}, conn : Conns]
Identifications == [kind : {"ident"}, conn : Conns]
Objects == [kind : {"event", "host"}, peer : Peers]
Writes == [kind : {"event", "host"}, peer : Peers, connTime : Times, discTime : Times]

TypeOK ==
  /\ remote \in [Conns -> Peers \cup {None}]
  /\ opening \in [Conns -> {"no", "identify", "recConn", "recIdent", "returned"}]
  /\ closing \in [Conns -> {"no", "recDisc", "returned"}]
  /\ connEventNotChannel \in Seq(Reports)
  /\ Len(connEventNotChannel) <= ConnNotChannSize
  /\ identNotChannel \in Seq(Identifications)
  /\ Len(identNotChannel) <= ConnNotChannSize
  /\ forwarder \in Reports \cup Identifications \cup {None}
  /\ buffer \in [Peers -> [connTime : Times, discTime : Times, timed : BOOLEAN]]
  /\ recorder \in Objects \cup {None}
  /\ persistC \in Seq(Objects) /\ Len(persistC) <= PersistCap
  /\ batch \in [Persisters -> Writes \cup {None}]
  /\ rows \in Seq([peer : Peers, connTime : Times, discTime : Times])
  /\ hostRows \subseteq Peers
  /\ lastActivity \in [Peers -> Times]

RowOf(c) == [peer |-> remote[c], connTime |-> c, discTime |-> c]

PairOf(p) == [peer |-> p, connTime |-> buffer[p].connTime,
              discTime |-> buffer[p].discTime]

\* However the events of several connections interleave, and although a persister
\* reads the ConnEvent through a pointer after the recorder has gone on, a row of
\* conn_events has the beginning of one and the end of one connection, both of the
\* peer it names and both in the past.  They are those of one connection only if the
\* peer connects once: the next connection finds the old times in the buffer.
RowsOfThePeer ==
  \A k \in 1..Len(rows) : \E c, d \in Conns :
    /\ rows[k].connTime = c /\ remote[c] = rows[k].peer /\ opening[c] # "no"
    /\ rows[k].discTime = d /\ remote[d] = rows[k].peer /\ closing[d] # "no"

\* A connection gets its row when it has ended, unless another connection of the same
\* peer meddles: the disconnection that comes while the peer is still being identified
\* is kept for the connection info, and its callback is not blocked for ever.
EventuallyRecorded ==
  \A c \in Conns :
    closing[c] # "no"
      ~> \/ \E k \in 1..Len(rows) : rows[k] = RowOf(c)
         \/ \E d \in Conns \ {c} : remote[d] = remote[c]

\* What the recorder paired last gets to the table, however many events of the peer
\* came while its ConnEvent was on the way: the persister may skip an older pair, it
\* never misses the last one.
LastPairRecorded ==
  \A p \in Peers :
    <>[](IsReadyToPersist(buffer[p]) => \E k \in 1..Len(rows) : rows[k] = PairOf(p))

\* The callback of a connection that has ended is not blocked for ever, even with
\* the smallest channels, and what it reports gets to the tables: the peer has its
\* row in peer_info.
CallbacksReturn ==
  \A c \in Conns :
    closing[c] # "no" ~> opening[c] = "returned" /\ remote[c] \in hostRows

=============================================================================
