------------------------------ MODULE Gossip ------------------------------
(***************************************************************************)
(* The gossip topics of a configuration and their readers:                 *)
(*   src/pkg/config/ethereum_config.go               (the flags)           *)
(*   src/pkg/networks/ethereum/network_info.go       (names of topics)     *)
(*   src/pkg/crawler/ethereum.go                     (the subscriptions)   *)
(*   src/pkg/gossipsub/gossipsub.go, topic_subscription.go (the readers)   *)
(*   src/pkg/networks/ethereum/gossip_handlers.go, gossip_messages.go      *)
(*   src/pkg/db/postgresql/server.go, ethereum_msgs.go (the rows)          *)
(*                                                                         *)
(* A text that the code takes apart (the digest of a fork, the number of a *)
(* subnet) is a sequence of characters; the rest of a topic is its base    *)
(* name.  The pubsub service puts messages in the buffer of a subscription *)
(* and drops them when it is full; it knows an identifier for a while and  *)
(* may deliver it again later.  The persisters batch what they take from   *)
(* persistC; the steps and the retries of a transaction are in DBPersister,*)
(* here a batch is stored or lost as a whole.                              *)
(***************************************************************************)
EXTENDS Integers, SequencesExt

CONSTANTS
  ForkDigests,     \* name of a fork, in lower case |-> digest
  DefaultDigest,   \* the digest of a configuration without the flag
  HexDigits,
  DigestSize,      \* number of hexadecimal digits
  SubnetLimit,
  All,             \* the flag for all subnets
  Flags,           \* command lines: [fork, topics, subnets, persist]
  Messages,        \* what other peers send: [id, base, subnet, from, data, slot]
  Self,
  BufferSize,      \* of a subscription
  Persisters,      \* launched by NewDBClient
  BatchSize,
  ChannelSize,     \* of persistC
  MaxDeliveries,   \* bound
  None

Prefix == <<"0", "x">>

AllForks == <<"all">>

\* A digest of the map: the prefix and DigestSize digits.
IsDigest(d) ==
  /\ d \in Seq(HexDigits \cup ToSet(Prefix))
  /\ Len(d) = DigestSize + 2
  /\ d[1] = "0" /\ d[2] = "x"
  /\ \A i \in 3..Len(d) : d[i] \in HexDigits

\* Subnets have two digits at most; the flag of a subnet that is neither a number
\* nor All ends the process.
ASSUME GossipAssumption ==
  /\ SubnetLimit \in 1..99
  /\ {DigestSize, BufferSize, BatchSize, ChannelSize, MaxDeliveries} \subseteq Nat \ {0}
  /\ HexDigits \cap {"x", "all"} = {}
  /\ AllForks \in DOMAIN ForkDigests /\ ForkDigests[AllForks] = AllForks
  /\ \A k \in DOMAIN ForkDigests \ {AllForks} : IsDigest(ForkDigests[k])
  /\ IsDigest(DefaultDigest)
  /\ \A flags \in Flags :
       /\ flags.topics \in Seq(STRING)
       /\ flags.subnets \in Seq(Int \cup {All})
  /\ \A m \in Messages :
       /\ m.base \in {"beacon_block", "beacon_attestation"}
       /\ m.base = "beacon_attestation" => m.subnet \in Nat

VARIABLES
  conf,         \* the applied configuration
  pending,      \* topics that NewEthereumCrawler has yet to subscribe
  reader,       \* topic |-> [pc, buf, content] of its MessageReadingLoop
  persistC,
  persister,    \* [pc, batch] of every persister
  eth_attestations,   \* msg_id |-> row
  eth_blocks,         \* msg_id |-> row
  dropped,      \* history: what was in a batch that was not stored
  closing,      \* "no", "host": no more messages, "token": a persister has read
                \* doneC, "db": persistC is closed
  ctxDone,
  panic,        \* "no", "join": nil topic, "send": on a closed channel
  delivered     \* messages that went into some buffer, in order

tableVars == <<persister, eth_attestations, eth_blocks, dropped>>
vars == <<conf, pending, reader, persistC, tableVars, closing, ctxDone, panic, delivered>>

-----------------------------------------------------------------------------
(* Flags and names of topics.                                              *)

\* A name of the map in lower case selects an entry that is not in the map.
CheckValidForkDigest(in) ==
  IF in \in DOMAIN ForkDigests THEN <<>>
  ELSE IF in \in Range(ForkDigests) THEN in
  ELSE IF Len(in) = DigestSize /\ ToSet(in) \subseteq HexDigits THEN in
  ELSE None

ForkDigestOf(flag) ==
  IF flag = None \/ CheckValidForkDigest(flag) = None THEN DefaultDigest
  ELSE CheckValidForkDigest(flag)

\* "all" ends the list and adds every subnet to the ones before it.
SubnetsOf(flag) ==
  LET all == {i \in DOMAIN flag : flag[i] = All}
  IN  IF all = {} THEN flag
      ELSE SubSeq(flag, 1, Min(all) - 1) \o [n \in 1..SubnetLimit |-> n]

\* strings.Trim with a set of characters, at both ends.
Trim(s, cutset) ==
  LET kept == {i \in DOMAIN s : s[i] \notin cutset}
  IN  IF kept = {} THEN <<>> ELSE SubSeq(s, Min(kept), Max(kept))

\* fmt.Sprintf("%d", n) and strconv.Atoi, for a subnet.  A number over 99 is not
\* written in digits, but in no topic that is joined either.
Decimal(n) == IF n < 10 THEN <<n>> ELSE <<n \div 10, n % 10>>
Atoi(digits) == IF Len(digits) = 1 THEN digits[1] ELSE 10 * digits[1] + digits[2]

ComposeTopic(digest, base) ==
  [digest |-> Trim(digest, ToSet(Prefix)), base |-> base, number |-> <<>>]

EmptyTopic == [digest |-> <<>>, base |-> "", number |-> <<>>]

\* Mutant: the last subnet is out of range.
ComposeAttnetsTopicBelow(digest, subnet) ==
  IF subnet >= SubnetLimit \/ subnet <= 0 THEN EmptyTopic
  ELSE [digest |-> Trim(digest, ToSet(Prefix)), base |-> "beacon_attestation",
        number |-> Decimal(subnet)]

ComposeAttnetsTopic(digest, subnet) ==
  IF subnet > SubnetLimit \/ subnet <= 0 THEN EmptyTopic
  ELSE [digest |-> Trim(digest, ToSet(Prefix)), base |-> "beacon_attestation",
        number |-> Decimal(subnet)]

\* Mutant: one digit is read.
GetSubnetFromTopicDigit(topic) ==
  IF topic.number = <<>> THEN None ELSE topic.number[1]

GetSubnetFromTopic(topic) ==
  IF topic.number = <<>> THEN None ELSE Atoi(topic.number)

\* Beacon blocks are the only topic with a handler; the others are passed over.
BlockTopics(c) == {i \in DOMAIN c.topics : c.topics[i] = "beacon_block"}

TopicsOf(c) ==
  [i \in 1..Cardinality(BlockTopics(c)) |-> ComposeTopic(c.fork, "beacon_block")]
    \o [i \in 1..Len(c.subnets) |-> ComposeAttnetsTopic(c.fork, c.subnets[i])]

Apply(flags) ==
  [fork |-> ForkDigestOf(flags.fork), topics |-> flags.topics,
   subnets |-> SubnetsOf(flags.subnets), persist |-> flags.persist]

Init ==
  /\ \E flags \in Flags : conf = Apply(flags)
  /\ pending = TopicsOf(conf)
  /\ reader = <<>>
  /\ persistC = <<>>
  /\ persister = [i \in Persisters |-> [pc |-> "new", batch |-> <<>>]]
  /\ eth_attestations = <<>>
  /\ eth_blocks = <<>>
  /\ dropped = {}
  /\ closing = "no"
  /\ ctxDone = FALSE
  /\ panic = "no"
  /\ delivered = <<>>

-----------------------------------------------------------------------------
(* The subscriptions.                                                      *)

NewReader == [pc |-> "next", buf |-> <<>>, content |-> None]

\* Join fails for a topic that is joined already; the error is logged and the
\* nil topic is used.
JoinAndSubscribe ==
  /\ panic = "no" /\ closing = "no"
  /\ pending # <<>>
  /\ pending' = Tail(pending)
  /\ IF Head(pending) \in DOMAIN reader
     THEN panic' = "join" /\ UNCHANGED reader
     ELSE /\ reader' = [t \in DOMAIN reader \cup {Head(pending)} |->
                          IF t \in DOMAIN reader THEN reader[t] ELSE NewReader]
          /\ UNCHANGED panic
  /\ UNCHANGED <<conf, persistC, tableVars, closing, ctxDone, delivered>>

\* The digits of a digest, without its prefix.
Digits(d) == IF Len(d) > 2 /\ SubSeq(d, 1, 2) = Prefix THEN SubSeq(d, 3, Len(d)) ELSE d

\* The topic a message is on, in the network of the configuration: other peers
\* name it with all the digits of the digest.
TopicOf(m) ==
  [digest |-> Digits(conf.fork), base |-> m.base,
   number |-> IF m.base = "beacon_attestation" THEN Decimal(m.subnet) ELSE <<>>]

Deliver(m) ==
  /\ panic = "no" /\ closing = "no"
  /\ Len(delivered) < MaxDeliveries
  /\ TopicOf(m) \in DOMAIN reader
  /\ Len(reader[TopicOf(m)].buf) < BufferSize
  /\ reader' = [reader EXCEPT ![TopicOf(m)].buf = Append(@, m)]
  /\ delivered' = Append(delivered, m)
  /\ UNCHANGED <<conf, pending, persistC, tableVars, closing, ctxDone, panic>>

-----------------------------------------------------------------------------
(* MessageReadingLoop of a topic.                                          *)

\* SubnetMessageHandler and BeaconBlockMessageHandler; None stands for an error.
Handle(t, m) ==
  IF m.data # t.base THEN None
  ELSE IF t.base = "beacon_block"
       THEN [id |-> m.id, kind |-> "block", from |-> m.from, slot |-> m.slot, subnet |-> None]
       ELSE [id |-> m.id, kind |-> "attestation", from |-> m.from, slot |-> m.slot,
             subnet |-> GetSubnetFromTopic(t)]

IsZero(content) == content.slot = 0

Persistable(t, m) ==
  /\ m.from # Self
  /\ Handle(t, m) # None
  /\ ~IsZero(Handle(t, m))
  /\ conf.persist

\* Mutant: a message that cannot be read ends the loop.
ReadNextOrEnd(t) ==
  /\ panic = "no"
  /\ reader[t].pc = "next"
  /\ reader[t].buf # <<>>
  /\ LET m == Head(reader[t].buf)
     IN  reader' = [reader EXCEPT ![t] =
           IF Persistable(t, m)
           THEN [pc |-> "persist", buf |-> Tail(@.buf), content |-> Handle(t, m)]
           ELSE [pc |-> "end", buf |-> Tail(@.buf), content |-> None]]
  /\ UNCHANGED <<conf, pending, persistC, tableVars, closing, ctxDone, panic, delivered>>

\* sub.Next returns a message, also when the context is done.
ReadNext(t) ==
  /\ panic = "no"
  /\ reader[t].pc = "next"
  /\ reader[t].buf # <<>>
  /\ LET m == Head(reader[t].buf)
     IN  reader' = IF Persistable(t, m)
                   THEN [reader EXCEPT ![t] = [pc |-> "persist", buf |-> Tail(@.buf),
                                               content |-> Handle(t, m)]]
                   ELSE [reader EXCEPT ![t].buf = Tail(@)]
  /\ UNCHANGED <<conf, pending, persistC, tableVars, closing, ctxDone, panic, delivered>>

ReadDone(t) ==
  /\ panic = "no"
  /\ reader[t].pc = "next"
  /\ ctxDone
  /\ reader' = [reader EXCEPT ![t].pc = "end", ![t].buf = <<>>]
  /\ UNCHANGED <<conf, pending, persistC, tableVars, closing, ctxDone, panic, delivered>>

\* PersistToDB blocks while the channel is full.
PersistToDB(t) ==
  /\ panic = "no"
  /\ reader[t].pc = "persist"
  /\ IF closing = "db"
     THEN panic' = "send" /\ UNCHANGED <<reader, persistC>>
     ELSE /\ Len(persistC) < ChannelSize
          /\ persistC' = Append(persistC, reader[t].content)
          /\ reader' = [reader EXCEPT ![t].pc = "next", ![t].content = None]
          /\ UNCHANGED panic
  /\ UNCHANGED <<conf, pending, tableVars, closing, ctxDone, delivered>>

ReaderStep(t) == ReadNext(t) \/ ReadDone(t) \/ PersistToDB(t)

-----------------------------------------------------------------------------
(* The persisters, and the end of the crawler.                             *)

LaunchPersister(i) ==
  /\ panic = "no"
  /\ persister[i].pc = "new"
  /\ persister' = [persister EXCEPT ![i].pc = "run"]
  /\ UNCHANGED <<conf, pending, reader, persistC, eth_attestations, eth_blocks, dropped,
                 closing, ctxDone, panic, delivered>>

\* A full batch is stored before the next object is taken.
Take(i) ==
  /\ panic = "no"
  /\ persister[i].pc = "run" /\ Len(persister[i].batch) < BatchSize
  /\ persistC # <<>>
  /\ persister' = [persister EXCEPT ![i].batch = Append(@, Head(persistC))]
  /\ persistC' = Tail(persistC)
  /\ UNCHANGED <<conf, pending, reader, eth_attestations, eth_blocks, dropped,
                 closing, ctxDone, panic, delivered>>

\* ON CONFLICT (msg_id) DO NOTHING: the first query of a batch with a new identifier.
Inserted(table, queries, kind) ==
  LET mine == {k \in DOMAIN queries : queries[k].kind = kind}
  IN  [id \in DOMAIN table \cup {queries[k].id : k \in mine} |->
         IF id \in DOMAIN table THEN table[id]
         ELSE queries[Min({k \in mine : queries[k].id = id})]]

InsertNewEthereumAttestation(queries) ==
  eth_attestations' = Inserted(eth_attestations, queries, "attestation")

InsertNewEthereumBeaconBlock(queries) ==
  eth_blocks' = Inserted(eth_blocks, queries, "block")

\* PersistBatch, on a full batch or at the ticker.  Close takes the pool down.
PersistBatch(i) ==
  /\ panic = "no"
  /\ persister[i].pc = "run" /\ persister[i].batch # <<>>
  /\ \/ /\ closing # "db"
        /\ InsertNewEthereumAttestation(persister[i].batch)
        /\ InsertNewEthereumBeaconBlock(persister[i].batch)
        /\ UNCHANGED dropped
     \/ /\ dropped' = dropped \cup ToSet(persister[i].batch)
        /\ UNCHANGED <<eth_attestations, eth_blocks>>
  /\ persister' = [persister EXCEPT ![i].batch = <<>>]
  /\ UNCHANGED <<conf, pending, reader, persistC, closing, ctxDone, panic, delivered>>

\* One persister reads doneC; it ends, with its batch, once it finds the channel empty.
\* The others end when the context is done.
Finish(i) ==
  /\ panic = "no"
  /\ persister[i].pc = "run" /\ persistC = <<>>
  /\ \/ closing = "host" /\ closing' = "token"
     \/ ctxDone /\ UNCHANGED closing
  /\ dropped' = dropped \cup ToSet(persister[i].batch)
  /\ persister' = [persister EXCEPT ![i] = [pc |-> "done", batch |-> <<>>]]
  /\ UNCHANGED <<conf, pending, reader, persistC, eth_attestations, eth_blocks, ctxDone,
                 panic, delivered>>

PersisterStep(i) == LaunchPersister(i) \/ Take(i) \/ PersistBatch(i) \/ Finish(i)

HostClose ==
  /\ panic = "no" /\ closing = "no" /\ pending = <<>>
  /\ closing' = "host"
  /\ UNCHANGED <<conf, pending, reader, persistC, tableVars, ctxDone, panic, delivered>>

\* wg.Wait passes over a persister that has not been launched yet, and over no other.
DBClose ==
  /\ panic = "no" /\ closing = "token"
  /\ \A i \in Persisters : persister[i].pc \in {"new", "done"}
  /\ closing' = "db"
  /\ UNCHANGED <<conf, pending, reader, persistC, tableVars, ctxDone, panic, delivered>>

CancelContext ==
  /\ panic = "no" /\ closing = "db" /\ ~ctxDone
  /\ ctxDone' = TRUE
  /\ UNCHANGED <<conf, pending, reader, persistC, tableVars, closing, panic, delivered>>

Next ==
  \/ JoinAndSubscribe
  \/ \E m \in Messages : Deliver(m)
  \/ \E t \in DOMAIN reader : ReaderStep(t)
  \/ \E i \in Persisters : PersisterStep(i)
  \/ HostClose \/ DBClose \/ CancelContext

Spec == Init /\ [][Next]_vars

AllTopics == UNION {ToSet(TopicsOf(Apply(flags))) : flags \in Flags}

\* The goroutines keep running, and the ticker of a persister firing; whether and
\* when the crawler is stopped is open.
Fairness ==
  /\ WF_vars(JoinAndSubscribe)
  /\ \A t \in AllTopics : WF_vars(t \in DOMAIN reader /\ ReaderStep(t))
  /\ \A i \in Persisters :
       WF_vars(LaunchPersister(i)) /\ WF_vars(Take(i)) /\ WF_vars(PersistBatch(i))

FairSpec == Spec /\ Fairness

-----------------------------------------------------------------------------
(* Properties                                                              *)

Repeats(s) == \E i, j \in 1..Len(s) : i # j /\ s[i] = s[j]

\* The constructor panics on the nil topic of a failed Join only for a
\* configuration that asks for a topic twice, or for two subnets out of
\* 1 .. 64: both have the empty name (JoinAndSubscribe, ComposeAttnetsTopic).
\* "all" after a number is such a configuration.
JoinPanicsOnRepeats ==
  panic = "join" =>
    \/ \E i, j \in BlockTopics(conf) : i # j
    \/ Repeats(conf.subnets)
    \/ \E i, j \in 1..Len(conf.subnets) :
         i # j /\ {conf.subnets[i], conf.subnets[j]} \cap (1..SubnetLimit) = {}

\* A row is a message of another peer that reached the crawler on a topic of that
\* table, with a slot, and the subnet of an attestation is the one it was sent on:
\* the number survives the name of the topic, and a second message with the same
\* identifier changes no row (SubnetMessageHandler, GetSubnetFromTopic,
\* InsertNewEthereumAttestation, InsertNewEthereumBeaconBlock).
IsRowOf(row, m) ==
  /\ m.id = row.id /\ m.from = row.from /\ m.slot = row.slot
  /\ m.from # Self /\ m.slot # 0 /\ m.data = m.base

RowsAreMessages ==
  /\ \A id \in DOMAIN eth_attestations : \E m \in ToSet(delivered) :
       /\ m.base = "beacon_attestation" /\ m.id = id /\ IsRowOf(eth_attestations[id], m)
       /\ eth_attestations[id].subnet = m.subnet /\ m.subnet \in ToSet(conf.subnets)
  /\ \A id \in DOMAIN eth_blocks : \E m \in ToSet(delivered) :
       m.base = "beacon_block" /\ m.id = id /\ IsRowOf(eth_blocks[id], m)

TableOf(m) == IF m.base = "beacon_block" THEN eth_blocks ELSE eth_attestations

\* A message that should be kept gets a row, behind messages that cannot be
\* decoded and a database that is slow, unless it was in a batch that was not
\* stored or the crawler has come to its end: a reader that still has it then
\* panics on the closed channel, or drops it (MessageReadingLoop, PersistToDB,
\* launchPersister, DBClient.Close).
EveryMessageStored ==
  \A m \in Messages :
    (m \in ToSet(delivered) /\ Persistable(TopicOf(m), m)) ~>
      \/ m.id \in DOMAIN TableOf(m)
      \/ Handle(TopicOf(m), m) \in dropped
      \/ panic # "no" \/ ctxDone

=============================================================================
