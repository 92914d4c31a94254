---------------------------- MODULE GossipProofs ----------------------------
(***************************************************************************)
(* The gossip topics for any command line, any digests and any messages:   *)
(* which configurations panic, and what the rows of the database are rows  *)
(* of.                                                                     *)
(***************************************************************************)
EXTENDS Gossip, SequenceTheorems, FiniteSetTheorems, WellFoundedInduction, TLAPS

-----------------------------------------------------------------------------
(* The configuration.                                                      *)

Before == {p \in Nat \X Nat : p[1] < p[2]}

\* The smallest index is one of the indices.
LEMMA Smallest ==
  ASSUME NEW I, I \subseteq Nat, I # {}
  PROVE  Min(I) \in I /\ \A i \in I : Min(I) <= i
<1>1. IsWellFoundedOn(Before, Nat)
  BY NatLessThanWellFounded DEF OpToRel, Before
<1>2. PICK x \in I : \A y \in I : ~(<<y, x>> \in Before)
  BY <1>1, WFMin, Zenon
<1>3. ASSUME NEW y \in I PROVE x <= y
  <2>1. x \in Nat /\ y \in Nat /\ ~(y < x)
    BY <1>2, Zenon DEF Before
  <2>. QED
    BY <2>1
<1>. QED
  BY <1>3, Zenon DEF Min

\* The subnets of a configuration are numbers: the list ends at the flag for all.
LEMMA SubnetsAreNumbers ==
  ASSUME NEW flag \in Seq(Int \cup {All})
  PROVE  SubnetsOf(flag) \in Seq(Int)
<1>. DEFINE all == {i \in DOMAIN flag : flag[i] = All}
            every == [n \in 1..SubnetLimit |-> n]
<1>1. CASE all = {}
  <2>1. \A i \in 1..Len(flag) : flag[i] \in Int
    BY <1>1
  <2>2. flag \in Seq(Int)
    BY <2>1
  <2>. QED
    BY <1>1, <2>2 DEF SubnetsOf
<1>2. CASE all # {}
  <2>. DEFINE k == Min(all)
              first == SubSeq(flag, 1, k - 1)
  <2>1. k \in all /\ \A i \in all : k <= i
    <3>1. all \subseteq Nat
      OBVIOUS
    <3>. HIDE DEF all
    <3>. QED
      BY <1>2, <3>1, Smallest, Zenon
  <2>2. k \in 1..Len(flag) /\ \A i \in 1..(k - 1) : flag[i] \in Int
    <3>. HIDE DEF k
    <3>1. k \in 1..Len(flag)
      BY <2>1
    <3>2. ASSUME NEW i \in 1..(k - 1) PROVE flag[i] \in Int
      <4>1. i \in 1..Len(flag) /\ ~(k <= i)
        BY <3>1
      <4>2. i \notin all
        BY <2>1, <4>1
      <4>3. flag[i] # All
        BY <4>1, <4>2
      <4>. QED
        BY <4>1, <4>3
    <3>. QED
      BY <3>1, <3>2
  <2>. HIDE DEF k
  <2>3. /\ first \in Seq(Int \cup {All}) /\ Len(first) = k - 1
        /\ \A i \in 1..(k - 1) : first[i] = flag[i]
    BY <2>2
  <2>. HIDE DEF first
  <2>4. first \in Seq(Int)
    BY <2>2, <2>3
  <2>5. every \in Seq(Int)
    BY GossipAssumption
  <2>6. SubnetsOf(flag) = first \o every
    BY <1>2, Zenon DEF SubnetsOf, first, k
  <2>. HIDE DEF every
  <2>. QED
    BY <2>4, <2>5, <2>6
<1>. QED
  BY <1>1, <1>2

Configured == \E flags \in Flags : conf = Apply(flags)

\* What the flags become (EthereumCrawlerConfig).
LEMMA ConfTyped ==
  ASSUME Configured
  PROVE  /\ conf.topics \in Seq(STRING)
         /\ conf.subnets \in Seq(Int)
<1>1. PICK flags \in Flags : conf = Apply(flags)
  BY DEF Configured
<1>2. /\ conf.topics = flags.topics /\ conf.subnets = SubnetsOf(flags.subnets)
  BY <1>1 DEF Apply
<1>3. flags.topics \in Seq(STRING) /\ flags.subnets \in Seq(Int \cup {All})
  BY GossipAssumption
<1>. QED
  BY <1>2, <1>3, SubnetsAreNumbers

-----------------------------------------------------------------------------
(* The topics of a configuration.                                          *)

Topics == TopicsOf(conf)
NrBlocks == Cardinality(BlockTopics(conf))

BlockTopic == ComposeTopic(conf.fork, "beacon_block")
SubnetTopic(i) == ComposeAttnetsTopic(conf.fork, conf.subnets[i])

\* First the topic of the blocks, as often as it is asked for, then the subnets.
LEMMA TopicsShape ==
  ASSUME Configured
  PROVE  /\ IsFiniteSet(BlockTopics(conf)) /\ NrBlocks \in Nat
         /\ Topics \in Seq({BlockTopic} \cup {SubnetTopic(i) : i \in 1..Len(conf.subnets)})
         /\ Len(Topics) = NrBlocks + Len(conf.subnets)
         /\ \A i \in 1..NrBlocks : Topics[i] = BlockTopic
         /\ \A i \in 1..Len(conf.subnets) : Topics[NrBlocks + i] = SubnetTopic(i)
<1>. DEFINE n == Len(conf.subnets)
            S == {BlockTopic} \cup {SubnetTopic(i) : i \in 1..n}
            a == [i \in 1..NrBlocks |-> BlockTopic]
            b == [i \in 1..n |-> SubnetTopic(i)]
<1>1. IsFiniteSet(BlockTopics(conf))
  <2>1. conf.topics \in Seq(STRING)
    BY ConfTyped
  <2>2. Len(conf.topics) \in Nat /\ BlockTopics(conf) \subseteq 1..Len(conf.topics)
    BY <2>1 DEF BlockTopics
  <2>3. IsFiniteSet(1..Len(conf.topics))
    BY <2>2, FS_Interval
  <2>. QED
    BY <2>2, <2>3, FS_Subset
<1>2. NrBlocks \in Nat
  BY <1>1, FS_CardinalityType DEF NrBlocks
<1>3. n \in Nat
  BY ConfTyped
<1>4. Topics = a \o b
  BY DEF Topics, TopicsOf, NrBlocks, BlockTopic, SubnetTopic
<1>. HIDE DEF n, NrBlocks
<1>5. a \in Seq(S) /\ Len(a) = NrBlocks /\ \A i \in 1..NrBlocks : a[i] = BlockTopic
  BY <1>2
<1>6. b \in Seq(S) /\ Len(b) = n /\ \A i \in 1..n : b[i] = SubnetTopic(i)
  BY <1>3
<1>. HIDE DEF a, b, S
<1>7. /\ a \o b \in Seq(S) /\ Len(a \o b) = NrBlocks + n
      /\ \A i \in 1..NrBlocks : (a \o b)[i] = a[i]
      /\ \A i \in 1..n : (a \o b)[NrBlocks + i] = b[i]
  BY <1>2, <1>3, <1>5, <1>6
<1>. QED
  BY <1>1, <1>2, <1>4, <1>5, <1>6, <1>7 DEF n, S

\* The digits of a subnet are read back as they were written, so they tell subnets
\* apart (fmt.Sprintf, strconv.Atoi).
LEMMA DigitsReadBack ==
  ASSUME NEW n \in Nat
  PROVE  /\ Decimal(n) # <<>>
         /\ Atoi(Decimal(n)) = n
<1>1. CASE n < 10
  BY <1>1 DEF Decimal, Atoi
<1>2. CASE ~(n < 10)
  <2>1. Decimal(n) = <<n \div 10, n % 10>>
    BY <1>2 DEF Decimal
  <2>2. Len(Decimal(n)) = 2 /\ Decimal(n)[1] = n \div 10 /\ Decimal(n)[2] = n % 10
    BY <2>1
  <2>3. Atoi(Decimal(n)) = 10 * (n \div 10) + (n % 10)
    BY <2>2 DEF Atoi
  <2>. QED
    BY <2>2, <2>3
<1>. QED
  BY <1>1, <1>2

\* What the name of the topic of a subnet says of the subnet.
LEMMA SubnetTopicShape ==
  ASSUME Configured, NEW i \in 1..Len(conf.subnets)
  PROVE  /\ conf.subnets[i] \in Int
         /\ conf.subnets[i] \notin 1..SubnetLimit => SubnetTopic(i).base = ""
         /\ conf.subnets[i] \in 1..SubnetLimit =>
              /\ SubnetTopic(i).base = "beacon_attestation"
              /\ SubnetTopic(i).number = Decimal(conf.subnets[i])
              /\ SubnetTopic(i).digest = Trim(conf.fork, ToSet(Prefix))
<1>1. conf.subnets[i] \in Int
  BY ConfTyped
<1>2. conf.subnets[i] \in 1..SubnetLimit <=>
        ~(conf.subnets[i] > SubnetLimit \/ conf.subnets[i] <= 0)
  BY <1>1, GossipAssumption
<1>. QED
  BY <1>1, <1>2 DEF SubnetTopic, ComposeAttnetsTopic, EmptyTopic

\* A topic occurs twice only in a configuration that asks for it twice, or for two
\* subnets out of range.
LEMMA RepeatedTopics ==
  ASSUME Configured, Repeats(Topics)
  PROVE  \/ \E i, j \in BlockTopics(conf) : i # j
         \/ Repeats(conf.subnets)
         \/ \E i, j \in 1..Len(conf.subnets) :
              i # j /\ {conf.subnets[i], conf.subnets[j]} \cap (1..SubnetLimit) = {}
<1>. DEFINE n == Len(conf.subnets)
<1>1. PICK i, j \in 1..Len(Topics) : i # j /\ Topics[i] = Topics[j]
  BY DEF Repeats
<1>2. n \in Nat /\ NrBlocks \in Nat /\ Len(Topics) = NrBlocks + n
  BY ConfTyped, TopicsShape
<1>3. ASSUME NEW k \in 1..Len(Topics), k > NrBlocks
      PROVE  k - NrBlocks \in 1..n /\ Topics[k] = SubnetTopic(k - NrBlocks)
  <2>1. k - NrBlocks \in 1..n /\ k = NrBlocks + (k - NrBlocks)
    BY <1>2, <1>3
  <2>. QED
    BY <2>1, TopicsShape
<1>4. ASSUME NEW k \in 1..Len(Topics), k <= NrBlocks PROVE Topics[k].base = "beacon_block"
  <2>1. Topics[k] = BlockTopic
    BY <1>2, <1>4, TopicsShape
  <2>. QED
    BY <2>1 DEF BlockTopic, ComposeTopic
<1>5. \A k \in 1..n : SubnetTopic(k).base # "beacon_block"
  BY SubnetTopicShape, Zenon
<1>6. CASE i <= NrBlocks /\ j <= NrBlocks
  <2>1. NrBlocks >= 2
    BY <1>1, <1>2, <1>6
  <2>2. ~\E x : BlockTopics(conf) \subseteq {x}
    <3>. SUFFICES ASSUME NEW x, BlockTopics(conf) \subseteq {x} PROVE FALSE
      OBVIOUS
    <3>1. IsFiniteSet({x}) /\ Cardinality({x}) = 1
      BY FS_Singleton, Zenon
    <3>2. NrBlocks <= 1
      BY <3>1, FS_Subset DEF NrBlocks
    <3>. QED
      BY <1>2, <2>1, <3>2
  <2>. QED
    BY <2>2
<1>7. CASE i > NrBlocks /\ j > NrBlocks
  <2>. DEFINE a == i - NrBlocks
              b == j - NrBlocks
  <2>1. a \in 1..n /\ b \in 1..n /\ a # b /\ SubnetTopic(a) = SubnetTopic(b)
    BY <1>1, <1>2, <1>3, <1>7
  <2>. HIDE DEF a, b
  <2>2. CASE conf.subnets[a] \in 1..SubnetLimit
    <3>1. conf.subnets[b] \in 1..SubnetLimit
      BY <2>1, <2>2, SubnetTopicShape, Zenon
    <3>2. Decimal(conf.subnets[a]) = Decimal(conf.subnets[b])
      BY <2>1, <2>2, <3>1, SubnetTopicShape, Zenon
    <3>3. conf.subnets[a] = conf.subnets[b]
      BY <2>2, <3>1, <3>2, DigitsReadBack
    <3>. QED
      BY <2>1, <3>3 DEF Repeats
  <2>3. CASE conf.subnets[a] \notin 1..SubnetLimit
    <3>1. conf.subnets[b] \notin 1..SubnetLimit
      BY <2>1, <2>3, SubnetTopicShape, Zenon
    <3>. QED
      BY <2>1, <2>3, <3>1
  <2>. QED
    BY <2>2, <2>3
<1>8. CASE i <= NrBlocks /\ j > NrBlocks
  BY <1>1, <1>3, <1>4, <1>5, <1>8
<1>9. CASE i > NrBlocks /\ j <= NrBlocks
  BY <1>1, <1>3, <1>4, <1>5, <1>9
<1>10. (i <= NrBlocks \/ i > NrBlocks) /\ (j <= NrBlocks \/ j > NrBlocks)
  BY <1>2
<1>. QED
  BY <1>6, <1>7, <1>8, <1>9, <1>10, Zenon

-----------------------------------------------------------------------------
(* The subscriptions.                                                      *)

\* The readers are of a prefix of the topics, the rest is pending, and a Join that
\* failed found its topic in the prefix.
JoinInv ==
  /\ Configured
  /\ \E n \in 0..Len(Topics) :
       /\ pending = SubSeq(Topics, n + 1, Len(Topics))
       /\ DOMAIN reader \subseteq {Topics[i] : i \in 1..n}
  /\ panic = "join" => Repeats(Topics)

\* At first every topic is pending.
LEMMA InitJoin ==
  ASSUME Init
  PROVE  JoinInv
<1>1. Configured
  BY DEF Init, Configured
<1>2. \E S : Topics \in Seq(S)
  BY <1>1, TopicsShape
<1>3. Len(Topics) \in Nat /\ SubSeq(Topics, 1, Len(Topics)) = Topics
  BY <1>2
<1>4. pending = Topics /\ DOMAIN reader = {} /\ panic = "no"
  BY DEF Init, Topics
<1>5. 0 \in 0..Len(Topics) /\ pending = SubSeq(Topics, 0 + 1, Len(Topics))
  BY <1>3, <1>4
<1>. QED
  BY <1>1, <1>4, <1>5 DEF JoinInv

\* Every action but JoinAndSubscribe keeps the readers and the pending topics.
LEMMA SameReaders ==
  ASSUME Next \/ UNCHANGED vars, ~JoinAndSubscribe
  PROVE  /\ conf' = conf /\ pending' = pending /\ DOMAIN reader' = DOMAIN reader
         /\ panic' = "join" => panic = "join"
<1>1. ASSUME NEW m \in Messages, Deliver(m) PROVE DOMAIN reader' = DOMAIN reader
  BY <1>1 DEF Deliver
<1>2. ASSUME NEW t \in DOMAIN reader, ReaderStep(t)
      PROVE  DOMAIN reader' = DOMAIN reader /\ (panic' = "join" => panic = "join")
  BY <1>2 DEF ReaderStep, ReadNext, ReadDone, PersistToDB
<1>3. CASE UNCHANGED vars
  BY <1>3 DEF vars
<1>4. CASE \E m \in Messages : Deliver(m)
  BY <1>1, <1>4 DEF Deliver
<1>5. CASE \E t \in DOMAIN reader : ReaderStep(t)
  BY <1>2, <1>5, Zenon DEF ReaderStep, ReadNext, ReadDone, PersistToDB
<1>6. CASE HostClose \/ DBClose \/ CancelContext
  BY <1>6 DEF HostClose, DBClose, CancelContext
<1>7. ASSUME NEW i \in Persisters, PersisterStep(i)
      PROVE  /\ conf' = conf /\ pending' = pending /\ reader' = reader /\ panic' = panic
  BY <1>7 DEF PersisterStep, LaunchPersister, Take, PersistBatch, Finish
<1>. QED
  BY <1>3, <1>4, <1>5, <1>6, <1>7 DEF Next

\* Every step keeps the invariant of the subscriptions.
LEMMA StepJoin ==
  ASSUME JoinInv, Next \/ UNCHANGED vars
  PROVE  JoinInv'
<1>1. conf' = conf
  <2>1. CASE JoinAndSubscribe
    BY <2>1 DEF JoinAndSubscribe
  <2>2. CASE ~JoinAndSubscribe
    BY <2>2, SameReaders
  <2>. QED
    BY <2>1, <2>2
<1>2. Topics' = Topics /\ Configured'
  BY <1>1 DEF Topics, JoinInv, Configured
<1>3. PICK n \in 0..Len(Topics) :
        /\ pending = SubSeq(Topics, n + 1, Len(Topics))
        /\ DOMAIN reader \subseteq {Topics[i] : i \in 1..n}
  BY DEF JoinInv
<1>4. CASE JoinAndSubscribe
  <2>1. PICK S : Topics \in Seq(S)
    BY TopicsShape DEF JoinInv
  <2>2. Len(Topics) \in Nat /\ pending # <<>> /\ pending' = Tail(pending)
    BY <1>4, <2>1 DEF JoinAndSubscribe
  <2>3. n < Len(Topics)
    BY <1>3, <2>1, <2>2
  <2>4. Head(pending) = Topics[n + 1] /\ pending' = SubSeq(Topics, (n + 1) + 1, Len(Topics))
    BY <1>3, <2>1, <2>2, <2>3
  <2>5. n + 1 \in 0..Len(Topics)
    BY <2>2, <2>3
  <2>6. \A i \in 1..n : i \in 1..(n + 1)
    BY <2>2
  <2>7. CASE Head(pending) \in DOMAIN reader
    <3>1. reader' = reader
      BY <1>4, <2>7 DEF JoinAndSubscribe
    <3>2. DOMAIN reader' \subseteq {Topics[i] : i \in 1..(n + 1)}
      BY <1>3, <2>6, <3>1
    <3>3. PICK i \in 1..n : Topics[i] = Topics[n + 1]
      BY <1>3, <2>4, <2>7, Zenon
    <3>4. Repeats(Topics)
      <4>1. i \in 1..Len(Topics) /\ n + 1 \in 1..Len(Topics) /\ i # n + 1
        BY <2>2, <2>3, <3>3
      <4>. QED
        BY <3>3, <4>1 DEF Repeats
    <3>5. Repeats(Topics)'
      BY <1>2, <3>4 DEF Repeats
    <3>6. \E k \in 0..Len(Topics') :
            /\ pending' = SubSeq(Topics', k + 1, Len(Topics'))
            /\ DOMAIN reader' \subseteq {Topics'[j] : j \in 1..k}
      BY <1>2, <2>4, <2>5, <3>2
    <3>. QED
      BY <1>2, <3>5, <3>6, Zenon DEF JoinInv
  <2>8. CASE Head(pending) \notin DOMAIN reader
    <3>1. DOMAIN reader' = DOMAIN reader \cup {Topics[n + 1]} /\ panic' = "no"
      BY <1>4, <2>4, <2>8 DEF JoinAndSubscribe
    <3>2. n + 1 \in 1..(n + 1)
      BY <2>2
    <3>3. DOMAIN reader' \subseteq {Topics[i] : i \in 1..(n + 1)}
      BY <1>3, <2>6, <3>1, <3>2
    <3>. QED
      BY <1>2, <2>4, <2>5, <3>1, <3>3, Zenon DEF JoinInv
  <2>. QED
    BY <2>7, <2>8
<1>5. CASE ~JoinAndSubscribe
  <2>1. pending' = pending /\ DOMAIN reader' = DOMAIN reader /\ (panic' = "join" => panic = "join")
    BY <1>5, SameReaders
  <2>2. \E k \in 0..Len(Topics') :
          /\ pending' = SubSeq(Topics', k + 1, Len(Topics'))
          /\ DOMAIN reader' \subseteq {Topics'[i] : i \in 1..k}
    BY <1>2, <1>3, <2>1
  <2>3. panic' = "join" => Repeats(Topics)'
    BY <1>2, <2>1 DEF JoinInv, Repeats
  <2>. QED
    BY <1>2, <2>2, <2>3, Zenon DEF JoinInv
<1>. QED
  BY <1>4, <1>5

\* For every command line: the constructor of the crawler panics on a failed Join
\* only if a topic is asked for twice, or two subnets are out of range
\* (NewEthereumCrawler, JoinAndSubscribe).
THEOREM PanicsOnRepeats == Spec => []JoinPanicsOnRepeats
<1>1. Init => JoinInv
  BY InitJoin
<1>2. JoinInv /\ [Next]_vars => JoinInv'
  BY StepJoin
<1>3. JoinInv => JoinPanicsOnRepeats
  BY RepeatedTopics DEF JoinInv, JoinPanicsOnRepeats
<1>. QED
  BY <1>1, <1>2, <1>3, PTL DEF Spec

-----------------------------------------------------------------------------
(* The rows.                                                               *)

\* What a topic that is joined can be.
LEMMA JoinedTopics ==
  ASSUME JoinInv, NEW t \in DOMAIN reader
  PROVE  \/ t = BlockTopic
         \/ t = EmptyTopic
         \/ \E i \in 1..Len(conf.subnets) : t = SubnetTopic(i) /\ conf.subnets[i] \in 1..SubnetLimit
<1>1. PICK n \in 0..Len(Topics) : DOMAIN reader \subseteq {Topics[i] : i \in 1..n}
  BY DEF JoinInv
<1>2. PICK i \in 1..n : t = Topics[i]
  BY <1>1
<1>. DEFINE S == {BlockTopic} \cup {SubnetTopic(k) : k \in 1..Len(conf.subnets)}
<1>3. Topics \in Seq(S)
  BY TopicsShape DEF JoinInv
<1>. HIDE DEF S
<1>4. i \in 1..Len(Topics)
  BY <1>3
<1>5. t \in S
  BY <1>2, <1>3, <1>4
<1>6. ASSUME NEW k \in 1..Len(conf.subnets), t = SubnetTopic(k),
             conf.subnets[k] \notin 1..SubnetLimit
      PROVE  t = EmptyTopic
  <2>1. conf.subnets[k] \in Int /\ SubnetLimit \in Int
    BY ConfTyped, GossipAssumption DEF JoinInv
  <2>2. conf.subnets[k] > SubnetLimit \/ conf.subnets[k] <= 0
    BY <1>6, <2>1
  <2>. QED
    BY <1>6, <2>2 DEF SubnetTopic, ComposeAttnetsTopic
<1>. QED
  BY <1>5, <1>6 DEF S

\* The row that a message should give.
Row(m) ==
  IF m.base = "beacon_block"
  THEN [id |-> m.id, kind |-> "block", from |-> m.from, slot |-> m.slot, subnet |-> None]
  ELSE [id |-> m.id, kind |-> "attestation", from |-> m.from, slot |-> m.slot,
        subnet |-> m.subnet]

\* The messages that reached the reader of a topic, and those that may be kept.
Arrived(t) == {m \in ToSet(delivered) : TopicOf(m) = t}
Kept ==
  {m \in ToSet(delivered) :
     /\ m.from # Self /\ m.slot # 0 /\ m.data = m.base
     /\ m.base = "beacon_attestation" => m.subnet \in ToSet(conf.subnets)}
KeptRows == {Row(m) : m \in Kept}

ReaderOf(t) ==
  [pc : {"next", "persist", "end"}, buf : Seq(Arrived(t)), content : KeptRows \cup {None}]

PersisterStates == [pc : {"new", "run", "done"}, batch : Seq(KeptRows)]

RowsIn(table, kind) ==
  \A id \in DOMAIN table : table[id] \in KeptRows /\ table[id].id = id /\ table[id].kind = kind

\* On its way from a buffer to a row every message is the one that was delivered.
RowsInv ==
  /\ delivered \in Seq(Messages)
  /\ reader = [t \in DOMAIN reader |-> reader[t]]
  /\ \A t \in DOMAIN reader :
       /\ reader[t] \in ReaderOf(t)
       /\ reader[t].pc = "persist" => reader[t].content \in KeptRows
  /\ persistC \in Seq(KeptRows)
  /\ persister \in [Persisters -> PersisterStates]
  /\ RowsIn(eth_attestations, "attestation") /\ RowsIn(eth_blocks, "block")

\* The handler of a topic that is joined gives the row of the message: the subnet
\* that it reads from the name is the one the message was sent on.
LEMMA HandleGivesRow ==
  ASSUME JoinInv, NEW t \in DOMAIN reader, NEW m \in Messages, m \in ToSet(delivered),
         TopicOf(m) = t, Persistable(t, m)
  PROVE  Handle(t, m) \in KeptRows
<1>1. m.from # Self /\ Handle(t, m) # None /\ Handle(t, m).slot # 0
  BY DEF Persistable, IsZero
<1>2. m.base = t.base /\ m.data = t.base
  BY <1>1 DEF Handle, TopicOf
<1>3. CASE m.base = "beacon_block"
  <2>1. Handle(t, m) = Row(m)
    BY <1>2, <1>3 DEF Handle, Row
  <2>2. m.slot # 0
    BY <1>1, <1>3, <2>1 DEF Row
  <2>. QED
    BY <1>1, <1>2, <1>3, <2>1, <2>2 DEF Kept, KeptRows
<1>4. CASE m.base = "beacon_attestation"
  <2>1. m.subnet \in Nat /\ t.number = Decimal(m.subnet)
    BY <1>4, GossipAssumption DEF TopicOf
  <2>2. GetSubnetFromTopic(t) = m.subnet
    BY <2>1, DigitsReadBack DEF GetSubnetFromTopic
  <2>3. Handle(t, m) = Row(m)
    BY <1>2, <1>4, <2>2 DEF Handle, Row
  <2>4. m.slot # 0
    BY <1>1, <1>4, <2>3 DEF Row
  <2>5. PICK i \in 1..Len(conf.subnets) : t = SubnetTopic(i) /\ conf.subnets[i] \in 1..SubnetLimit
    <3>1. BlockTopic.base = "beacon_block" /\ EmptyTopic.base = ""
      BY DEF BlockTopic, ComposeTopic, EmptyTopic
    <3>2. t # BlockTopic /\ t # EmptyTopic
      BY <1>2, <1>4, <3>1, Zenon
    <3>. QED
      BY <3>2, JoinedTopics
  <2>6. m.subnet = conf.subnets[i]
    <3>1. t.number = Decimal(conf.subnets[i])
      BY <2>5, SubnetTopicShape, Zenon DEF JoinInv
    <3>2. conf.subnets[i] \in Nat
      BY <2>5, GossipAssumption
    <3>. QED
      BY <2>1, <3>1, <3>2, DigitsReadBack, Zenon
  <2>7. m.subnet \in ToSet(conf.subnets)
    <3>1. conf.subnets \in Seq(Int)
      BY ConfTyped DEF JoinInv
    <3>. QED
      BY <2>6, <3>1 DEF ToSet
  <2>. QED
    BY <1>1, <1>2, <1>4, <2>3, <2>4, <2>7 DEF Kept, KeptRows
<1>. QED
  BY <1>3, <1>4, GossipAssumption

\* Deliveries only add to what has arrived and what may be kept.
LEMMA ArrivalsGrow ==
  ASSUME RowsInv, conf' = conf,
         delivered' = delivered \/ \E m \in Messages : delivered' = Append(delivered, m)
  PROVE  /\ delivered' \in Seq(Messages)
         /\ ToSet(delivered) \subseteq ToSet(delivered')
         /\ KeptRows \subseteq KeptRows'
         /\ \A t : Arrived(t) \subseteq Arrived(t)'
         /\ \A t : ReaderOf(t) \subseteq ReaderOf(t)'
<1>1. delivered \in Seq(Messages)
  BY DEF RowsInv
<1>2. delivered' \in Seq(Messages) /\ ToSet(delivered) \subseteq ToSet(delivered')
  <2>1. CASE delivered' = delivered
    BY <1>1, <2>1
  <2>2. CASE \E m \in Messages : delivered' = Append(delivered, m)
    BY <1>1, <2>2 DEF ToSet
  <2>. QED
    BY <2>1, <2>2
<1>3. Kept \subseteq Kept'
  BY <1>2 DEF Kept
<1>4. KeptRows \subseteq KeptRows'
  BY <1>3 DEF KeptRows, Row
<1>5. ASSUME NEW t PROVE Arrived(t) \subseteq Arrived(t)'
  BY <1>2 DEF Arrived, TopicOf
<1>6. ASSUME NEW t PROVE ReaderOf(t) \subseteq ReaderOf(t)'
  <2>1. Seq(Arrived(t)) \subseteq Seq(Arrived(t)')
    BY <1>5
  <2>. QED
    BY <1>4, <2>1 DEF ReaderOf
<1>. QED
  BY <1>2, <1>4, <1>5, <1>6

\* At first nothing was delivered.
LEMMA InitRows ==
  ASSUME Init
  PROVE  RowsInv
<1>1. /\ reader = <<>> /\ persistC = <<>> /\ delivered = <<>>
      /\ eth_attestations = <<>> /\ eth_blocks = <<>>
  BY DEF Init
<1>2. DOMAIN reader = {} /\ DOMAIN eth_attestations = {} /\ DOMAIN eth_blocks = {}
  BY <1>1
<1>3. reader = [t \in DOMAIN reader |-> reader[t]]
  BY <1>1
<1>4. persistC \in Seq(KeptRows) /\ delivered \in Seq(Messages)
  BY <1>1
<1>5. persister \in [Persisters -> PersisterStates]
  <2>1. <<>> \in Seq(KeptRows)
    OBVIOUS
  <2>. QED
    BY <2>1 DEF Init, PersisterStates
<1>. QED
  BY <1>2, <1>3, <1>4, <1>5 DEF RowsInv, RowsIn

\* A step of one reader that keeps persistC or adds the content of the reader.
LEMMA ReaderRows ==
  ASSUME JoinInv, RowsInv, NEW t \in DOMAIN reader, ReaderStep(t)
  PROVE  RowsInv'
<1>1. conf' = conf /\ delivered' = delivered /\ UNCHANGED tableVars
  BY DEF ReaderStep, ReadNext, ReadDone, PersistToDB
<1>2. /\ KeptRows' = KeptRows /\ \A u : Arrived(u)' = Arrived(u) /\ ReaderOf(u)' = ReaderOf(u)
  BY <1>1 DEF KeptRows, Kept, Row, Arrived, TopicOf, ReaderOf
<1>3. reader[t] \in ReaderOf(t) /\ (reader[t].pc = "persist" => reader[t].content \in KeptRows)
  BY DEF RowsInv
<1>4. reader[t].buf \in Seq(Arrived(t))
  BY <1>3 DEF ReaderOf
<1>. DEFINE Rest == /\ persistC' \in Seq(KeptRows)
                    /\ \E r : /\ reader' = [reader EXCEPT ![t] = r] /\ r \in ReaderOf(t)
                              /\ r.pc = "persist" => r.content \in KeptRows
<1>5. ASSUME ReadNext(t) PROVE Rest
  <2>. DEFINE m == Head(reader[t].buf)
              kept == [pc |-> "persist", buf |-> Tail(reader[t].buf), content |-> Handle(t, m)]
              next == [reader[t] EXCEPT !.buf = Tail(reader[t].buf)]
  <2>1. reader[t].buf # <<>> /\ reader[t].pc = "next" /\ persistC' = persistC
    BY <1>5 DEF ReadNext
  <2>2. m \in Arrived(t) /\ Tail(reader[t].buf) \in Seq(Arrived(t))
    BY <1>4, <2>1
  <2>3. reader' = IF Persistable(t, m) THEN [reader EXCEPT ![t] = kept]
                  ELSE [reader EXCEPT ![t] = next]
    BY <1>5 DEF ReadNext
  <2>4. CASE Persistable(t, m)
    <3>1. m \in Messages /\ m \in ToSet(delivered) /\ TopicOf(m) = t
      <4>1. delivered \in Seq(Messages)
        BY DEF RowsInv
      <4>2. ToSet(delivered) \subseteq Messages
        BY <4>1 DEF ToSet
      <4>. QED
        BY <2>2, <4>2 DEF Arrived
    <3>. HIDE DEF m
    <3>2. Handle(t, m) \in KeptRows
      BY <2>4, <3>1, HandleGivesRow
    <3>3. kept \in ReaderOf(t) /\ kept.content \in KeptRows
      BY <2>2, <3>2 DEF ReaderOf
    <3>4. reader' = [reader EXCEPT ![t] = kept]
      BY <2>3, <2>4
    <3>. HIDE DEF kept
    <3>. QED
      BY <2>1, <3>3, <3>4, Zenon DEF RowsInv
  <2>5. CASE ~Persistable(t, m)
    <3>1. next \in ReaderOf(t) /\ next.pc = "next"
      BY <1>3, <2>1, <2>2, Zenon DEF ReaderOf
    <3>2. reader' = [reader EXCEPT ![t] = next]
      BY <2>3, <2>5
    <3>. HIDE DEF next
    <3>. QED
      BY <2>1, <3>1, <3>2, Zenon DEF RowsInv
  <2>. QED
    BY <2>4, <2>5
<1>6. ASSUME ReadDone(t) PROVE Rest
  <2>. DEFINE r == [reader[t] EXCEPT !.pc = "end", !.buf = <<>>]
  <2>1. reader' = [reader EXCEPT ![t] = r] /\ persistC' = persistC
    BY <1>6, Zenon DEF ReadDone
  <2>2. r \in ReaderOf(t) /\ r.pc = "end"
    <3>1. <<>> \in Seq(Arrived(t))
      OBVIOUS
    <3>. QED
      BY <1>3, <3>1, Zenon DEF ReaderOf
  <2>. HIDE DEF r
  <2>. QED
    BY <2>1, <2>2, Zenon DEF RowsInv
<1>7. ASSUME PersistToDB(t), closing # "db" PROVE Rest
  <2>. DEFINE r == [reader[t] EXCEPT !.pc = "next", !.content = None]
  <2>1. /\ reader' = [reader EXCEPT ![t] = r] /\ persistC' = Append(persistC, reader[t].content)
        /\ reader[t].pc = "persist"
    BY <1>7 DEF PersistToDB
  <2>2. r \in ReaderOf(t) /\ r.pc = "next"
    BY <1>3, Zenon DEF ReaderOf
  <2>3. persistC' \in Seq(KeptRows)
    BY <1>3, <2>1 DEF RowsInv
  <2>. HIDE DEF r
  <2>. QED
    BY <2>1, <2>2, <2>3, Zenon
<1>8. ASSUME PersistToDB(t), closing = "db" PROVE Rest
  <2>1. reader' = reader /\ persistC' = persistC
    BY <1>8 DEF PersistToDB
  <2>2. reader' = [reader EXCEPT ![t] = reader[t]]
    BY <2>1 DEF RowsInv
  <2>. QED
    BY <1>3, <2>1, <2>2 DEF RowsInv
<1>9. Rest
  BY <1>5, <1>6, <1>7, <1>8 DEF ReaderStep
<1>10. PICK r : /\ reader' = [reader EXCEPT ![t] = r] /\ r \in ReaderOf(t)
                /\ r.pc = "persist" => r.content \in KeptRows
  BY <1>9, Zenon
<1>11. /\ DOMAIN reader' = DOMAIN reader /\ reader'[t] = r
       /\ \A u \in DOMAIN reader \ {t} : reader'[u] = reader[u]
       /\ reader' = [u \in DOMAIN reader' |-> reader'[u]]
  BY <1>10, Zenon
<1>12. \A u \in DOMAIN reader' :
         /\ reader'[u] \in ReaderOf(u)
         /\ reader'[u].pc = "persist" => reader'[u].content \in KeptRows
  BY <1>10, <1>11 DEF RowsInv
<1>13. /\ persister' \in [Persisters -> PersisterStates']
       /\ RowsIn(eth_attestations, "attestation")' /\ RowsIn(eth_blocks, "block")'
  BY <1>1, <1>2 DEF RowsInv, RowsIn, PersisterStates, tableVars
<1>. QED
  BY <1>1, <1>2, <1>9, <1>11, <1>12, <1>13 DEF RowsInv

\* The tables and the batches are kept while deliveries add to what may be kept.
LEMMA TablesKept ==
  ASSUME RowsInv, UNCHANGED tableVars, KeptRows \subseteq KeptRows'
  PROVE  /\ persister' \in [Persisters -> PersisterStates']
         /\ RowsIn(eth_attestations, "attestation")' /\ RowsIn(eth_blocks, "block")'
<1>1. /\ persister' = persister /\ eth_attestations' = eth_attestations
      /\ eth_blocks' = eth_blocks
  BY DEF tableVars
<1>2. Seq(KeptRows) \subseteq Seq(KeptRows')
  OBVIOUS
<1>3. PersisterStates \subseteq PersisterStates'
  BY <1>2 DEF PersisterStates
<1>4. persister' \in [Persisters -> PersisterStates']
  BY <1>1, <1>3 DEF RowsInv
<1>. QED
  BY <1>1, <1>4 DEF RowsInv, RowsIn

\* A batch adds rows of its own messages to a table.
LEMMA InsertedRows ==
  ASSUME NEW table, NEW kind, RowsIn(table, kind), NEW queries \in Seq(KeptRows)
  PROVE  RowsIn(Inserted(table, queries, kind), kind)
<1>. DEFINE mine == {k \in DOMAIN queries : queries[k].kind = kind}
            new == Inserted(table, queries, kind)
<1>1. /\ DOMAIN new = DOMAIN table \cup {queries[k].id : k \in mine}
      /\ \A id \in DOMAIN new : new[id] =
           IF id \in DOMAIN table THEN table[id]
           ELSE queries[Min({k \in mine : queries[k].id = id})]
  BY DEF Inserted
<1>. HIDE DEF new
<1>2. ASSUME NEW id \in DOMAIN new
      PROVE  new[id] \in KeptRows /\ new[id].id = id /\ new[id].kind = kind
  <2>1. CASE id \in DOMAIN table
    BY <1>1, <2>1 DEF RowsIn
  <2>2. CASE id \notin DOMAIN table
    <3>. DEFINE I == {k \in mine : queries[k].id = id}
    <3>1. I # {} /\ I \subseteq Nat
      BY <1>1, <2>2
    <3>2. Min(I) \in I
      <4>. HIDE DEF I
      <4>. QED
        BY <3>1, Smallest
    <3>3. new[id] = queries[Min(I)]
      BY <1>1, <2>2
    <3>4. PICK k : k = Min(I)
      OBVIOUS
    <3>5. k \in I /\ new[id] = queries[k]
      BY <3>2, <3>3, <3>4
    <3>. QED
      BY <3>5
  <2>. QED
    BY <2>1, <2>2
<1>. QED
  BY <1>2 DEF RowsIn, new

\* A step of a persister stores rows of its batch, or none.
LEMMA PersisterRows ==
  ASSUME RowsInv, NEW i \in Persisters, PersisterStep(i)
  PROVE  RowsInv'
<1>1. conf' = conf /\ delivered' = delivered /\ reader' = reader
  BY DEF PersisterStep, LaunchPersister, Take, PersistBatch, Finish
<1>2. KeptRows' = KeptRows /\ \A u : ReaderOf(u)' = ReaderOf(u)
  BY <1>1 DEF KeptRows, Kept, Row, Arrived, TopicOf, ReaderOf
<1>3. /\ persister[i] \in PersisterStates /\ persister[i].batch \in Seq(KeptRows)
      /\ persistC \in Seq(KeptRows) /\ persister \in [Persisters -> PersisterStates]
      /\ RowsIn(eth_attestations, "attestation") /\ RowsIn(eth_blocks, "block")
  BY DEF RowsInv, PersisterStates
<1>. DEFINE Rest == /\ persistC' \in Seq(KeptRows)
                    /\ \E s \in PersisterStates : persister' = [persister EXCEPT ![i] = s]
            Same == eth_attestations' = eth_attestations /\ eth_blocks' = eth_blocks
<1>4. ASSUME LaunchPersister(i) PROVE Rest /\ Same
  <2>. DEFINE s == [persister[i] EXCEPT !.pc = "run"]
  <2>1. s \in PersisterStates
    BY <1>3 DEF PersisterStates
  <2>2. persister' = [persister EXCEPT ![i] = s] /\ persistC' = persistC /\ Same
    BY <1>4 DEF LaunchPersister
  <2>. QED
    BY <1>3, <2>1, <2>2
<1>5. ASSUME Take(i) PROVE Rest /\ Same
  <2>. DEFINE b == Append(persister[i].batch, Head(persistC))
              s == [persister[i] EXCEPT !.batch = b]
  <2>1. persistC # <<>> /\ persistC' = Tail(persistC) /\ Same
    BY <1>5 DEF Take
  <2>2. persister' = [persister EXCEPT ![i] = s]
    BY <1>5 DEF Take
  <2>3. b \in Seq(KeptRows) /\ Tail(persistC) \in Seq(KeptRows)
    BY <1>3, <2>1
  <2>. HIDE DEF b
  <2>4. s \in PersisterStates
    BY <1>3, <2>3 DEF PersisterStates
  <2>. QED
    BY <2>1, <2>2, <2>3, <2>4
<1>6. ASSUME PersistBatch(i)
      PROVE  /\ Rest
             /\ RowsIn(eth_attestations', "attestation") /\ RowsIn(eth_blocks', "block")
  <2>. DEFINE s == [persister[i] EXCEPT !.batch = <<>>]
              q == persister[i].batch
  <2>1. persister' = [persister EXCEPT ![i] = s] /\ persistC' = persistC
    BY <1>6 DEF PersistBatch
  <2>2. s \in PersisterStates
    <3>1. <<>> \in Seq(KeptRows)
      OBVIOUS
    <3>. QED
      BY <1>3, <3>1 DEF PersisterStates
  <2>3. \/ /\ eth_attestations' = Inserted(eth_attestations, q, "attestation")
           /\ eth_blocks' = Inserted(eth_blocks, q, "block")
        \/ Same
    BY <1>6 DEF PersistBatch, InsertNewEthereumAttestation, InsertNewEthereumBeaconBlock
  <2>4. /\ RowsIn(Inserted(eth_attestations, q, "attestation"), "attestation")
        /\ RowsIn(Inserted(eth_blocks, q, "block"), "block")
    BY <1>3, InsertedRows
  <2>5. RowsIn(eth_attestations', "attestation") /\ RowsIn(eth_blocks', "block")
    BY <1>3, <2>3, <2>4
  <2>. HIDE DEF s, q
  <2>. QED
    BY <1>3, <2>1, <2>2, <2>5
<1>7. ASSUME Finish(i) PROVE Rest /\ Same
  <2>. DEFINE s == [pc |-> "done", batch |-> <<>>]
  <2>1. persister' = [persister EXCEPT ![i] = s] /\ persistC' = persistC /\ Same
    BY <1>7 DEF Finish
  <2>2. s \in PersisterStates
    BY DEF PersisterStates
  <2>. QED
    BY <1>3, <2>1, <2>2
<1>8. /\ persistC' \in Seq(KeptRows)
      /\ \E s \in PersisterStates : persister' = [persister EXCEPT ![i] = s]
      /\ RowsIn(eth_attestations', "attestation") /\ RowsIn(eth_blocks', "block")
  BY <1>3, <1>4, <1>5, <1>6, <1>7 DEF PersisterStep
<1>9. persister' \in [Persisters -> PersisterStates]
  BY <1>3, <1>8
<1>10. RowsIn(eth_attestations, "attestation")' /\ RowsIn(eth_blocks, "block")'
  BY <1>2, <1>8 DEF RowsIn
<1>11. PersisterStates' = PersisterStates
  BY <1>2 DEF PersisterStates
<1>. QED
  BY <1>1, <1>2, <1>8, <1>9, <1>10, <1>11 DEF RowsInv

\* Every step keeps the invariant of the messages.
LEMMA StepRows ==
  ASSUME JoinInv, RowsInv, Next \/ UNCHANGED vars
  PROVE  RowsInv'
<1>1. CASE JoinAndSubscribe
  <2>1. conf' = conf /\ delivered' = delivered /\ persistC' = persistC /\ UNCHANGED tableVars
    BY <1>1 DEF JoinAndSubscribe
  <2>2. /\ KeptRows' = KeptRows /\ \A u : ReaderOf(u)' = ReaderOf(u)
    BY <2>1 DEF KeptRows, Kept, Row, Arrived, TopicOf, ReaderOf
  <2>5. /\ persister' \in [Persisters -> PersisterStates']
        /\ RowsIn(eth_attestations, "attestation")' /\ RowsIn(eth_blocks, "block")'
    BY <2>1, <2>2, TablesKept
  <2>3. CASE reader' = reader
    BY <2>1, <2>2, <2>3, <2>5 DEF RowsInv
  <2>4. CASE reader' # reader
    <3>1. reader' = [t \in DOMAIN reader \cup {Head(pending)} |->
                       IF t \in DOMAIN reader THEN reader[t] ELSE NewReader]
      BY <1>1, <2>4 DEF JoinAndSubscribe
    <3>2. \A t : NewReader \in ReaderOf(t) /\ NewReader.pc = "next"
      BY DEF NewReader, ReaderOf
    <3>3. reader' = [u \in DOMAIN reader' |-> reader'[u]]
      BY <3>1
    <3>4. \A u \in DOMAIN reader' :
            /\ reader'[u] \in ReaderOf(u)
            /\ reader'[u].pc = "persist" => reader'[u].content \in KeptRows
      BY <3>1, <3>2 DEF RowsInv
    <3>. QED
      BY <2>1, <2>2, <2>5, <3>3, <3>4 DEF RowsInv
  <2>. QED
    BY <2>3, <2>4
<1>2. ASSUME NEW m \in Messages, Deliver(m) PROVE RowsInv'
  <2>0. PICK t : t = TopicOf(m)
    OBVIOUS
  <2>. DEFINE r == [reader[t] EXCEPT !.buf = Append(reader[t].buf, m)]
  <2>1. /\ conf' = conf /\ persistC' = persistC /\ UNCHANGED tableVars
        /\ delivered' = Append(delivered, m) /\ t \in DOMAIN reader
        /\ reader' = [reader EXCEPT ![t] = r]
    BY <1>2, <2>0 DEF Deliver
  <2>2. /\ delivered' \in Seq(Messages) /\ KeptRows \subseteq KeptRows'
        /\ \A u : Arrived(u) \subseteq Arrived(u)' /\ ReaderOf(u) \subseteq ReaderOf(u)'
    BY <2>1, ArrivalsGrow
  <2>3. m \in Arrived(t)'
    <3>1. m \in ToSet(delivered')
      BY <2>1 DEF ToSet, RowsInv
    <3>2. TopicOf(m)' = t
      BY <2>0, <2>1 DEF TopicOf
    <3>. QED
      BY <3>1, <3>2 DEF Arrived
  <2>4. reader[t] \in ReaderOf(t) /\ (reader[t].pc = "persist" => reader[t].content \in KeptRows)
    BY <2>1 DEF RowsInv
  <2>5. /\ r \in ReaderOf(t)' /\ r.pc = reader[t].pc /\ r.content = reader[t].content
    <3>1. Append(reader[t].buf, m) \in Seq(Arrived(t)')
      <4>1. reader[t].buf \in Seq(Arrived(t)')
        BY <2>2, <2>4 DEF ReaderOf
      <4>. QED
        BY <2>3, <4>1
    <3>2. reader[t] \in ReaderOf(t)'
      BY <2>2, <2>4
    <3>. QED
      BY <3>1, <3>2 DEF ReaderOf
  <2>. HIDE DEF r
  <2>6. /\ DOMAIN reader' = DOMAIN reader /\ reader'[t] = r
        /\ \A u \in DOMAIN reader \ {t} : reader'[u] = reader[u]
        /\ reader' = [u \in DOMAIN reader' |-> reader'[u]]
    BY <2>1, Zenon
  <2>7. ASSUME NEW u \in DOMAIN reader'
        PROVE  /\ reader'[u] \in ReaderOf(u)'
               /\ reader'[u].pc = "persist" => reader'[u].content \in KeptRows'
    <3>1. CASE u = t
      BY <2>2, <2>4, <2>5, <2>6, <3>1
    <3>2. CASE u # t
      <4>1. reader'[u] = reader[u] /\ u \in DOMAIN reader
        BY <2>6, <3>2
      <4>. QED
        BY <2>2, <4>1 DEF RowsInv
    <3>. QED
      BY <3>1, <3>2
  <2>8. persistC' \in Seq(KeptRows')
    BY <2>1, <2>2 DEF RowsInv
  <2>9. /\ persister' \in [Persisters -> PersisterStates']
        /\ RowsIn(eth_attestations, "attestation")' /\ RowsIn(eth_blocks, "block")'
    BY <2>1, <2>2, TablesKept
  <2>. QED
    BY <2>2, <2>6, <2>7, <2>8, <2>9 DEF RowsInv
<1>3. ASSUME NEW i \in Persisters, PersisterStep(i) PROVE RowsInv'
  BY <1>3, PersisterRows
<1>4. CASE UNCHANGED vars \/ HostClose \/ DBClose \/ CancelContext
  <2>1. /\ conf' = conf /\ delivered' = delivered /\ persistC' = persistC
        /\ reader' = reader /\ UNCHANGED tableVars
    BY <1>4 DEF vars, HostClose, DBClose, CancelContext
  <2>2. /\ KeptRows' = KeptRows /\ \A u : ReaderOf(u)' = ReaderOf(u)
    BY <2>1 DEF KeptRows, Kept, Row, Arrived, TopicOf, ReaderOf
  <2>3. /\ persister' \in [Persisters -> PersisterStates']
        /\ RowsIn(eth_attestations, "attestation")' /\ RowsIn(eth_blocks, "block")'
    BY <2>1, <2>2, TablesKept
  <2>. QED
    BY <2>1, <2>2, <2>3 DEF RowsInv
<1>. QED
  BY <1>1, <1>2, <1>3, <1>4, ReaderRows DEF Next

\* What is kept as a row is a delivered message.
LEMMA KeptAreMessages ==
  ASSUME RowsInv
  PROVE  RowsAreMessages
<1>1. ASSUME NEW row \in KeptRows
      PROVE  \E m \in Kept : /\ m \in ToSet(delivered) /\ IsRowOf(row, m)
                             /\ row.kind = "attestation" =>
                                  /\ m.base = "beacon_attestation" /\ row.subnet = m.subnet
                                  /\ m.subnet \in ToSet(conf.subnets)
                             /\ row.kind = "block" => m.base = "beacon_block"
  <2>1. PICK m \in Kept : row = Row(m)
    BY DEF KeptRows
  <2>2. m \in Messages
    BY DEF RowsInv, Kept, ToSet
  <2>3. m.base \in {"beacon_block", "beacon_attestation"}
    BY <2>2, GossipAssumption
  <2>. QED
    BY <2>1, <2>3 DEF Kept, Row, IsRowOf
<1>2. ASSUME NEW id \in DOMAIN eth_attestations
      PROVE  \E m \in ToSet(delivered) :
               /\ m.base = "beacon_attestation" /\ m.id = id /\ IsRowOf(eth_attestations[id], m)
               /\ eth_attestations[id].subnet = m.subnet /\ m.subnet \in ToSet(conf.subnets)
  <2>1. /\ eth_attestations[id] \in KeptRows /\ eth_attestations[id].id = id
        /\ eth_attestations[id].kind = "attestation"
    BY DEF RowsInv, RowsIn
  <2>. QED
    BY <1>1, <2>1 DEF IsRowOf
<1>3. ASSUME NEW id \in DOMAIN eth_blocks
      PROVE  \E m \in ToSet(delivered) :
               m.base = "beacon_block" /\ m.id = id /\ IsRowOf(eth_blocks[id], m)
  <2>1. /\ eth_blocks[id] \in KeptRows /\ eth_blocks[id].id = id
        /\ eth_blocks[id].kind = "block"
    BY DEF RowsInv, RowsIn
  <2>. QED
    BY <1>1, <2>1 DEF IsRowOf
<1>. QED
  BY <1>2, <1>3, Zenon DEF RowsAreMessages

\* For every set of messages and every configuration: a row is a message of another
\* peer that was delivered, in the table of its topic, and an attestation keeps the
\* subnet it was sent on (MessageReadingLoop, SubnetMessageHandler, GetSubnetFromTopic,
\* launchPersister, InsertNewEthereumAttestation, InsertNewEthereumBeaconBlock).
THEOREM RowsFromMessages == Spec => []RowsAreMessages
<1>1. Init => JoinInv /\ RowsInv
  BY InitJoin, InitRows
<1>2. JoinInv /\ RowsInv /\ [Next]_vars => (JoinInv /\ RowsInv)'
  BY StepJoin, StepRows
<1>3. RowsInv => RowsAreMessages
  BY KeptAreMessages
<1>. QED
  BY <1>1, <1>2, <1>3, PTL DEF Spec

=============================================================================
