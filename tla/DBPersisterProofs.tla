------------------------- MODULE DBPersisterProofs -------------------------
(***************************************************************************)
(* Proofs about DBPersister: no item is duplicated or forgotten between    *)
(* PersistToDB and the tables, the writer implements BatchStore, and a     *)
(* shutdown drops less than one batch, for any number of persisters, any   *)
(* batch size and any faults.                                              *)
(***************************************************************************)
EXTENDS DBPersister, FiniteSetTheorems, TLAPS

\* What is received from a channel that is not empty.
LEMMA HeadTail ==
  ASSUME NEW S, NEW q \in Seq(S), q # <<>>
  PROVE  Head(q) \in S /\ Tail(q) \in Seq(S)
  OBVIOUS

\* A sequence over a set is one over a larger set.
LEMMA SeqWider ==
  ASSUME NEW S, NEW T, S \subseteq T, NEW q \in Seq(S)
  PROVE  q \in Seq(T)
  OBVIOUS

\* The channel with one more item, or one less, holds what it should.
LEMMA AppendQueue ==
  ASSUME NEW S, NEW q \in Seq(S), NEW x
  PROVE  /\ {Append(q, x)[j] : j \in 1..Len(Append(q, x))}
              = {q[j] : j \in 1..Len(q)} \cup {x}
         /\ x \notin {q[j] : j \in 1..Len(q)} =>
              ((\A j, k \in 1..Len(q) : q[j] = q[k] => j = k) =>
               (\A j, k \in 1..Len(Append(q, x)) :
                  Append(q, x)[j] = Append(q, x)[k] => j = k))
<1> DEFINE r == Append(q, x)
<1>1. Len(r) = Len(q) + 1 /\ Len(q) \in Nat
  OBVIOUS
<1>2. \A j \in 1..Len(q) : r[j] = q[j]
  OBVIOUS
<1>3. r[Len(q) + 1] = x
  OBVIOUS
<1> HIDE DEF r
<1>4. {r[j] : j \in 1..Len(r)} = {q[j] : j \in 1..Len(q)} \cup {x}
  <2>1. \A j \in 1..Len(r) : r[j] \in {q[k] : k \in 1..Len(q)} \cup {x}
    BY <1>1, <1>2, <1>3
  <2>2. \A j \in 1..Len(q) : q[j] \in {r[k] : k \in 1..Len(r)}
    BY <1>1, <1>2
  <2>3. x \in {r[k] : k \in 1..Len(r)}
    BY <1>1, <1>3
  <2> QED
    BY <2>1, <2>2, <2>3
<1>5. ASSUME x \notin {q[j] : j \in 1..Len(q)},
             \A j, k \in 1..Len(q) : q[j] = q[k] => j = k,
             NEW j \in 1..Len(r), NEW k \in 1..Len(r), r[j] = r[k]
      PROVE  j = k
  BY <1>1, <1>2, <1>3, <1>5
<1> QED
  BY <1>4, <1>5, Zenon DEF r

\* A receive takes the first of distinct items off the channel.
LEMMA TailQueue ==
  ASSUME NEW S, NEW q \in Seq(S), q # <<>>,
         \A j, k \in 1..Len(q) : q[j] = q[k] => j = k
  PROVE  /\ {Tail(q)[j] : j \in 1..Len(Tail(q))}
              = {q[j] : j \in 1..Len(q)} \ {Head(q)}
         /\ Head(q) \in {q[j] : j \in 1..Len(q)}
         /\ \A j, k \in 1..Len(Tail(q)) : Tail(q)[j] = Tail(q)[k] => j = k
<1> DEFINE r == Tail(q)
<1>1. /\ Len(q) \in Nat /\ Len(q) >= 1
      /\ Len(r) = Len(q) - 1
      /\ Head(q) = q[1]
      /\ \A j \in 1..Len(r) : r[j] = q[j + 1]
  OBVIOUS
<1> HIDE DEF r
<1>2. Head(q) \in {q[j] : j \in 1..Len(q)}
  BY <1>1
<1>3. \A j, k \in 1..Len(r) : r[j] = r[k] => j = k
  <2> SUFFICES ASSUME NEW j \in 1..Len(r), NEW k \in 1..Len(r), r[j] = r[k]
               PROVE  j = k
    OBVIOUS
  <2>1. j + 1 \in 1..Len(q) /\ k + 1 \in 1..Len(q) /\ q[j + 1] = q[k + 1]
    BY <1>1
  <2> QED
    BY <2>1
<1>4. \A j \in 1..Len(r) : r[j] \in {q[k] : k \in 1..Len(q)} \ {Head(q)}
  <2> SUFFICES ASSUME NEW j \in 1..Len(r)
               PROVE  r[j] \in {q[k] : k \in 1..Len(q)} \ {Head(q)}
    OBVIOUS
  <2>1. j + 1 \in 1..Len(q) /\ 1 \in 1..Len(q) /\ j + 1 # 1 /\ r[j] = q[j + 1]
    BY <1>1
  <2> QED
    BY <1>1, <2>1
<1>5. ASSUME NEW j \in 1..Len(q), q[j] # Head(q)
      PROVE  q[j] \in {r[k] : k \in 1..Len(r)}
  <2>1. j - 1 \in 1..Len(r) /\ q[j] = r[j - 1]
    BY <1>1, <1>5
  <2> QED
    BY <2>1
<1> QED
  BY <1>2, <1>3, <1>4, <1>5 DEF r

-----------------------------------------------------------------------------
(* Type correctness.                                                       *)

\* A record of a persister, field by field.
LEMMA PersisterFields ==
  ASSUME TypeOK, NEW i \in Persisters
  PROVE  /\ persister[i].pc \in {"new", "loop", "poll", "take", "flush", "done"}
         /\ persister[i].ready \in BOOLEAN
         /\ persister[i].items \subseteq 1..accepted
         /\ persister[i].size \in Nat
         /\ persister[i].tries \in 0..MaxRetries
<1>1. persister[i] \in PersisterStates
  BY DEF TypeOK
<1> QED
  BY <1>1 DEF PersisterStates

\* A committed transaction adds its items to the tables, and each of them once.
LEMMA CommittedRows ==
  ASSUME TypeOK, NEW S \in SUBSET (1..accepted), Committed(S)
  PROVE  /\ InTables' = InTables \cup S
         /\ stored' \in [1..MaxItems -> Nat]
         /\ \A n \in 1..MaxItems :
              stored'[n] = IF n \in S THEN stored[n] + 1 ELSE stored[n]
<1>1. S \subseteq 1..MaxItems /\ stored \in [1..MaxItems -> Nat]
  BY PersisterAssumption DEF TypeOK
<1>2. \A n \in 1..MaxItems : stored'[n] = IF n \in S THEN stored[n] + 1 ELSE stored[n]
  BY DEF Committed
<1>3. \A n \in 1..MaxItems : IF n \in S THEN stored[n] + 1 \in Nat ELSE stored[n] \in Nat
  BY <1>1
<1>4. stored' \in [1..MaxItems -> Nat]
  BY <1>3 DEF Committed
<1>5. ASSUME NEW n \in 1..MaxItems
      PROVE  stored'[n] > 0 <=> stored[n] > 0 \/ n \in S
  BY <1>1, <1>2
<1> QED
  BY <1>1, <1>2, <1>4, <1>5 DEF InTables

\* Rows that are not written stay as they are.
LEMMA SameRows ==
  ASSUME UNCHANGED stored
  PROVE  InTables' = InTables
  BY DEF InTables

\* The updates of a persister's record that the actions make keep its type.
LEMMA RecordUpdates ==
  ASSUME NEW r \in PersisterStates
  PROVE  /\ \A x \in {"loop", "poll", "take", "flush"} :
              [r EXCEPT !.pc = x] \in PersisterStates
         /\ [r EXCEPT !.pc = "take", !.ready = TRUE] \in PersisterStates
         /\ [r EXCEPT !.pc = "loop", !.items = {}, !.size = 0, !.tries = 0]
              \in PersisterStates
         /\ r.tries < MaxRetries => [r EXCEPT !.tries = @ + 1] \in PersisterStates
         /\ EmptyAt("done") \in PersisterStates
<1>0. 0 \in 0..MaxRetries /\ 0 \in Nat /\ {} \subseteq 1..accepted
  BY PersisterAssumption
<1>1. ASSUME NEW x \in {"loop", "poll", "take", "flush"}
      PROVE  [r EXCEPT !.pc = x] \in PersisterStates
  BY DEF PersisterStates
<1>2. [r EXCEPT !.pc = "take", !.ready = TRUE] \in PersisterStates
  BY Zenon DEF PersisterStates
<1>3. [r EXCEPT !.pc = "loop", !.items = {}, !.size = 0, !.tries = 0]
        \in PersisterStates
  BY <1>0, Zenon DEF PersisterStates
<1>4. ASSUME r.tries < MaxRetries
      PROVE  [r EXCEPT !.tries = @ + 1] \in PersisterStates
  <2>1. r.tries \in 0..MaxRetries
    BY DEF PersisterStates
  <2>2. r.tries + 1 \in 0..MaxRetries
    BY <1>4, <2>1, PersisterAssumption
  <2> QED
    BY <2>2 DEF PersisterStates
<1>5. EmptyAt("done") \in PersisterStates
  BY <1>0 DEF PersisterStates, EmptyAt
<1> QED
  BY <1>1, <1>2, <1>3, <1>4, <1>5

\* Every step keeps the type: the tries of a batch stop at MaxRetries.
LEMMA TypeStep ==
  ASSUME TypeOK, [Next]_vars
  PROVE  TypeOK'
<1> USE PersisterAssumption
<1>1. CASE PersistToDB
  <2>1. CASE closer = "closed"
    BY <1>1, <2>1 DEF TypeOK, PersisterStates, PersistToDB, dbVars
  <2>2. CASE closer # "closed"
    <3>1. /\ accepted' = accepted + 1 /\ persistC' = Append(persistC, accepted + 1)
          /\ UNCHANGED <<panic, persister, stored, lost, dropped, ignored, closer, ctxDone>>
      BY <1>1, <2>2 DEF PersistToDB, dbVars
    <3>2. accepted \in Nat /\ 1..accepted \subseteq 1..accepted'
          /\ accepted' \in 0..MaxItems /\ accepted' \in 1..accepted'
      BY <1>1, <3>1 DEF TypeOK, PersistToDB
    <3>3. persistC' \in Seq(1..accepted')
      <4>1. persistC \in Seq(1..accepted')
        <5>1. persistC \in Seq(1..accepted)
          BY DEF TypeOK
        <5> QED
          BY <3>2, <5>1, SeqWider, Zenon
      <4> QED
        BY <4>1, <3>1, <3>2
    <3>4. PersisterStates \subseteq PersisterStates'
      BY <3>2 DEF PersisterStates
    <3>5. persister' \in [Persisters -> PersisterStates']
      BY <3>1, <3>4 DEF TypeOK
    <3> QED
      BY <3>1, <3>2, <3>3, <3>5 DEF TypeOK
  <2> QED
    BY <2>1, <2>2
<1>2. ASSUME NEW i \in Persisters, PersisterStep(i)
      PROVE  TypeOK'
  <2>0. /\ persister \in [Persisters -> PersisterStates]
        /\ persister[i] \in PersisterStates
        /\ persister[i].items \subseteq 1..accepted
    BY PersisterFields DEF TypeOK
  <2>1. /\ accepted' = accepted /\ panic' = panic /\ ctxDone' = ctxDone
        /\ PersisterStates' = PersisterStates
    BY <1>2, Zenon DEF PersisterStep, LaunchPersister, LoopHead, PollContext, PollDone,
         PollDefault, Take, TakeNil, Ticker, Flush, CommitBatch, BatchError,
         CommitUnknown, QueryError, PersisterStates, procVars
  <2>2. CASE LaunchPersister(i) \/ TakeNil(i) \/ PollDefault(i) \/ Ticker(i)
    <3>1. PICK x \in {"loop", "poll", "take", "flush"} :
            persister' = [persister EXCEPT ![i] = [persister[i] EXCEPT !.pc = x]]
      BY <2>2 DEF LaunchPersister, TakeNil, PollDefault, Ticker
    <3>2. persister' \in [Persisters -> PersisterStates]
      BY <2>0, <3>1, RecordUpdates, Zenon
    <3> QED
      BY <2>1, <2>2, <3>2 DEF TypeOK, LaunchPersister, TakeNil, PollDefault, Ticker,
           dbVars, procVars
  <2>3. CASE LoopHead(i)
    <3>1. persister' \in [Persisters -> PersisterStates]
      BY <2>0, <2>3, RecordUpdates, Zenon DEF LoopHead
    <3>2. lost' \subseteq 1..accepted /\ dropped' \subseteq lost'
      BY <2>0, <2>3 DEF LoopHead, TypeOK
    <3> QED
      BY <2>1, <2>3, <3>1, <3>2 DEF TypeOK, LoopHead, procVars
  <2>4. CASE PollContext(i) \/ PollDone(i)
    <3>1. persister' \in [Persisters -> PersisterStates]
      BY <2>0, <2>4, RecordUpdates, Zenon DEF PollContext, PollDone
    <3> QED
      BY <2>1, <2>4, <3>1 DEF TypeOK, PollContext, PollDone, dbVars, procVars
  <2>5. ASSUME NEW k \in Weights, Take(i, k)
        PROVE  TypeOK'
    <3>1. persistC # <<>> /\ persistC \in Seq(1..accepted) /\ k \in Nat
      BY <2>5 DEF Take, TypeOK
    <3>2. Head(persistC) \in 1..accepted /\ Tail(persistC) \in Seq(1..accepted)
      BY <3>1, HeadTail, Zenon
    <3>3. persister[i].size + k \in Nat
      BY <2>0, <3>1 DEF PersisterStates
    <3> DEFINE rec == [persister[i] EXCEPT
                 !.pc = IF IsReadyToPersist(persister[i].size + k)
                        THEN "flush" ELSE "loop",
                 !.items = IF k = 0 THEN @ ELSE @ \cup {Head(persistC)},
                 !.size = persister[i].size + k]
    <3>4. rec \in PersisterStates
      BY <2>0, <3>2, <3>3, Zenon DEF PersisterStates
    <3>5. persister' = [persister EXCEPT ![i] = rec]
      BY <2>5, Zenon DEF Take
    <3> HIDE DEF rec
    <3>6. persister' \in [Persisters -> PersisterStates]
      BY <2>0, <3>4, <3>5
    <3>7. ignored' \subseteq 1..accepted /\ persistC' \in Seq(1..accepted)
      BY <2>5, <3>2 DEF Take, TypeOK
    <3> QED
      BY <2>1, <2>5, <3>6, <3>7 DEF Take, TypeOK, procVars
  <2>6. CASE Flush(i)
    <3>1. persister' \in [Persisters -> PersisterStates]
      <4>1. CASE CleanBatch(i)
        BY <2>0, <4>1, RecordUpdates, Zenon DEF CleanBatch
      <4>2. CASE Retry(i)
        <5>1. CASE GivenUp(i)
          BY <4>1, <4>2, <5>1 DEF Retry
        <5>2. CASE ~GivenUp(i)
          <6>1. persister[i].tries < MaxRetries
            BY <5>2, PersisterFields DEF GivenUp
          <6>2. persister' = [persister EXCEPT ![i].tries = @ + 1]
            BY <4>2, <5>2 DEF Retry
          <6> QED
            BY <2>0, <6>1, <6>2, RecordUpdates, Zenon
        <5> QED
          BY <5>1, <5>2
      <4> QED
        BY <2>6, <4>1, <4>2 DEF Flush, CommitBatch, BatchError, CommitUnknown, QueryError
    <3>2. lost' \subseteq 1..accepted /\ dropped' \subseteq lost'
      BY <2>0, <2>6, Zenon DEF Flush, CommitBatch, BatchError, CommitUnknown, QueryError, TypeOK
    <3>4. stored' \in [1..MaxItems -> Nat]
      <4>1. Committed(persister[i].items) \/ stored' = stored
        BY <2>6 DEF Flush, CommitBatch, BatchError, CommitUnknown, QueryError
      <4> QED
        BY <2>0, <4>1, CommittedRows, Zenon DEF TypeOK
    <3>3. UNCHANGED <<persistC, ignored, closer>>
      BY <2>6 DEF Flush, CommitBatch, BatchError, CommitUnknown, QueryError, procVars
    <3> QED
      BY <2>1, <3>1, <3>2, <3>3, <3>4 DEF TypeOK
  <2> QED
    BY <1>2, <2>2, <2>3, <2>4, <2>5, <2>6 DEF PersisterStep
<1>3. CASE CloseSend \/ CloseChannel \/ Cancel
  BY <1>3, Zenon DEF TypeOK, PersisterStates, CloseSend, CloseChannel, Cancel, dbVars
<1>4. CASE UNCHANGED vars
  BY <1>4 DEF TypeOK, PersisterStates, vars, dbVars, procVars
<1> QED
  BY <1>1, <1>2, <1>3, <1>4 DEF Next, Finished

-----------------------------------------------------------------------------
(* The place of every item.                                                *)

\* A step of one persister changes the batches by its own batch only.
LEMMA BatchedUpdate ==
  ASSUME ItemsAccounted, NEW i \in Persisters,
         \A j \in Persisters : j # i => persister'[j].items = persister[j].items
  PROVE  /\ Batched' = (Batched \ persister[i].items) \cup persister'[i].items
         /\ persister[i].items \subseteq Batched
<1>1. \A j \in Persisters : j # i => persister[j].items \cap persister[i].items = {}
  BY DEF ItemsAccounted
<1>2. ASSUME NEW x
      PROVE  x \in Batched' <=>
               x \in (Batched \ persister[i].items) \cup persister'[i].items
  BY <1>1 DEF Batched
<1> QED
  BY <1>2 DEF Batched

\* The batches stay disjoint when one of them takes nothing that another has, and
\* only a batch under a retry holds stored items.
LEMMA BatchesUpdate ==
  ASSUME ItemsAccounted, NEW i \in Persisters,
         \A j \in Persisters : j # i => persister'[j] = persister[j],
         persister'[i].items \cap (Batched \ persister[i].items) = {},
         \A j \in Persisters : j # i =>
           persister[j].items \cap InTables' = persister[j].items \cap InTables,
         persister'[i].items \cap InTables' # {} =>
           persister'[i].pc = "flush" /\ persister'[i].tries > 0
  PROVE  /\ \A j, k \in Persisters :
              j # k => persister'[j].items \cap persister'[k].items = {}
         /\ \A j \in Persisters : persister'[j].items \cap InTables' # {} =>
              persister'[j].pc = "flush" /\ persister'[j].tries > 0
<1>1. \A j, k \in Persisters : j # k => persister[j].items \cap persister[k].items = {}
  BY DEF ItemsAccounted
<1>2. \A j \in Persisters : j # i => persister'[i].items \cap persister[j].items = {}
  BY <1>1 DEF Batched
<1>3. \A j, k \in Persisters :
        j # k => persister'[j].items \cap persister'[k].items = {}
  BY <1>1, <1>2
<1>4. \A j \in Persisters : persister[j].items \cap InTables # {} =>
        persister[j].pc = "flush" /\ persister[j].tries > 0
  BY DEF ItemsAccounted
<1>5. \A j \in Persisters : persister'[j].items \cap InTables' # {} =>
        persister'[j].pc = "flush" /\ persister'[j].tries > 0
  BY <1>4
<1> QED
  BY <1>3, <1>5

\* A step of a persister that leaves its batch and the tables as they are.
LEMMA QuietStep ==
  ASSUME TypeOK, ItemsAccounted, NEW i \in Persisters,
         persister[i].pc # "flush",
         persister'[i].items = persister[i].items,
         \A j \in Persisters : j # i => persister'[j] = persister[j],
         UNCHANGED <<accepted, persistC, InTables, lost, ignored>>
  PROVE  ItemsAccounted'
<1>1. persister[i].items \cap InTables = {}
  BY DEF ItemsAccounted
<1>2. Batched' = Batched
  BY DEF Batched
<1>3. Queued' = Queued
  BY DEF Queued
<1>4. /\ \A j, k \in Persisters :
           j # k => persister'[j].items \cap persister'[k].items = {}
      /\ \A j \in Persisters : persister'[j].items \cap InTables' # {} =>
           persister'[j].pc = "flush" /\ persister'[j].tries > 0
  BY <1>1, BatchesUpdate
<1> QED
  BY <1>2, <1>3, <1>4 DEF ItemsAccounted

\* The steps of a persister by which it takes an item, and by which its batch is
\* stored, lost or both.
LEMMA TakeStep ==
  ASSUME TypeOK, ItemsAccounted, QueueDistinct, NEW i \in Persisters, NEW k,
         Take(i, k)
  PROVE  ItemsAccounted' /\ QueueDistinct'
<1> DEFINE n == Head(persistC)
<1>1. persistC \in Seq(1..accepted) /\ persistC # <<>> /\ persister[i].pc = "take"
  BY DEF Take, TypeOK
<1>2. Queued' = Queued \ {n} /\ n \in Queued /\ QueueDistinct'
  <2>1. persistC' = Tail(persistC)
    BY DEF Take
  <2>2. \A j, l \in 1..Len(persistC) : persistC[j] = persistC[l] => j = l
    BY DEF QueueDistinct
  <2> DEFINE r == Tail(persistC)
  <2>3. /\ {r[j] : j \in 1..Len(r)} = {persistC[j] : j \in 1..Len(persistC)} \ {n}
        /\ n \in {persistC[j] : j \in 1..Len(persistC)}
        /\ \A j, l \in 1..Len(r) : r[j] = r[l] => j = l
    BY <1>1, <2>2, TailQueue
  <2>4. persistC' = r
    BY <2>1
  <2> HIDE DEF r, n
  <2>5. Queued' = {r[j] : j \in 1..Len(r)}
    BY <2>4 DEF Queued
  <2>6. QueueDistinct'
    BY <2>3, <2>4 DEF QueueDistinct
  <2> QED
    BY <2>3, <2>5, <2>6, Zenon DEF Queued
<1>3. /\ persister \in [Persisters -> PersisterStates]
      /\ persister[i].items \cap InTables = {}
  BY <1>1 DEF TypeOK, ItemsAccounted
<1>4. \A j \in Persisters : j # i => persister'[j] = persister[j]
  BY <1>3 DEF Take
<1>5. persister'[i].items = IF k = 0 THEN persister[i].items
                            ELSE persister[i].items \cup {n}
  <2> DEFINE rec == [persister[i] EXCEPT
               !.pc = IF IsReadyToPersist(persister[i].size + k)
                      THEN "flush" ELSE "loop",
               !.items = IF k = 0 THEN @ ELSE @ \cup {n},
               !.size = persister[i].size + k]
  <2>1. persister' = [persister EXCEPT ![i] = rec]
    BY Zenon DEF Take
  <2>2. rec.items = IF k = 0 THEN persister[i].items ELSE persister[i].items \cup {n}
    BY <1>3 DEF PersisterStates
  <2> HIDE DEF rec
  <2> QED
    BY <1>3, <2>1, <2>2
<1>6. /\ UNCHANGED <<accepted, InTables, lost>>
      /\ ignored' = IF k = 0 THEN ignored \cup {n} ELSE ignored
  BY SameRows DEF Take
<1> HIDE DEF n
<1>7. n \notin Batched \cup InTables \cup lost \cup ignored
  BY <1>2 DEF ItemsAccounted
<1>8. /\ Batched' = (Batched \ persister[i].items) \cup persister'[i].items
      /\ persister[i].items \subseteq Batched
  BY <1>4, BatchedUpdate
<1>9. /\ \A j, l \in Persisters :
           j # l => persister'[j].items \cap persister'[l].items = {}
      /\ \A j \in Persisters : persister'[j].items \cap InTables' # {} =>
           persister'[j].pc = "flush" /\ persister'[j].tries > 0
  <2>1. persister'[i].items \cap (Batched \ persister[i].items) = {}
    BY <1>5, <1>7
  <2>2. persister'[i].items \cap InTables' = {}
    BY <1>3, <1>5, <1>6, <1>7
  <2> QED
    BY <1>4, <1>6, <2>1, <2>2, BatchesUpdate
<1>10. CASE k = 0
  <2>1. Batched' = Batched
    BY <1>5, <1>8, <1>10
  <2> QED
    BY <1>2, <1>6, <1>7, <1>9, <1>10, <2>1 DEF ItemsAccounted
<1>11. CASE k # 0
  <2>1. Batched' = Batched \cup {n}
    BY <1>5, <1>8, <1>11
  <2> QED
    BY <1>2, <1>6, <1>7, <1>9, <1>11, <2>1 DEF ItemsAccounted
<1> QED
  BY <1>2, <1>10, <1>11

\* A persister that empties its batch stores or loses the items of it (flush, finish).
LEMMA EmptyStep ==
  ASSUME TypeOK, ItemsAccounted, NEW i \in Persisters,
         \A j \in Persisters : j # i => persister'[j] = persister[j],
         persister'[i].items = {},
         UNCHANGED <<accepted, persistC, ignored>>,
         \/ InTables' = InTables \cup persister[i].items /\ lost' = lost
         \/ InTables' = InTables /\ lost' = lost \cup (persister[i].items \ InTables)
  PROVE  ItemsAccounted'
<1>1. /\ Batched' = Batched \ persister[i].items
      /\ persister[i].items \subseteq Batched
  BY BatchedUpdate
<1>2. Queued' = Queued
  BY DEF Queued
<1>3. \A j \in Persisters : j # i => persister[j].items \cap persister[i].items = {}
  BY DEF ItemsAccounted
<1>4. /\ \A j, k \in Persisters :
           j # k => persister'[j].items \cap persister'[k].items = {}
      /\ \A j \in Persisters : persister'[j].items \cap InTables' # {} =>
           persister'[j].pc = "flush" /\ persister'[j].tries > 0
  <2>1. \A j \in Persisters : j # i =>
          persister[j].items \cap InTables' = persister[j].items \cap InTables
    BY <1>3
  <2> QED
    BY <2>1, BatchesUpdate
<1>5. CASE InTables' = InTables \cup persister[i].items /\ lost' = lost
  BY <1>1, <1>2, <1>4, <1>5 DEF ItemsAccounted
<1>6. CASE InTables' = InTables /\ lost' = lost \cup (persister[i].items \ InTables)
  BY <1>1, <1>2, <1>4, <1>6 DEF ItemsAccounted
<1> QED
  BY <1>5, <1>6

\* A failed try keeps the batch, whether its commit went through or not.
LEMMA RetryStep ==
  ASSUME TypeOK, ItemsAccounted, NEW i \in Persisters,
         persister[i].pc = "flush",
         persister' = [persister EXCEPT ![i].tries = @ + 1],
         UNCHANGED <<accepted, persistC, ignored, lost>>,
         InTables' = InTables \/ InTables' = InTables \cup persister[i].items
  PROVE  ItemsAccounted'
<1>0. /\ persister \in [Persisters -> PersisterStates]
      /\ persister[i].tries \in Nat
  BY PersisterFields, PersisterAssumption DEF TypeOK
<1>1. /\ \A j \in Persisters : j # i => persister'[j] = persister[j]
      /\ persister'[i].items = persister[i].items
      /\ persister'[i].pc = "flush"
      /\ persister'[i].tries > 0
  BY <1>0 DEF PersisterStates
<1>2. Batched' = Batched /\ persister[i].items \subseteq Batched
  BY <1>1 DEF Batched
<1>3. Queued' = Queued
  BY DEF Queued
<1>4. \A j \in Persisters : j # i => persister[j].items \cap persister[i].items = {}
  BY DEF ItemsAccounted
<1>5. /\ \A j, k \in Persisters :
           j # k => persister'[j].items \cap persister'[k].items = {}
      /\ \A j \in Persisters : persister'[j].items \cap InTables' # {} =>
           persister'[j].pc = "flush" /\ persister'[j].tries > 0
  <2>1. \A j \in Persisters : j # i =>
          persister[j].items \cap InTables' = persister[j].items \cap InTables
    BY <1>4
  <2> QED
    BY <1>1, <2>1, BatchesUpdate
<1> QED
  BY <1>2, <1>3, <1>5 DEF ItemsAccounted

\* Every step keeps every item in its place or moves it to the next one.
LEMMA AccountedStep ==
  ASSUME TypeOK, ItemsAccounted, QueueDistinct, [Next]_vars
  PROVE  ItemsAccounted' /\ QueueDistinct'
<1>1. CASE PersistToDB /\ closer # "closed"
  <2>1. /\ accepted' = accepted + 1 /\ persistC' = Append(persistC, accepted + 1)
        /\ UNCHANGED <<persister, InTables, lost, ignored>>
    BY <1>1, SameRows DEF PersistToDB, dbVars
  <2>2. /\ accepted \in 0..MaxItems /\ persistC \in Seq(1..accepted)
        /\ accepted + 1 \notin 1..accepted
        /\ 1..(accepted + 1) = (1..accepted) \cup {accepted + 1}
    BY DEF TypeOK
  <2>3. accepted + 1 \notin Queued \cup Batched \cup InTables \cup lost \cup ignored
    BY <2>2 DEF ItemsAccounted
  <2>4. Queued' = Queued \cup {accepted + 1} /\ QueueDistinct'
    <3>1. \A j, l \in 1..Len(persistC) : persistC[j] = persistC[l] => j = l
      BY DEF QueueDistinct
    <3>2. accepted + 1 \notin {persistC[j] : j \in 1..Len(persistC)}
      BY <2>3 DEF Queued
    <3> DEFINE r == Append(persistC, accepted + 1)
    <3>3. /\ {r[j] : j \in 1..Len(r)} = {persistC[j] : j \in 1..Len(persistC)}
                                          \cup {accepted + 1}
          /\ \A j, l \in 1..Len(r) : r[j] = r[l] => j = l
      BY <2>2, <3>1, <3>2, AppendQueue
    <3>4. persistC' = r
      BY <2>1
    <3> HIDE DEF r
    <3> QED
      BY <3>3, <3>4 DEF Queued, QueueDistinct
  <2>5. Batched' = Batched
    BY <2>1 DEF Batched
  <2>6. 1..accepted' = (1..accepted) \cup {accepted + 1}
    BY <2>1, <2>2
  <2> QED
    BY <2>1, <2>3, <2>4, <2>5, <2>6 DEF ItemsAccounted
<1>2. CASE UNCHANGED <<accepted, persistC, persister, stored, lost, ignored>>
  BY <1>2, SameRows DEF ItemsAccounted, QueueDistinct, Queued, Batched
<1>3. ASSUME NEW i \in Persisters, PersisterStep(i)
      PROVE  ItemsAccounted' /\ QueueDistinct'
  <2>0. persister \in [Persisters -> PersisterStates]
    BY DEF TypeOK
  <2>1. CASE \E k \in Weights : Take(i, k)
    BY <2>1, TakeStep
  <2>2. CASE \/ LaunchPersister(i) \/ PollContext(i) \/ PollDone(i) \/ PollDefault(i)
             \/ TakeNil(i) \/ Ticker(i)
    <3>1. /\ persister[i].pc # "flush"
          /\ UNCHANGED <<accepted, persistC, InTables, lost, ignored>>
      BY <2>2, SameRows DEF LaunchPersister, PollContext, PollDone, PollDefault,
                            TakeNil, Ticker, dbVars
    <3>2. \A j \in Persisters : j # i => persister'[j] = persister[j]
      BY <2>0, <2>2 DEF LaunchPersister, PollContext, PollDone, PollDefault, TakeNil,
                        Ticker
    <3>3. persister'[i].items = persister[i].items
      BY <2>0, <2>2 DEF LaunchPersister, PollContext, PollDone, PollDefault, TakeNil,
                        Ticker, PersisterStates
    <3> QED
      BY <3>1, <3>2, <3>3, QuietStep DEF QueueDistinct
  <2>3. CASE LoopHead(i)
    <3>1. UNCHANGED <<accepted, persistC, InTables, ignored>>
      BY <2>3, SameRows DEF LoopHead
    <3>2. \A j \in Persisters : j # i => persister'[j] = persister[j]
      BY <2>0, <2>3 DEF LoopHead
    <3>3. CASE persister[i].ready /\ persistC = <<>>
      <4>1. persister'[i].items = {}
        BY <2>0, <2>3, <3>3 DEF LoopHead, EmptyAt
      <4>2. persister[i].items \cap InTables = {} /\ lost' = lost \cup persister[i].items
        BY <2>3, <3>3 DEF LoopHead, ItemsAccounted
      <4>3. persister[i].items = persister[i].items \ InTables
        BY <4>2
      <4> QED
        BY <3>1, <3>2, <4>1, <4>2, <4>3, EmptyStep DEF QueueDistinct
    <3>4. CASE ~(persister[i].ready /\ persistC = <<>>)
      <4>1. /\ persister'[i].items = persister[i].items /\ lost' = lost
            /\ persister[i].pc # "flush"
        BY <2>0, <2>3, <3>4 DEF LoopHead, PersisterStates
      <4> QED
        BY <3>1, <3>2, <4>1, QuietStep DEF QueueDistinct
    <3> QED
      BY <3>3, <3>4
  <2>4. CASE Flush(i)
    <3>0. UNCHANGED <<accepted, persistC, ignored>> /\ persister[i].pc = "flush"
      BY <2>4 DEF Flush, CommitBatch, BatchError, CommitUnknown, QueryError
    <3>1. CASE CleanBatch(i)
      <4>1. \A j \in Persisters : j # i => persister'[j] = persister[j]
        BY <2>0, <3>1 DEF CleanBatch
      <4>2. persister'[i].items = {}
        BY <2>0, <3>1 DEF CleanBatch, PersisterStates
      <4>3. CASE InTables' = InTables \cup persister[i].items /\ lost' = lost
        BY <3>0, <4>1, <4>2, <4>3, EmptyStep DEF QueueDistinct
      <4>4. CASE InTables' = InTables /\ lost' = lost \cup (persister[i].items \ InTables)
        BY <3>0, <4>1, <4>2, <4>4, EmptyStep DEF QueueDistinct
      <4>5. BatchError(i) \/ CommitUnknown(i) => GivenUp(i)
        <5>1. ASSUME Retry(i), ~GivenUp(i)
              PROVE  FALSE
          <6>1. persister' = [persister EXCEPT ![i].tries = @ + 1]
            BY <5>1 DEF Retry
          <6>2. persister'[i].pc = "flush"
            BY <2>0, <3>0, <6>1 DEF PersisterStates
          <6>3. persister'[i].pc = "loop"
            BY <2>0, <3>1 DEF CleanBatch, PersisterStates
          <6> QED
            BY <6>2, <6>3
        <5> QED
          BY <5>1 DEF BatchError, CommitUnknown
      <4>6. persister[i].items \subseteq 1..accepted
        BY PersisterFields
      <4>7. CASE Committed(persister[i].items) /\ lost' = lost
        BY <4>3, <4>6, <4>7, CommittedRows
      <4>8. CASE stored' = stored /\ lost' = lost \cup (persister[i].items \ InTables)
        BY <4>4, <4>8, SameRows
      <4> QED
        BY <2>4, <4>5, <4>7, <4>8 DEF Flush, CommitBatch, BatchError, CommitUnknown,
                                      QueryError
    <3>2. CASE ~CleanBatch(i)
      <4>1. persister' = [persister EXCEPT ![i].tries = @ + 1] /\ ~GivenUp(i)
        BY <2>4, <3>2 DEF Flush, CommitBatch, BatchError, CommitUnknown, QueryError,
                          Retry
      <4>2. lost' = lost /\ (stored' = stored \/ Committed(persister[i].items))
        BY <2>4, <3>2, <4>1 DEF Flush, CommitBatch, BatchError, CommitUnknown,
                                QueryError
      <4>3. InTables' = InTables \/ InTables' = InTables \cup persister[i].items
        BY <4>2, PersisterFields, CommittedRows, SameRows
      <4> QED
        BY <3>0, <4>1, <4>2, <4>3, RetryStep, Zenon DEF QueueDistinct
    <3> QED
      BY <3>1, <3>2
  <2> QED
    BY <1>3, <2>1, <2>2, <2>3, <2>4 DEF PersisterStep
<1>4. CASE (PersistToDB /\ closer = "closed") \/ CloseSend \/ CloseChannel \/ Cancel
  BY <1>2, <1>4 DEF PersistToDB, CloseSend, CloseChannel, Cancel, dbVars
<1>5. CASE UNCHANGED vars
  BY <1>2, <1>5 DEF vars, dbVars
<1> QED
  BY <1>1, <1>3, <1>4, <1>5 DEF Next, Finished

-----------------------------------------------------------------------------
(* How often an item is written.                                           *)

\* Only the rows of one batch are written in a step, and the batch is either cleaned
\* or has one more try behind it.
LEMMA WritesUpdate ==
  ASSUME TypeOK, ItemsAccounted, WritesBounded, NEW i \in Persisters,
         \A j \in Persisters : j # i => persister'[j] = persister[j],
         stored' = stored \/ Committed(persister[i].items),
         \A n \in persister'[i].items : stored'[n] <= persister'[i].tries
  PROVE  WritesBounded'
<1>1. /\ persister[i].items \subseteq 1..accepted /\ persister[i].tries \in 0..MaxRetries
      /\ 1..accepted \subseteq 1..MaxItems /\ MaxRetries \in Nat
      /\ \A n \in 1..MaxItems : stored[n] \in Nat
  BY PersisterFields, PersisterAssumption DEF TypeOK
<1>2. \A n \in 1..MaxItems :
        \/ stored'[n] = stored[n]
        \/ stored'[n] = stored[n] + 1 /\ n \in persister[i].items
  BY <1>1, CommittedRows
<1>3. \A n \in 1..MaxItems : stored'[n] <= MaxRetries + 1
  BY <1>1, <1>2 DEF WritesBounded
<1>4. ASSUME NEW j \in Persisters, j # i, NEW n \in persister'[j].items
      PROVE  stored'[n] <= persister'[j].tries
  <2>1. n \in persister[j].items /\ n \notin persister[i].items /\ n \in 1..MaxItems
    BY <1>1, <1>4, PersisterFields DEF ItemsAccounted
  <2> QED
    BY <1>2, <1>4, <2>1 DEF WritesBounded
<1> QED
  BY <1>3, <1>4 DEF WritesBounded

\* Every step keeps the bound on the writes of an item.
LEMMA WritesStep ==
  ASSUME TypeOK, ItemsAccounted, WritesBounded, [Next]_vars
  PROVE  WritesBounded'
<1>1. CASE UNCHANGED <<persister, stored>>
  BY <1>1 DEF WritesBounded
<1>2. ASSUME NEW i \in Persisters, PersisterStep(i)
      PROVE  WritesBounded'
  <2>0. persister \in [Persisters -> PersisterStates] /\ persister[i] \in PersisterStates
    BY DEF TypeOK
  <2>1. \A j \in Persisters : j # i => persister'[j] = persister[j]
    BY <1>2, <2>0, Zenon DEF PersisterStep, LaunchPersister, LoopHead, PollContext,
       PollDone, PollDefault, Take, TakeNil, Ticker, Flush, CommitBatch, BatchError,
       CommitUnknown, QueryError, Retry, CleanBatch
  <2>2. \A n \in persister[i].items : stored[n] <= persister[i].tries
    BY DEF WritesBounded
  <2>3. ASSUME NEW k \in Weights, Take(i, k)
        PROVE  WritesBounded'
    <3>1. persistC # <<>> /\ persistC \in Seq(1..accepted)
      BY <2>3 DEF Take, TypeOK
    <3>2. Head(persistC) \in Queued /\ Head(persistC) \in 1..MaxItems
      <4>1. Head(persistC) = persistC[1] /\ 1 \in 1..Len(persistC)
        BY <3>1
      <4>2. Head(persistC) \in 1..accepted
        BY <3>1, HeadTail, Zenon
      <4> QED
        BY <4>1, <4>2, PersisterAssumption DEF Queued, TypeOK
    <3>3. stored[Head(persistC)] = 0
      BY <3>2 DEF ItemsAccounted, InTables, TypeOK
    <3>4. /\ persister'[i].items \subseteq persister[i].items \cup {Head(persistC)}
          /\ persister'[i].tries = persister[i].tries
          /\ stored' = stored
      BY <2>0, <2>3 DEF Take, PersisterStates
    <3>5. persister[i].tries >= 0
      BY PersisterFields, PersisterAssumption
    <3>6. \A n \in persister'[i].items : stored'[n] <= persister'[i].tries
      BY <2>2, <3>3, <3>4, <3>5
    <3> QED
      BY <2>1, <3>4, <3>6, WritesUpdate
  <2>4. ASSUME persister'[i].items = {},
               stored' = stored \/ Committed(persister[i].items)
        PROVE  WritesBounded'
    BY <2>1, <2>4, WritesUpdate
  <2>5. CASE \/ LaunchPersister(i) \/ PollContext(i) \/ PollDone(i) \/ PollDefault(i)
             \/ TakeNil(i) \/ Ticker(i)
             \/ LoopHead(i) /\ ~(persister[i].ready /\ persistC = <<>>)
    <3>1. /\ persister'[i].items = persister[i].items
          /\ persister'[i].tries = persister[i].tries
      BY <2>0, <2>5 DEF LaunchPersister, PollContext, PollDone, PollDefault, TakeNil,
                        Ticker, LoopHead, PersisterStates
    <3>2. stored' = stored
      BY <2>5 DEF LaunchPersister, PollContext, PollDone, PollDefault, TakeNil,
                  Ticker, LoopHead, dbVars
    <3> QED
      BY <2>1, <2>2, <3>1, <3>2, WritesUpdate
  <2>6. CASE LoopHead(i) /\ persister[i].ready /\ persistC = <<>>
    BY <2>0, <2>4, <2>6 DEF LoopHead, EmptyAt
  <2>7. CASE Flush(i)
    <3>1. stored' = stored \/ Committed(persister[i].items)
      BY <2>7 DEF Flush, CommitBatch, BatchError, CommitUnknown, QueryError
    <3>2. CASE CleanBatch(i)
      BY <2>0, <2>4, <3>1, <3>2 DEF CleanBatch, PersisterStates
    <3>3. CASE persister' = [persister EXCEPT ![i].tries = @ + 1]
      <4>1. /\ persister'[i].items = persister[i].items
            /\ persister'[i].tries = persister[i].tries + 1
            /\ persister[i].tries \in Nat
        BY <2>0, <3>3, PersisterAssumption DEF PersisterStates
      <4>2. ASSUME NEW n \in persister[i].items
            PROVE  stored'[n] <= persister[i].tries + 1
        <5>1. n \in 1..accepted /\ n \in 1..MaxItems /\ stored[n] \in Nat
          BY PersisterFields, PersisterAssumption DEF TypeOK
        <5>2. stored'[n] = stored[n] \/ stored'[n] = stored[n] + 1
          BY <3>1, <5>1, PersisterFields, CommittedRows
        <5> QED
          BY <2>2, <4>1, <5>1, <5>2
      <4> QED
        BY <2>1, <3>1, <4>1, <4>2, WritesUpdate
    <3> QED
      BY <2>7, <3>2, <3>3 DEF Flush, CommitBatch, BatchError, CommitUnknown, QueryError,
                              Retry
  <2> QED
    BY <1>2, <2>3, <2>5, <2>6, <2>7 DEF PersisterStep
<1>3. CASE PersistToDB \/ CloseSend \/ CloseChannel \/ Cancel
  BY <1>1, <1>3 DEF PersistToDB, CloseSend, CloseChannel, Cancel, dbVars
<1>4. CASE UNCHANGED vars
  BY <1>1, <1>4 DEF vars, dbVars
<1> QED
  BY <1>2, <1>3, <1>4 DEF Next, Finished

\* The inductive invariant holds in every reachable state.
THEOREM InvHolds == Spec => []Inv
<1>1. Init => Inv
  <2> SUFFICES ASSUME Init
               PROVE  Inv
    OBVIOUS
  <2>1. \A i \in Persisters : persister[i] = EmptyAt("new")
    BY DEF Init
  <2>2. EmptyAt("new") \in PersisterStates
    <3>1. 0 \in 0..MaxRetries /\ {} \subseteq 1..accepted
      BY PersisterAssumption
    <3> QED
      BY <3>1 DEF PersisterStates, EmptyAt
  <2>3. TypeOK
    <3>1. persister \in [Persisters -> PersisterStates]
      BY <2>2 DEF Init
    <3>2. accepted \in 0..MaxItems /\ persistC \in Seq(1..accepted)
      BY PersisterAssumption DEF Init
    <3>3. /\ closer \in {"open", "send", "wait", "closed"}
          /\ ctxDone \in BOOLEAN /\ panic \in BOOLEAN
      BY Zenon DEF Init
    <3>4. /\ stored \in [1..MaxItems -> Nat] /\ lost \subseteq 1..accepted
          /\ dropped \subseteq lost /\ ignored \subseteq 1..accepted
      BY Zenon DEF Init
    <3> QED
      BY <3>1, <3>2, <3>3, <3>4 DEF TypeOK
  <2>4. \A i \in Persisters : persister[i].items = {}
    BY <2>1 DEF EmptyAt
  <2>5. Batched = {} /\ Queued = {} /\ 1..accepted = {}
    BY <2>4 DEF Batched, Queued, Init
  <2>6. InTables = {}
    BY DEF InTables, Init
  <2>7. ItemsAccounted
    BY <2>4, <2>5, <2>6 DEF ItemsAccounted, Init
  <2>8. WritesBounded
    BY <2>4, PersisterAssumption DEF WritesBounded, Init
  <2> QED
    BY <2>3, <2>7, <2>8 DEF Inv, QueueDistinct, Init
<1>2. Inv /\ [Next]_vars => Inv'
  BY TypeStep, AccountedStep, WritesStep DEF Inv
<1> QED
  BY <1>1, <1>2, PTL DEF Spec

\* Every accepted item is in exactly one place between PersistToDB and the tables,
\* for any number of persisters, any batch size and any faults of the database.
THEOREM Accounted == Spec => []ItemsAccounted
<1>1. Inv => ItemsAccounted
  BY DEF Inv
<1> QED
  BY <1>1, InvHolds, PTL

\* However often the database loses the answer to a commit, no row is written more
\* often than its batch is tried.
THEOREM WritesLimited == Spec => []WritesBounded
<1>1. Inv => WritesBounded
  BY DEF Inv
<1> QED
  BY <1>1, InvHolds, PTL

-----------------------------------------------------------------------------
(* The writer implements BatchStore.                                       *)

\* The batches as BatchStore sees them.
Batch == [i \in Persisters |-> persister[i].items]

\* What is in no table, no batch and not given up is pending in BatchStore, and the
\* unwritten part of a batch is the part that is in no table.
LEMMA StoreView ==
  ASSUME TypeOK, ItemsAccounted
  PROVE  /\ Queued \subseteq Store!Pending
         /\ \A i \in Persisters :
              /\ Batch[i] = persister[i].items
              /\ Store!Unwritten(i) = persister[i].items \ InTables
<1>1. ASSUME NEW n \in Queued PROVE n \in Store!Pending
  <2>1. n \in 1..accepted /\ n \in 1..MaxItems
    BY PersisterAssumption DEF ItemsAccounted, TypeOK
  <2>2. stored[n] = 0
    BY <2>1 DEF ItemsAccounted, InTables, TypeOK
  <2>3. n \notin lost \cup ignored /\ \A i \in Persisters : n \notin persister[i].items
    BY DEF ItemsAccounted, Batched
  <2> QED
    BY <2>1, <2>2, <2>3, Zenon DEF Store!Pending
<1>2. ASSUME NEW i \in Persisters
      PROVE  /\ Batch[i] = persister[i].items
             /\ Store!Unwritten(i) = persister[i].items \ InTables
  <2>1. persister[i].items \subseteq 1..MaxItems
    BY PersisterFields, PersisterAssumption DEF TypeOK
  <2>2. \A n \in 1..MaxItems : stored[n] = 0 <=> n \notin InTables
    BY DEF InTables, TypeOK
  <2>3. Store!Unwritten(i) = {n \in persister[i].items : stored[n] = 0}
    BY Zenon DEF Store!Unwritten
  <2> QED
    BY <2>1, <2>2, <2>3 DEF Batch
<1> QED
  BY <1>1, <1>2

\* A step of one persister changes its own batch only.
LEMMA BatchUpdate ==
  ASSUME NEW i \in Persisters, NEW X, persister'[i].items = X,
         \A j \in Persisters : j # i => persister'[j].items = persister[j].items
  PROVE  Batch' = [Batch EXCEPT ![i] = X]
  BY DEF Batch

\* The steps of BatchStore, in the variables of the writer.
LEMMA StoreActions ==
  ASSUME NEW i \in Persisters
  PROVE  /\ \A n \in Store!Pending :
              /\ Store!Unwritten(i) = Batch[i]
              /\ Batch' = [Batch EXCEPT ![i] = Batch[i] \cup {n}]
              /\ UNCHANGED <<accepted, stored, lost, ignored>>
              => Store!Next
         /\ \A n \in Store!Pending :
              /\ (lost \cup ignored)' = (lost \cup ignored) \cup {n}
              /\ UNCHANGED <<accepted, Batch, stored>>
              => Store!Next
         /\ /\ \A n \in Batch[i] : stored[n] < MaxRetries + 1
            /\ Committed(Batch[i])
            /\ Batch' = [Batch EXCEPT ![i] = {}] \/ Batch' = Batch
            /\ UNCHANGED <<accepted, lost, ignored>>
            => Store!Next
         /\ /\ (lost \cup ignored)' = (lost \cup ignored) \cup Store!Unwritten(i)
            /\ Batch' = [Batch EXCEPT ![i] = {}]
            /\ UNCHANGED <<accepted, stored>>
            => Store!Next
  BY Zenon DEF Store!Next, Store!Gather, Store!Skip, Store!StoreBatch, Store!LoseBatch,
         Batch, Committed

\* Every step of the writer is a step of BatchStore or a stutter.
LEMMA StoreStep ==
  ASSUME Inv, [Next]_vars
  PROVE  [Store!Next]_(Store!vars)
<1> USE DEF Inv
<1>1. CASE PersistToDB /\ closer # "closed"
  BY <1>1 DEF PersistToDB, dbVars, Store!Next, Store!Accept
<1>2. ASSUME UNCHANGED <<accepted, Batch, stored, lost, ignored>>
      PROVE  UNCHANGED Store!vars
  BY <1>2, Zenon DEF Store!vars, Batch
<1>3. ASSUME NEW i \in Persisters, PersisterStep(i)
      PROVE  [Store!Next]_(Store!vars)
  <2>0. persister \in [Persisters -> PersisterStates] /\ persister[i] \in PersisterStates
    BY DEF TypeOK
  <2>1. \A j \in Persisters : j # i => persister'[j].items = persister[j].items
    BY <1>3, <2>0, Zenon DEF PersisterStep, LaunchPersister, LoopHead, PollContext,
       PollDone, PollDefault, Take, TakeNil, Ticker, Flush, CommitBatch, BatchError,
       CommitUnknown, QueryError, Retry, CleanBatch
  <2>2. /\ Batch[i] = persister[i].items
        /\ Store!Unwritten(i) = persister[i].items \ InTables
    BY StoreView
  <2>3. persister'[i].items = {} => Batch' = [Batch EXCEPT ![i] = {}]
    BY <2>1, BatchUpdate
  <2>4. persister'[i].items = persister[i].items => Batch' = Batch
    BY <2>1 DEF Batch
  <2>5. ASSUME NEW k \in Weights, Take(i, k)
        PROVE  Store!Next
    <3>1. persistC # <<>> /\ persistC \in Seq(1..accepted)
      BY <2>5 DEF Take, TypeOK
    <3>2. Head(persistC) \in Store!Pending
      <4>1. Head(persistC) = persistC[1] /\ 1 \in 1..Len(persistC)
        BY <3>1
      <4> QED
        BY <4>1, StoreView DEF Queued
    <3>3. persister'[i].items = IF k = 0 THEN persister[i].items
                                ELSE persister[i].items \cup {Head(persistC)}
      BY <2>0, <2>5 DEF Take, PersisterStates
    <3>4. CASE k = 0
      <4>1. /\ (lost \cup ignored)' = (lost \cup ignored) \cup {Head(persistC)}
            /\ UNCHANGED <<accepted, stored>>
        BY <2>5, <3>4 DEF Take
      <4> QED
        BY <2>4, <3>2, <3>3, <3>4, <4>1, StoreActions
    <3>5. CASE k # 0
      <4>1. persister[i].items \cap InTables = {}
        BY <2>5 DEF Take, ItemsAccounted
      <4>2. Store!Unwritten(i) = Batch[i]
        BY <2>2, <4>1
      <4>3. Batch' = [Batch EXCEPT ![i] = Batch[i] \cup {Head(persistC)}]
        BY <2>1, <2>2, <3>3, <3>5, BatchUpdate
      <4>4. UNCHANGED <<accepted, stored, lost, ignored>>
        BY <2>5, <3>5 DEF Take
      <4> QED
        BY <3>2, <4>2, <4>3, <4>4, StoreActions
    <3> QED
      BY <3>4, <3>5
  <2>6. CASE \/ LaunchPersister(i) \/ PollContext(i) \/ PollDone(i) \/ PollDefault(i)
             \/ TakeNil(i) \/ Ticker(i)
             \/ LoopHead(i) /\ ~(persister[i].ready /\ persistC = <<>>)
    <3>1. persister'[i].items = persister[i].items
      BY <2>0, <2>6 DEF LaunchPersister, PollContext, PollDone, PollDefault, TakeNil,
                        Ticker, LoopHead, PersisterStates
    <3>2. UNCHANGED <<accepted, stored, lost, ignored>>
      BY <2>6 DEF LaunchPersister, PollContext, PollDone, PollDefault, TakeNil,
                  Ticker, LoopHead, dbVars
    <3> QED
      BY <1>2, <2>4, <3>1, <3>2
  <2>7. ASSUME Committed(persister[i].items),
               persister'[i].items \in {{}, persister[i].items},
               UNCHANGED <<accepted, lost, ignored>>
        PROVE  Store!Next
    <3>1. ASSUME NEW n \in persister[i].items PROVE stored[n] < MaxRetries + 1
      <4>1. n \in 1..MaxItems /\ stored[n] \in Nat /\ persister[i].tries \in 0..MaxRetries
        BY PersisterFields, PersisterAssumption DEF TypeOK
      <4> QED
        BY <4>1, PersisterAssumption DEF WritesBounded
    <3> QED
      BY <2>2, <2>3, <2>4, <2>7, <3>1, StoreActions
  <2>8. ASSUME lost' = lost \cup (persister[i].items \ InTables),
               persister'[i].items = {}, UNCHANGED <<accepted, stored, ignored>>
        PROVE  Store!Next
    <3>1. (lost \cup ignored)' = (lost \cup ignored) \cup Store!Unwritten(i)
      BY <2>2, <2>8
    <3> QED
      BY <2>3, <2>8, <3>1, StoreActions
  <2>9. CASE LoopHead(i) /\ persister[i].ready /\ persistC = <<>>
    <3>1. persister[i].items = persister[i].items \ InTables
      BY <2>9 DEF LoopHead, ItemsAccounted
    <3>2. persister'[i].items = {}
      BY <2>0, <2>9 DEF LoopHead, EmptyAt
    <3> QED
      BY <2>8, <2>9, <3>1, <3>2 DEF LoopHead
  <2>10. CASE Flush(i)
    <3>1. CleanBatch(i) => persister'[i].items = {}
      BY <2>0 DEF CleanBatch, PersisterStates
    <3>2. persister' = [persister EXCEPT ![i].tries = @ + 1] =>
            persister'[i].items = persister[i].items
      BY <2>0 DEF PersisterStates
    <3>3. CASE CommitBatch(i) \/ CommitUnknown(i)
      BY <2>7, <3>1, <3>2, <3>3 DEF CommitBatch, CommitUnknown, Retry
    <3>4. CASE QueryError(i)
      BY <2>8, <3>1, <3>4 DEF QueryError
    <3>5. CASE BatchError(i) /\ GivenUp(i)
      BY <2>8, <3>1, <3>5 DEF BatchError, Retry
    <3>6. CASE BatchError(i) /\ ~GivenUp(i)
      BY <1>2, <2>4, <3>2, <3>6 DEF BatchError, Retry
    <3> QED
      BY <2>10, <3>3, <3>4, <3>5, <3>6 DEF Flush
  <2> QED
    BY <1>3, <2>5, <2>6, <2>9, <2>10 DEF PersisterStep
<1>4. CASE (PersistToDB /\ closer = "closed") \/ CloseSend \/ CloseChannel \/ Cancel
  <2>1. UNCHANGED <<accepted, persister, stored, lost, ignored>>
    BY <1>4 DEF PersistToDB, CloseSend, CloseChannel, Cancel, dbVars
  <2> QED
    BY <1>2, <2>1 DEF Batch
<1>5. CASE UNCHANGED vars
  <2>1. UNCHANGED <<accepted, persister, stored, lost, ignored>>
    BY <1>5 DEF vars, dbVars
  <2> QED
    BY <1>2, <2>1 DEF Batch
<1> QED
  BY <1>1, <1>3, <1>4, <1>5 DEF Next, Finished

\* The asynchronous writer implements BatchStore: what one persister has gathered is
\* written by one transaction or lost as a whole, for any number of persisters, any
\* batch size and any faults (persistBatch, PersistBatch, launchPersister).
THEOREM Implements == Spec => WholeBatches
<1>1. Init => Store!Init
  <2> SUFFICES ASSUME Init PROVE Store!Init
    OBVIOUS
  <2>1. Batch = [i \in Persisters |-> {}]
    BY DEF Init, EmptyAt, Batch
  <2> QED
    BY <2>1 DEF Init, Store!Init, Batch
<1>2. Inv /\ [Next]_vars => [Store!Next]_(Store!vars)
  BY StoreStep
<1> QED
  BY <1>1, <1>2, InvHolds, PTL DEF Spec, WholeBatches, Store!Spec

-----------------------------------------------------------------------------
(* What a shutdown drops.  doneC hands its message to one persister, which *)
(* leaves its loop with a batch that was not full.                         *)

BatchFits(r) ==
  /\ IsFiniteSet(r.items)
  /\ Cardinality(r.items) <= r.size
  /\ r.pc # "flush" => r.size < batchSize

\* The inductive invariant behind LossBounded.
LossInv ==
  /\ \A i \in Persisters : BatchFits(persister[i])
  /\ ~ctxDone =>
       /\ IsFiniteSet(dropped) /\ Cardinality(dropped) < batchSize
       /\ closer \in {"open", "send"} =>
            dropped = {} /\ \A i \in Persisters : ~persister[i].ready
       /\ dropped # {} => \A i \in Persisters : ~persister[i].ready
       /\ \A i, j \in Persisters : persister[i].ready /\ persister[j].ready => i = j

\* An empty batch is below its limit.
LEMMA EmptyFits ==
  /\ IsFiniteSet({}) /\ Cardinality({}) = 0 /\ 0 < batchSize
  /\ \A pc : BatchFits(EmptyAt(pc)) /\ ~EmptyAt(pc).ready
<1>1. IsFiniteSet({}) /\ Cardinality({}) = 0 /\ 0 < batchSize
  BY FS_EmptySet, PersisterAssumption
<1>. QED
  BY <1>1 DEF BatchFits, EmptyAt

\* A batch grows by one item for at least one query, and is flushed once it is full.
LEMMA TakeFits ==
  ASSUME TypeOK, NEW i \in Persisters, BatchFits(persister[i]), NEW k \in Weights, Take(i, k)
  PROVE  BatchFits(persister'[i]) /\ persister'[i].ready = persister[i].ready
<1>. DEFINE r == persister[i]
            n == Head(persistC)
<1>1. r \in PersisterStates /\ r.size \in Nat /\ k \in Nat
  BY PersisterFields, PersisterAssumption DEF TypeOK
<1>2. /\ persister'[i].items = IF k = 0 THEN r.items ELSE r.items \cup {n}
      /\ persister'[i].size = r.size + k
      /\ persister'[i].pc = IF IsReadyToPersist(r.size + k) THEN "flush" ELSE "loop"
      /\ persister'[i].ready = r.ready
  BY <1>1 DEF Take, TypeOK, PersisterStates
<1>3. IsFiniteSet(r.items) /\ Cardinality(r.items) \in Nat /\ Cardinality(r.items) <= r.size
  BY FS_CardinalityType DEF BatchFits
<1>. HIDE DEF r, n
<1>4. IsFiniteSet(persister'[i].items) /\ Cardinality(persister'[i].items) <= r.size + k
  <2>1. CASE k = 0
    BY <1>1, <1>2, <1>3, <2>1
  <2>2. CASE k # 0
    <3>1. /\ IsFiniteSet(r.items \cup {n})
          /\ Cardinality(r.items \cup {n}) = Cardinality(r.items) \/
             Cardinality(r.items \cup {n}) = Cardinality(r.items) + 1
      BY <1>3, FS_AddElement
    <3>. QED
      BY <1>1, <1>2, <1>3, <2>2, <3>1
  <2>. QED
    BY <2>1, <2>2
<1>5. persister'[i].pc # "flush" => persister'[i].size < batchSize
  BY <1>1, <1>2, PersisterAssumption DEF IsReadyToPersist
<1>. QED
  BY <1>2, <1>4, <1>5 DEF BatchFits, r

\* A step of a persister within its loop keeps its batch in its bounds; only the first
\* select makes it ready.
LEMMA StepFits ==
  ASSUME TypeOK, NEW i \in Persisters, BatchFits(persister[i]), PersisterStep(i)
  PROVE  /\ BatchFits(persister'[i])
         /\ \A j \in Persisters : j # i => persister'[j] = persister[j]
         /\ persister'[i].ready => persister[i].ready \/ PollContext(i) \/ PollDone(i)
<1>0. persister \in [Persisters -> PersisterStates] /\ persister[i] \in PersisterStates
  BY DEF TypeOK
<1>1. \A j \in Persisters : j # i => persister'[j] = persister[j]
  BY <1>0, Zenon DEF PersisterStep, LaunchPersister, LoopHead, PollContext, PollDone, PollDefault,
     Take, TakeNil, Ticker, Flush, CommitBatch, BatchError, CommitUnknown, QueryError,
     Retry, CleanBatch
<1>2. CASE LaunchPersister(i) \/ TakeNil(i) \/ PollDefault(i) \/ Ticker(i)
  <2>1. /\ persister[i].pc # "flush"
        /\ persister'[i].items = persister[i].items
        /\ persister'[i].size = persister[i].size
        /\ persister'[i].ready = persister[i].ready
    BY <1>0, <1>2 DEF LaunchPersister, TakeNil, PollDefault, Ticker, PersisterStates
  <2>. QED
    BY <1>1, <2>1 DEF BatchFits
<1>3. CASE LoopHead(i)
  <2>1. CASE persister[i].ready /\ persistC = <<>>
    <3>1. persister'[i] = EmptyAt("done")
      BY <1>0, <1>3, <2>1 DEF LoopHead
    <3>. QED
      BY <1>1, <3>1, EmptyFits
  <2>2. CASE ~(persister[i].ready /\ persistC = <<>>)
    <3>1. /\ persister[i].pc = "loop"
          /\ persister'[i].items = persister[i].items
          /\ persister'[i].size = persister[i].size
          /\ persister'[i].ready = persister[i].ready
      BY <1>0, <1>3, <2>2 DEF LoopHead, PersisterStates
    <3>. QED
      BY <1>1, <3>1 DEF BatchFits
  <2>. QED
    BY <2>1, <2>2
<1>4. CASE PollContext(i) \/ PollDone(i)
  <2>1. /\ persister[i].pc = "poll"
        /\ persister'[i].items = persister[i].items
        /\ persister'[i].size = persister[i].size
    BY <1>0, <1>4 DEF PollContext, PollDone, PersisterStates
  <2>. QED
    BY <1>1, <1>4, <2>1 DEF BatchFits
<1>5. CASE \E k \in Weights : Take(i, k)
  BY <1>1, <1>5, TakeFits
<1>6. CASE Flush(i)
  <2>1. CASE CleanBatch(i)
    <3>1. persister'[i].items = {} /\ persister'[i].size = 0
          /\ persister'[i].ready = persister[i].ready
      BY <1>0, <2>1 DEF CleanBatch, PersisterStates
    <3>. QED
      BY <1>1, <3>1, EmptyFits DEF BatchFits
  <2>2. CASE Retry(i) /\ ~CleanBatch(i)
    <3>1. /\ persister'[i].items = persister[i].items
          /\ persister'[i].size = persister[i].size
          /\ persister'[i].ready = persister[i].ready
          /\ persister'[i].pc = persister[i].pc
      BY <1>0, <2>2 DEF Retry, PersisterStates
    <3>. QED
      BY <1>1, <3>1 DEF BatchFits
  <2>. QED
    BY <1>6, <2>1, <2>2 DEF Flush, CommitBatch, BatchError, CommitUnknown, QueryError
<1>. QED
  BY <1>2, <1>3, <1>4, <1>5, <1>6 DEF PersisterStep

\* Every step keeps the bound on what is dropped.
LEMMA LossStep == TypeOK /\ LossInv /\ [Next]_vars => LossInv'
<1>. SUFFICES ASSUME TypeOK, LossInv, [Next]_vars PROVE LossInv'
  OBVIOUS
<1>. DEFINE Once ==
       /\ IsFiniteSet(dropped) /\ Cardinality(dropped) < batchSize
       /\ closer \in {"open", "send"} =>
            dropped = {} /\ \A i \in Persisters : ~persister[i].ready
       /\ dropped # {} => \A i \in Persisters : ~persister[i].ready
       /\ \A i, j \in Persisters : persister[i].ready /\ persister[j].ready => i = j
<1>1. ASSUME NEW i \in Persisters, PersisterStep(i) PROVE LossInv'
  <2>0. BatchFits(persister[i])
    BY DEF LossInv
  <2>1. \A j \in Persisters : BatchFits(persister[j])'
    BY <1>1, <2>0, StepFits DEF LossInv, BatchFits
  <2>2. ASSUME ~ctxDone' PROVE Once'
    <3>0. ~ctxDone /\ Once
      <4>1. ctxDone' = ctxDone
        BY <1>1, Zenon DEF PersisterStep, LaunchPersister, LoopHead, PollContext, PollDone,
           PollDefault, Take, TakeNil, Ticker, Flush, CommitBatch, BatchError,
           CommitUnknown, QueryError, procVars
      <4>. QED
        BY <2>2, <4>1 DEF LossInv
    <3>1. CASE PollDone(i)
      <4>1. /\ closer = "send" /\ closer' = "wait" /\ dropped' = dropped
        BY <3>1 DEF PollDone, dbVars
      <4>2. dropped = {} /\ \A j \in Persisters : ~persister[j].ready
        BY <3>0, <4>1
      <4>3. \A j \in Persisters : persister'[j].ready => j = i
        BY <1>1, <2>0, <4>2, StepFits
      <4>. QED
        BY <3>0, <4>1, <4>2, <4>3
    <3>2. CASE LoopHead(i) /\ persister[i].ready /\ persistC = <<>>
      <4>1. /\ dropped' = dropped \cup persister[i].items
            /\ persister[i].pc = "loop"
            /\ UNCHANGED closer
            /\ persister'[i] = EmptyAt("done")
        BY <3>2 DEF LoopHead, procVars, TypeOK
      <4>2. dropped = {} /\ closer \notin {"open", "send"}
        BY <3>0, <3>2
      <4>3. persister[i].size \in Nat /\ persister[i].size < batchSize
        BY <2>0, <4>1, PersisterFields DEF BatchFits
      <4>4. IsFiniteSet(dropped') /\ Cardinality(dropped') < batchSize
        <5>1. dropped' = persister[i].items
          BY <4>1, <4>2
        <5>2. /\ IsFiniteSet(persister[i].items)
              /\ Cardinality(persister[i].items) <= persister[i].size
              /\ Cardinality(persister[i].items) \in Nat
          BY <2>0, FS_CardinalityType DEF BatchFits
        <5>. QED
          BY <4>3, <5>1, <5>2, PersisterAssumption
      <4>5. \A j \in Persisters : ~persister'[j].ready
        BY <1>1, <2>0, <3>0, <3>2, <4>1, StepFits, EmptyFits
      <4>. QED
        BY <4>1, <4>2, <4>4, <4>5
    <3>3. CASE ~PollDone(i) /\ ~(LoopHead(i) /\ persister[i].ready /\ persistC = <<>>)
      <4>1. UNCHANGED <<dropped, closer>>
        BY <1>1, <3>3, Zenon DEF PersisterStep, LaunchPersister, LoopHead, PollContext, PollDefault,
           Take, TakeNil, Ticker, Flush, CommitBatch, BatchError, CommitUnknown, QueryError,
           dbVars, procVars
      <4>2. ~PollContext(i)
        BY <3>0 DEF PollContext
      <4>3. \A j \in Persisters : persister'[j].ready => persister[j].ready
        BY <1>1, <2>0, <3>3, <4>2, StepFits
      <4>. QED
        BY <3>0, <4>1, <4>3
    <3>. QED
      BY <3>1, <3>2, <3>3
  <2>. QED
    BY <2>1, <2>2 DEF LossInv
<1>2. CASE PersistToDB \/ UNCHANGED vars
  <2>1. UNCHANGED <<persister, dropped, closer, ctxDone>>
    BY <1>2 DEF PersistToDB, vars, dbVars, procVars
  <2>. QED
    BY <2>1 DEF LossInv, BatchFits
<1>3. CASE CloseSend \/ CloseChannel
  <2>1. UNCHANGED <<persister, dropped, ctxDone>>
    BY <1>3 DEF CloseSend, CloseChannel, dbVars
  <2>2. closer' \in {"open", "send"} => closer \in {"open", "send"}
    BY <1>3 DEF CloseSend, CloseChannel
  <2>. QED
    BY <2>1, <2>2 DEF LossInv, BatchFits
<1>4. CASE Cancel
  BY <1>4 DEF Cancel, LossInv, BatchFits, dbVars
<1>. QED
  BY <1>1, <1>2, <1>3, <1>4 DEF Next, Finished

\* Whatever the faults and the weights of the items, Close drops less than one batch
\* as long as the context is not cancelled (launchPersister, Close).
THEOREM LossLimited == Spec => []LossBounded
<1>1. Init => LossInv
  <2>. SUFFICES ASSUME Init PROVE LossInv
    OBVIOUS
  <2>1. \A i \in Persisters : BatchFits(persister[i]) /\ ~persister[i].ready
    BY EmptyFits DEF Init
  <2>2. dropped = {} /\ IsFiniteSet(dropped) /\ Cardinality(dropped) < batchSize
    BY EmptyFits DEF Init
  <2>. QED
    BY <2>1, <2>2 DEF LossInv
<1>2. LossInv => LossBounded
  BY DEF LossInv, LossBounded
<1>3. Inv => TypeOK
  BY DEF Inv
<1>. QED
  BY <1>1, <1>2, <1>3, InvHolds, LossStep, PTL DEF Spec
=============================================================================
