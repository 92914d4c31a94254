---------------------------- MODULE DBPersister ----------------------------
(***************************************************************************)
(* The asynchronous writer of the database client:                         *)
(*   src/pkg/db/postgresql/server.go   (persistC, launchPersister, Close)  *)
(*   src/pkg/db/postgresql/batch.go    (QueryBatch)                        *)
(*                                                                         *)
(* Producers put items on one bounded channel, persistC.  Each persister   *)
(* turns the items it receives into queries of its own batch and flushes   *)
(* the batch in one transaction when it is full or when a ticker fires.    *)
(* Close tells a persister to finish and waits for all of them.            *)
(*                                                                         *)
(* Items are numbered in the order they were accepted.  A batch is the set *)
(* of its items and its number of queries: the queries of one batch are in *)
(* the order of their items.  What the queries do to the tables is         *)
(* abstracted to the number of times they have been committed: the tables  *)
(* with a serial key get one row for each (InsertNewConnEvent).            *)
(*                                                                         *)
(* Postgres and the pgx pool are external; they succeed or show one of the *)
(* Faults.  The daily backup of the active peers is left out: it reads and *)
(* writes tables of its own.                                               *)
(***************************************************************************)
EXTENDS Naturals, Sequences, FiniteSets

CONSTANTS
  Persisters,   \* launched by NewDBClient
  batchSize,    \* queries that fill a batch; also the capacity of persistC
  MaxRetries,   \* a batch is tried MaxRetries + 1 times
  Weights,      \* how many queries an item may need; none if not recognised
  Faults,       \* bound: the faults the database may show in a run
  MaxItems,     \* bound: the model's producers stop here
  CanClose,     \* bound: is Close called in the run?
  CanCancel     \* bound: is the context cancelled in the run?

ASSUME PersisterAssumption ==
  /\ batchSize \in Nat \ {0}
  /\ MaxRetries \in Nat
  /\ Weights \subseteq Nat
  /\ Faults \subseteq {"error", "unknown", "query"}
  /\ MaxItems \in Nat
  /\ CanClose \in BOOLEAN
  /\ CanCancel \in BOOLEAN

VARIABLES
  accepted,    \* number of items PersistToDB has accepted
  persistC,    \* the channel
  persister,   \* [pc, ready, items, size, tries]: ready is readyToFinish
  closer,      \* where Close is
  ctxDone,     \* has the context been cancelled?
  stored,      \* for each item, how often its queries have been committed
  lost,        \* items that were given up
  dropped,     \* those of them that a persister left unsent when it finished
  ignored,     \* items that need no query
  panic        \* has a producer sent on the closed channel?

dbVars   == <<stored, lost, dropped, ignored>>
procVars == <<closer, ctxDone, panic>>
vars == <<accepted, persistC, persister, dbVars, procVars>>

EmptyAt(pc) == [pc |-> pc, ready |-> FALSE, items |-> {}, size |-> 0, tries |-> 0]

Init ==
  /\ accepted = 0
  /\ persistC = <<>>
  /\ persister = [i \in Persisters |-> EmptyAt("new")]
  /\ closer = "open"
  /\ ctxDone = FALSE
  /\ stored = [n \in 1..MaxItems |-> 0]
  /\ lost = {}
  /\ dropped = {}
  /\ ignored = {}
  /\ panic = FALSE

-----------------------------------------------------------------------------
(* The producers.                                                          *)

PersistToDB ==
  /\ accepted < MaxItems
  /\ IF closer = "closed"
     THEN /\ panic' = TRUE
          /\ UNCHANGED <<accepted, persistC>>
     ELSE /\ Len(persistC) < batchSize
          /\ accepted' = accepted + 1
          /\ persistC' = Append(persistC, accepted + 1)
          /\ UNCHANGED panic
  /\ UNCHANGED <<persister, dbVars, closer, ctxDone>>

-----------------------------------------------------------------------------
(* A persister.                                                            *)

\* The wait group learns of a persister when its goroutine starts.
LaunchPersister(i) ==
  /\ persister[i].pc = "new"
  /\ persister' = [persister EXCEPT ![i].pc = "loop"]
  /\ UNCHANGED <<accepted, persistC, dbVars, procVars>>

\* The head of persistingLoop.  A persister that leaves it takes its batch along.
LoopHead(i) ==
  /\ persister[i].pc = "loop"
  /\ IF persister[i].ready /\ persistC = <<>>
     THEN /\ persister' = [persister EXCEPT ![i] = EmptyAt("done")]
          /\ lost' = lost \cup persister[i].items
          /\ dropped' = dropped \cup persister[i].items
     ELSE /\ persister' = [persister EXCEPT ![i].pc = "poll"]
          /\ UNCHANGED <<lost, dropped>>
  /\ UNCHANGED <<accepted, persistC, stored, ignored, procVars>>

\* The first select.  doneC is not buffered: its receiver meets the sender.
PollContext(i) ==
  /\ persister[i].pc = "poll"
  /\ ctxDone
  /\ persister' = [persister EXCEPT ![i].pc = "take", ![i].ready = TRUE]
  /\ UNCHANGED <<accepted, persistC, dbVars, procVars>>

PollDone(i) ==
  /\ persister[i].pc = "poll"
  /\ closer = "send"
  /\ closer' = "wait"
  /\ persister' = [persister EXCEPT ![i].pc = "take", ![i].ready = TRUE]
  /\ UNCHANGED <<accepted, persistC, dbVars, ctxDone, panic>>

PollDefault(i) ==
  /\ persister[i].pc = "poll"
  /\ ~ctxDone
  /\ closer # "send"
  /\ persister' = [persister EXCEPT ![i].pc = "take"]
  /\ UNCHANGED <<accepted, persistC, dbVars, procVars>>

\* Mutant: a batch that is just full is not seen as ready.
IsReadyToPersistStrict(size) == size > batchSize

IsReadyToPersist(size) == size >= batchSize

\* The second select: an item, with the k queries it needs,
Take(i, k) ==
  LET n    == Head(persistC)
      size == persister[i].size + k
  IN  /\ persister[i].pc = "take"
      /\ persistC # <<>>
      /\ persistC' = Tail(persistC)
      /\ persister' = [persister EXCEPT
                         ![i].pc = IF IsReadyToPersist(size) THEN "flush" ELSE "loop",
                         ![i].items = IF k = 0 THEN @ ELSE @ \cup {n},
                         ![i].size = size]
      /\ ignored' = IF k = 0 THEN ignored \cup {n} ELSE ignored
      /\ UNCHANGED <<accepted, stored, lost, dropped, procVars>>

\* or nil, from a closed channel (an unrecognized type of object),
TakeNil(i) ==
  /\ persister[i].pc = "take"
  /\ closer = "closed"
  /\ persistC = <<>>
  /\ persister' = [persister EXCEPT ![i].pc = "loop"]
  /\ UNCHANGED <<accepted, persistC, dbVars, procVars>>

\* Mutant: the ticker does not flush.
TickerIgnored(i) ==
  /\ persister[i].pc = "take"
  /\ persister' = [persister EXCEPT ![i].pc = "loop"]
  /\ UNCHANGED <<accepted, persistC, dbVars, procVars>>

\* or the ticker.  An empty batch is not sent at all.
Ticker(i) ==
  /\ persister[i].pc = "take"
  /\ persister' = [persister EXCEPT
                     ![i].pc = IF persister[i].size = 0 THEN "loop" ELSE "flush"]
  /\ UNCHANGED <<accepted, persistC, dbVars, procVars>>

-----------------------------------------------------------------------------
(* PersistBatch: one try of persistBatch per step.                         *)

\* Mutant: the batch is not replaced after it has been sent.
CleanBatchKept(i) ==
  persister' = [persister EXCEPT ![i].pc = "loop", ![i].tries = 0]

CleanBatch(i) ==
  persister' = [persister EXCEPT ![i].pc = "loop", ![i].items = {},
                                 ![i].size = 0, ![i].tries = 0]

\* The pool gives a connection as long as neither the context nor the pool is
\* closed.
Reachable == ~ctxDone /\ closer # "closed"

\* The items whose queries are in the tables.
InTables == {n \in 1..MaxItems : stored[n] > 0}

\* A transaction of the queries of the items of S has been committed.
Committed(S) ==
  stored' = [n \in 1..MaxItems |-> IF n \in S THEN stored[n] + 1 ELSE stored[n]]

CommitBatch(i) ==
  /\ persister[i].pc = "flush"
  /\ Reachable
  /\ Committed(persister[i].items)
  /\ CleanBatch(i)
  /\ UNCHANGED <<accepted, persistC, lost, dropped, ignored, procVars>>

\* Mutant: one more try than MaxRetries allows.
GivenUpLate(i) == persister[i].tries > MaxRetries

GivenUp(i) == persister[i].tries >= MaxRetries

\* After an error the batch is tried again, and cleaned after the last try.
Retry(i) ==
  IF GivenUp(i)
  THEN CleanBatch(i)
  ELSE persister' = [persister EXCEPT ![i].tries = @ + 1]

\* Begin, or Commit, returns an error and nothing was written.
BatchError(i) ==
  /\ persister[i].pc = "flush"
  /\ "error" \in Faults \/ ~Reachable
  /\ Retry(i)
  /\ lost' = IF GivenUp(i) THEN lost \cup (persister[i].items \ InTables) ELSE lost
  /\ UNCHANGED <<accepted, persistC, stored, dropped, ignored, procVars>>

\* Commit returns an error, but the server had committed.
CommitUnknown(i) ==
  /\ persister[i].pc = "flush"
  /\ "unknown" \in Faults
  /\ Reachable
  /\ Committed(persister[i].items)
  /\ Retry(i)
  /\ UNCHANGED <<accepted, persistC, lost, dropped, ignored, procVars>>

\* Mutant: the queries before the bad one are committed.
QueryErrorPartial(i) ==
  /\ persister[i].pc = "flush"
  /\ "query" \in Faults
  /\ Reachable
  /\ \E S \in SUBSET persister[i].items :
       /\ Committed(S)
       /\ lost' = lost \cup (persister[i].items \ (InTables \cup S))
  /\ CleanBatch(i)
  /\ UNCHANGED <<accepted, persistC, dropped, ignored, procVars>>

\* A query fails: the commit of the failed transaction rolls it back, and the
\* error returned is the one of Begin, which is nil.  No other try is made.
QueryError(i) ==
  /\ persister[i].pc = "flush"
  /\ "query" \in Faults
  /\ Reachable
  /\ lost' = lost \cup (persister[i].items \ InTables)
  /\ CleanBatch(i)
  /\ UNCHANGED <<accepted, persistC, stored, dropped, ignored, procVars>>

-----------------------------------------------------------------------------
(* Close, and the context of the crawler.                                  *)

CloseSend ==
  /\ CanClose
  /\ closer = "open"
  /\ closer' = "send"
  /\ UNCHANGED <<accepted, persistC, persister, dbVars, ctxDone, panic>>

\* wg.Wait returns; then the pool and the channel are closed.
CloseChannel ==
  /\ closer = "wait"
  /\ \A i \in Persisters : persister[i].pc \in {"new", "done"}
  /\ closer' = "closed"
  /\ UNCHANGED <<accepted, persistC, persister, dbVars, ctxDone, panic>>

Cancel ==
  /\ CanCancel
  /\ ~ctxDone
  /\ ctxDone' = TRUE
  /\ UNCHANGED <<accepted, persistC, persister, dbVars, closer, panic>>

\* The producers have nothing more to say and every persister has finished, or
\* the process has died.
Finished ==
  /\ panic \/ \A i \in Persisters : persister[i].pc = "done"
  /\ UNCHANGED vars

-----------------------------------------------------------------------------

Flush(i) == CommitBatch(i) \/ BatchError(i) \/ CommitUnknown(i) \/ QueryError(i)

PersisterStep(i) ==
  \/ LaunchPersister(i) \/ LoopHead(i)
  \/ PollContext(i) \/ PollDone(i) \/ PollDefault(i)
  \/ \E k \in Weights : Take(i, k)
  \/ TakeNil(i) \/ Ticker(i)
  \/ Flush(i)

Next ==
  \/ /\ ~panic
     /\ \/ PersistToDB
        \/ \E i \in Persisters : PersisterStep(i)
        \/ CloseSend \/ CloseChannel \/ Cancel
  \/ Finished

Spec == Init /\ [][Next]_vars

\* A persister goes on; its second select picks at random, so neither the
\* channel nor the ticker is passed over for ever.
Fairness ==
  /\ \A i \in Persisters :
       /\ WF_vars(~panic /\ PersisterStep(i))
       /\ SF_vars(~panic /\ Ticker(i))
       /\ SF_vars(~panic /\ \E k \in Weights : Take(i, k))
  /\ WF_vars(~panic /\ CloseChannel)

FairSpec == Spec /\ Fairness

-----------------------------------------------------------------------------
(* Properties.                                                             *)

PersisterStates ==
  [pc : {"new", "loop", "poll", "take", "flush", "done"}, ready : BOOLEAN,
   items : SUBSET (1..accepted), size : Nat, tries : 0..MaxRetries]

TypeOK ==
  /\ accepted \in 0..MaxItems
  /\ persistC \in Seq(1..accepted)
  /\ persister \in [Persisters -> PersisterStates]
  /\ closer \in {"open", "send", "wait", "closed"}
  /\ ctxDone \in BOOLEAN
  /\ stored \in [1..MaxItems -> Nat]
  /\ lost \subseteq 1..accepted
  /\ dropped \subseteq lost
  /\ ignored \subseteq 1..accepted
  /\ panic \in BOOLEAN

Queued == {persistC[j] : j \in 1..Len(persistC)}

Batched == UNION {persister[i].items : i \in Persisters}

\* Every accepted item is somewhere, and in one place: on the channel, in the
\* batch of one persister, ignored, stored or lost.  Only an item whose commit
\* ended in an unknown state is both stored and still in a batch.
ItemsAccounted ==
  /\ 1..accepted = Queued \cup Batched \cup InTables \cup lost \cup ignored
  /\ Queued \cap (Batched \cup InTables \cup lost \cup ignored) = {}
  /\ \A i, j \in Persisters :
       i # j => persister[i].items \cap persister[j].items = {}
  /\ Batched \cap (lost \cup ignored) = {}
  /\ InTables \cap (lost \cup ignored) = {}
  /\ lost \cap ignored = {}
  /\ \A i \in Persisters : persister[i].items \cap InTables # {} =>
       persister[i].pc = "flush" /\ persister[i].tries > 0

\* What ItemsAccounted rests on: no item is on the channel twice.
QueueDistinct ==
  \A j, k \in 1..Len(persistC) : persistC[j] = persistC[k] => j = k

\* A commit whose answer was lost makes PersistBatch write the same rows again, but
\* only once for each try of the batch: no item is written more than MaxRetries + 1
\* times, and none again once its batch has been cleaned.
WritesBounded ==
  /\ \A n \in 1..MaxItems : stored[n] <= MaxRetries + 1
  /\ \A i \in Persisters : \A n \in persister[i].items :
       stored[n] <= persister[i].tries

\* The inductive invariant of the writer.
Inv ==
  /\ TypeOK
  /\ ItemsAccounted
  /\ QueueDistinct
  /\ WritesBounded

\* Behind the asynchronous writer the tables see whole batches only: what one
\* persister has gathered is written by one transaction or lost as a whole, a batch
\* that is being retried takes no new item, and an item that is in the tables is
\* never lost.
Store == INSTANCE BatchStore WITH
           Writers <- Persisters, Items <- 1..MaxItems, MaxWrites <- MaxRetries + 1,
           batch <- [i \in Persisters |-> persister[i].items],
           lost <- lost \cup ignored

WholeBatches == Store!Spec

\* A shutdown by Close drops less than one batch: unless the context is cancelled,
\* only the persister that received the message of Close leaves with queries unsent.
LossBounded == ~ctxDone => Cardinality(dropped) < batchSize

\* Every accepted item that needs a query gets to the tables, or is given up after
\* faults of the database, unless the crawler is stopped meanwhile: a batch that
\* never fills is flushed by the ticker.
EventuallyStored ==
  \A n \in 1..MaxItems :
    accepted >= n
      ~> \/ n \in InTables \cup ignored \cup lost
         \/ closer # "open"
         \/ ctxDone
=============================================================================
