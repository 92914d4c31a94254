-------------------------- MODULE PruningStrategy --------------------------
(***************************************************************************)
(* The peering service and its pruning strategy:                           *)
(*   src/pkg/peering/pruning_strategy.go   (iterator, recorder, PeerQueue) *)
(*   src/pkg/peering/peering.go            (the dialling workers)          *)
(*                                                                         *)
(* Goroutines                                                              *)
(*   iterator    peerstoreIteratorRoutine: walks the PeerQueue and hands   *)
(*               one peer to the workers for every token it receives       *)
(*   recorder    eventRecorderRoutine: applies the outcome of an attempt   *)
(*               to the PeerQueue and sends it to the database             *)
(*   workers     peeringWorker: ask for a peer (one token), dial it,       *)
(*               report the outcome, ask again                             *)
(*                                                                         *)
(* The steps are cut where another goroutine can get in: at a channel      *)
(* operation and between two critical sections of the PeerQueue lock.      *)
(* The database is external here: a bounded queue of writes (persistC),    *)
(* applied one at a time, in any order because two persisters drain it,    *)
(* and possibly dropped; module DBPersister has the details.               *)
(*                                                                         *)
(* Left out: logging, the Prometheus copies of the distributions, the      *)
(* connection events (module ConnEvents), MinIterTime (5 s, far below the  *)
(* unit of the clock: the wait at the end of an iteration is one step).    *)
(***************************************************************************)
EXTENDS PrunedPeer, Sequences, FiniteSets, Functions

CONSTANTS
  Peers,        \* remote peers
  Workers,      \* the peering workers; both channels have this capacity
  DialErrors,   \* what a failed dial may be classified as
  PersistCap,   \* capacity of the write queue of the database client
  MaxTime,      \* bound: the model stops the clock here
  Discoverable, \* bound: peers that are discovered or identified during the run
  CanCancel,    \* bound: is the shutdown part of the run?
  None          \* no peer

ASSUME StrategyAssumption ==
  /\ IsFiniteSet(Workers)
  /\ NoConnError \notin DialErrors
  /\ PersistCap \in Nat \ {0}
  /\ MaxTime \in Nat
  /\ Discoverable \subseteq Peers
  /\ CanCancel \in BOOLEAN
  /\ None \notin Peers

VARIABLES
  now,             \* the clock
  \* PeerQueue
  peerMap,         \* the known peers: a function from ids to PrunedPeer
  peerList,        \* their ids, in the order they will be attempted
  peerPtr,         \* how far the iterator is in peerList
  \* iterator
  iterPc,
  token,           \* has it taken a token it has not answered yet?
  attemptedPeers,  \* ids handed out in this iteration
  rows,            \* result of GetNonDeprecatedPeers still to be merged
  nextPeer,        \* the id GetNextPeer returned
  \* channels
  nextPeerChan,    \* number of tokens in it
  peerStreamChan,
  closed,          \* have the channels been closed?
  \* workers and recorder
  worker,          \* [Workers -> [pc, peer, err]]
  recorder,        \* [pc, peer, err, kind]
  \* database
  persistC,        \* writes accepted by PersistToDB, not yet applied
  db,              \* peer_info: absent, active or deprecated
  \* process
  ctxDone,         \* has the context been cancelled?
  panic            \* has a goroutine panicked (and the process died)?

queueVars  == <<peerMap, peerList, peerPtr>>
iterVars   == <<iterPc, token, attemptedPeers, rows, nextPeer>>
chanVars   == <<nextPeerChan, peerStreamChan, closed>>
dbVars     == <<persistC, db>>
procVars   == <<ctxDone, panic>>
vars == <<now, queueVars, iterVars, chanVars, worker, recorder, dbVars, procVars>>

-----------------------------------------------------------------------------
(* Writes to peer_info.                                                    *)

Kinds == {"upsert", "positive", "negative", "deprecate"}
Writes == [kind : Kinds, peer : Peers]

\* UpdateConnAttempt ignores Deprecable when the attempt was positive.
AttemptKind(err, deprecable) ==
  IF err = NoConnError THEN "positive"
  ELSE IF deprecable THEN "deprecate" ELSE "negative"

\* UpsertHostInfo inserts or revives; UpdateConnAttempt only touches a row
\* that exists, and sets its deprecated flag whatever it was.
Apply(write, row) ==
  CASE write.kind = "upsert" -> "active"
    [] row = "absent" -> "absent"
    [] write.kind = "deprecate" -> "deprecated"
    [] OTHER -> "active"

-----------------------------------------------------------------------------

Ready == [pc |-> "next", peer |-> None, err |-> NoConnError]

Idle == [pc |-> "idle", peer |-> None, err |-> NoConnError, kind |-> "upsert"]

Init ==
  /\ now = 0
  /\ peerMap = [p \in {} |-> NewPrunedPeer("Minus1", 0)]
  /\ peerList = <<>>
  /\ peerPtr = 0
  /\ iterPc = "fetch"
  /\ token = FALSE
  /\ attemptedPeers = {}
  /\ rows = {}
  /\ nextPeer = None
  /\ nextPeerChan = 0
  /\ peerStreamChan = <<>>
  /\ closed = FALSE
  /\ worker = [w \in Workers |-> Ready]
  /\ recorder = Idle
  /\ persistC = <<>>
  /\ db \in [Peers -> {"absent", "active", "deprecated"}]
  /\ ctxDone = FALSE
  /\ panic = FALSE

\* Mutant: channels one slot short of the number of workers.
CapOneShort == Cardinality(Workers) - 1

Cap == Cardinality(Workers)

-----------------------------------------------------------------------------
(* PeerQueue.                                                              *)

ValidNextPeer ==
  /\ peerPtr < Len(peerList)
  /\ IsReadyForConnection(peerMap[peerList[peerPtr + 1]], now)

Reordered(list) ==
  {[i \in 1..Len(list) |-> list[f[i]]] : f \in Bijection(1..Len(list), 1..Len(list))}

InOrder(list) ==
  \A i, j \in 1..Len(list) :
    i < j => NextConnection(peerMap[list[i]]) <= NextConnection(peerMap[list[j]])

\* sort.Sort is not stable: peers due at the same time may come in any order.
\* The recorder writes to a PrunedPeer with no lock; when it does so during the
\* sort, the comparisons contradict each other and the order may be any.
SortedLists ==
  {list \in Reordered(peerList) :
     InOrder(list) \/ recorder.pc \in {"delay", "degree"}}

AddPeer(p) ==
  /\ peerList' = <<p>> \o peerList
  /\ peerMap' = [q \in DOMAIN peerMap \cup {p} |->
                   IF q = p THEN NewPrunedPeer("Minus1", now) ELSE peerMap[q]]

\* append(list[:i], list[i+1:]...)
RemoveAt(list, i) == SubSeq(list, 1, i - 1) \o SubSeq(list, i + 1, Len(list))

IndexOf(p) == CHOOSE i \in 1..Len(peerList) : peerList[i] = p

\* Mutant: only the map forgets the peer.
RemovePeerFromMapOnly(p) ==
  /\ peerMap' = Restrict(peerMap, DOMAIN peerMap \ {p})
  /\ UNCHANGED peerList

\* The pointer of the iterator is left where it is.
RemovePeer(p) ==
  IF p \in DOMAIN peerMap
  THEN /\ peerMap' = Restrict(peerMap, DOMAIN peerMap \ {p})
       /\ peerList' = IF p \in Range(peerList)
                      THEN RemoveAt(peerList, IndexOf(p)) ELSE peerList
  ELSE UNCHANGED <<peerMap, peerList>>

-----------------------------------------------------------------------------
(* The iterator.                                                           *)

\* Mutant: callForPeer is not set after the refresh of the list.
AfterUpdateNoCall == "idle"

AfterUpdate == IF token THEN "call" ELSE "idle"

\* UpdatePeerListFromRemoteDB: the query,
GetNonDeprecatedPeers ==
  /\ iterPc = "fetch"
  /\ rows' = {p \in Peers : db[p] = "active"}
  /\ iterPc' = "merge"
  /\ UNCHANGED <<now, queueVars, token, attemptedPeers, nextPeer, chanVars,
                 worker, recorder, dbVars, procVars>>

\* which may fail: the list is then neither refreshed nor sorted,
GetNonDeprecatedPeersFails ==
  /\ iterPc = "fetch"
  /\ iterPc' = AfterUpdate
  /\ UNCHANGED <<now, queueVars, token, attemptedPeers, rows, nextPeer, chanVars,
                 worker, recorder, dbVars, procVars>>

\* then one row after the other,
MergeRow(p) ==
  /\ iterPc = "merge"
  /\ p \in rows
  /\ rows' = rows \ {p}
  /\ IF p \in DOMAIN peerMap THEN UNCHANGED <<peerList, peerMap>> ELSE AddPeer(p)
  /\ UNCHANGED <<now, peerPtr, iterPc, token, attemptedPeers, nextPeer, chanVars,
                 worker, recorder, dbVars, procVars>>

\* and the sort.
SortPeerList ==
  /\ iterPc = "merge"
  /\ rows = {}
  /\ peerList' \in SortedLists
  /\ iterPc' = AfterUpdate
  /\ UNCHANGED <<now, peerMap, peerPtr, token, attemptedPeers, rows, nextPeer,
                 chanVars, worker, recorder, dbVars, procVars>>

IteratorReceive ==
  /\ iterPc = "idle"
  /\ nextPeerChan > 0
  /\ nextPeerChan' = nextPeerChan - 1
  /\ token' = TRUE
  /\ iterPc' = "check"
  /\ UNCHANGED <<now, queueVars, attemptedPeers, rows, nextPeer, peerStreamChan,
                 closed, worker, recorder, dbVars, procVars>>

\* !IsEmpty() && ValidNextPeer(): a valid next peer is one of a non-empty list.
CheckNextPeer ==
  /\ iterPc = "check"
  /\ iterPc' = IF ValidNextPeer THEN "get" ELSE "end"
  /\ UNCHANGED <<now, queueVars, token, attemptedPeers, rows, nextPeer, chanVars,
                 worker, recorder, dbVars, procVars>>

\* Another critical section than the one of the check.
GetNextPeer ==
  /\ iterPc = "get"
  /\ IF peerPtr >= Len(peerList)
     THEN /\ panic' = TRUE
          /\ UNCHANGED <<peerPtr, iterPc, attemptedPeers, nextPeer>>
     ELSE /\ nextPeer' = peerList[peerPtr + 1]
          /\ peerPtr' = peerPtr + 1
          /\ iterPc' = IF nextPeer' \in attemptedPeers THEN "call" ELSE "push"
          /\ attemptedPeers' = attemptedPeers \cup {nextPeer'}
          /\ UNCHANGED panic
  /\ UNCHANGED <<now, peerMap, peerList, token, rows, chanVars, worker, recorder,
                 dbVars, ctxDone>>

PushPeer ==
  /\ iterPc = "push"
  /\ Len(peerStreamChan) < Cap
  /\ peerStreamChan' = Append(peerStreamChan, nextPeer)
  /\ nextPeer' = None
  /\ token' = FALSE
  /\ iterPc' = "idle"
  /\ UNCHANGED <<now, queueVars, attemptedPeers, rows, nextPeerChan, closed,
                 worker, recorder, dbVars, procVars>>

\* Mutant: the attempted peers of the last iteration are kept.
EndIterationKeepsAttempted ==
  /\ iterPc = "end"
  /\ peerPtr' = 0
  /\ iterPc' = "fetch"
  /\ UNCHANGED <<now, peerMap, peerList, token, attemptedPeers, rows, nextPeer,
                 chanVars, worker, recorder, dbVars, procVars>>

\* Mutant: the pointer is not reset.
EndIterationKeepsPointer ==
  /\ iterPc = "end"
  /\ attemptedPeers' = {}
  /\ iterPc' = "fetch"
  /\ UNCHANGED <<now, peerMap, peerList, peerPtr, token, rows, nextPeer, chanVars,
                 worker, recorder, dbVars, procVars>>

\* The end of an iteration, MinIterTime after its start.
EndIteration ==
  /\ iterPc = "end"
  /\ attemptedPeers' = {}
  /\ peerPtr' = 0
  /\ iterPc' = "fetch"
  /\ UNCHANGED <<now, peerMap, peerList, token, rows, nextPeer, chanVars, worker,
                 recorder, dbVars, procVars>>

\* The iterator gives the token back to the channel only it reads.
CallForPeer ==
  /\ iterPc = "call"
  /\ nextPeerChan < Cap
  /\ nextPeerChan' = nextPeerChan + 1
  /\ token' = FALSE
  /\ iterPc' = "idle"
  /\ UNCHANGED <<now, queueVars, attemptedPeers, rows, nextPeer, peerStreamChan,
                 closed, worker, recorder, dbVars, procVars>>

IteratorStop ==
  /\ iterPc = "idle"
  /\ ctxDone
  /\ closed' = TRUE
  /\ iterPc' = "done"
  /\ UNCHANGED <<now, queueVars, token, attemptedPeers, rows, nextPeer,
                 nextPeerChan, peerStreamChan, worker, recorder, dbVars, procVars>>

-----------------------------------------------------------------------------
(* The workers.                                                            *)

\* NextPeer(): a send, which panics once the iterator has closed the channel.
NextPeer(w) ==
  /\ worker[w].pc = "next"
  /\ IF closed
     THEN /\ panic' = TRUE
          /\ UNCHANGED <<nextPeerChan, worker>>
     ELSE /\ nextPeerChan < Cap
          /\ nextPeerChan' = nextPeerChan + 1
          /\ worker' = [worker EXCEPT ![w].pc = "recv"]
          /\ UNCHANGED panic
  /\ UNCHANGED <<now, queueVars, iterVars, peerStreamChan, closed, recorder,
                 dbVars, ctxDone>>

ReceivePeer(w) ==
  /\ worker[w].pc = "recv"
  /\ peerStreamChan # <<>>
  /\ worker' = [worker EXCEPT ![w].pc = "dial", ![w].peer = Head(peerStreamChan)]
  /\ peerStreamChan' = Tail(peerStreamChan)
  /\ UNCHANGED <<now, queueVars, iterVars, nextPeerChan, closed, recorder, dbVars,
                 procVars>>

\* A closed, drained stream yields a nil peer, which is dereferenced.
ReceiveNil(w) ==
  /\ worker[w].pc = "recv"
  /\ closed
  /\ peerStreamChan = <<>>
  /\ panic' = TRUE
  /\ UNCHANGED <<now, queueVars, iterVars, chanVars, worker, recorder, dbVars,
                 ctxDone>>

\* The host already has a connection with the peer: no attempt is made.
AlreadyConnected(w) ==
  /\ worker[w].pc = "dial"
  /\ worker' = [worker EXCEPT ![w] = Ready]
  /\ UNCHANGED <<now, queueVars, iterVars, chanVars, recorder, dbVars, procVars>>

\* MaxRetries is 1: one dial, and its outcome is the outcome of the attempt.
Dial(w, err) ==
  /\ worker[w].pc = "dial"
  /\ worker' = [worker EXCEPT ![w].pc = "report", ![w].err = err]
  /\ UNCHANGED <<now, queueVars, iterVars, chanVars, recorder, dbVars, procVars>>

WorkerStop(w) ==
  /\ worker[w].pc = "recv"
  /\ ctxDone
  /\ worker' = [worker EXCEPT ![w].pc = "done"]
  /\ UNCHANGED <<now, queueVars, iterVars, chanVars, recorder, dbVars, procVars>>

-----------------------------------------------------------------------------
(* The recorder.                                                           *)

\* NewConnectionAttempt is a send on an unbuffered channel: worker and recorder
\* meet.  The outcome of a peer that is not in the queue is only logged; for one
\* that is, UpdateDelay writes its three parts with no lock held.
RecordAttempt(w) ==
  LET p == worker[w].peer
  IN  /\ recorder.pc = "idle"
      /\ worker[w].pc = "report"
      /\ worker' = [worker EXCEPT ![w] = Ready]
      /\ IF p \in DOMAIN peerMap
         THEN /\ peerMap' = [peerMap EXCEPT ![p] = StampConnection(@, now)]
              /\ recorder' = [recorder EXCEPT !.pc = "delay", !.peer = p,
                                              !.err = worker[w].err]
         ELSE UNCHANGED <<peerMap, recorder>>
      /\ UNCHANGED <<now, peerList, peerPtr, iterVars, chanVars, dbVars, procVars>>

RecordDelay ==
  /\ recorder.pc = "delay"
  /\ peerMap' = [peerMap EXCEPT ![recorder.peer] = RefreshDelay(@, recorder.err, now)]
  /\ recorder' = [recorder EXCEPT !.pc = "degree"]
  /\ UNCHANGED <<now, peerList, peerPtr, iterVars, chanVars, worker, dbVars, procVars>>

\* The last write, and the test that decides what becomes of the peer.
RecordDegree ==
  LET pp  == IncreaseDegree(peerMap[recorder.peer])
      dep == Deprecable(pp, now)
  IN  /\ recorder.pc = "degree"
      /\ peerMap' = [peerMap EXCEPT ![recorder.peer] = pp]
      /\ recorder' = [recorder EXCEPT !.pc = IF dep THEN "remove" ELSE "persist",
                                      !.kind = AttemptKind(recorder.err, dep)]
      /\ UNCHANGED <<now, peerList, peerPtr, iterVars, chanVars, worker, dbVars,
                     procVars>>

RecordDeprecation ==
  /\ recorder.pc = "remove"
  /\ RemovePeer(recorder.peer)
  /\ recorder' = [recorder EXCEPT !.pc = "persist"]
  /\ UNCHANGED <<now, peerPtr, iterVars, chanVars, worker, dbVars, procVars>>

\* PersistToDB blocks while the write queue is full.
PersistAttempt ==
  /\ recorder.pc = "persist"
  /\ Len(persistC) < PersistCap
  /\ persistC' = Append(persistC, [kind |-> recorder.kind, peer |-> recorder.peer])
  /\ recorder' = Idle
  /\ UNCHANGED <<now, queueVars, iterVars, chanVars, worker, db, procVars>>

\* The identification of a peer upserts its host information.
RecordIdentification(p) ==
  /\ recorder.pc = "idle"
  /\ recorder' = [Idle EXCEPT !.pc = "persist", !.peer = p]
  /\ UNCHANGED <<now, queueVars, iterVars, chanVars, worker, dbVars, procVars>>

\* The iterator also closes connEventNot: the recorder dereferences a nil event.
RecordNilEvent ==
  /\ recorder.pc = "idle"
  /\ closed
  /\ panic' = TRUE
  /\ UNCHANGED <<now, queueVars, iterVars, chanVars, worker, recorder, dbVars,
                 ctxDone>>

RecorderStop ==
  /\ recorder.pc = "idle"
  /\ ctxDone
  /\ recorder' = [recorder EXCEPT !.pc = "done"]
  /\ UNCHANGED <<now, queueVars, iterVars, chanVars, worker, dbVars, procVars>>

-----------------------------------------------------------------------------
(* Environment: discovery, the persisters, the clock, the shutdown.        *)

Discover(p) ==
  /\ Len(persistC) < PersistCap
  /\ persistC' = Append(persistC, [kind |-> "upsert", peer |-> p])
  /\ UNCHANGED <<now, queueVars, iterVars, chanVars, worker, recorder, db, procVars>>

ApplyWrite(i) ==
  /\ i \in 1..Len(persistC)
  /\ db' = [db EXCEPT ![persistC[i].peer] = Apply(persistC[i], @)]
  /\ persistC' = RemoveAt(persistC, i)
  /\ UNCHANGED <<now, queueVars, iterVars, chanVars, worker, recorder, procVars>>

DropWrite(i) ==
  /\ i \in 1..Len(persistC)
  /\ persistC' = RemoveAt(persistC, i)
  /\ UNCHANGED <<now, queueVars, iterVars, chanVars, worker, recorder, db, procVars>>

Tick ==
  /\ now < MaxTime
  /\ now' = now + 1
  /\ UNCHANGED <<queueVars, iterVars, chanVars, worker, recorder, dbVars, procVars>>

Cancel ==
  /\ CanCancel
  /\ ~ctxDone
  /\ ctxDone' = TRUE
  /\ UNCHANGED <<now, queueVars, iterVars, chanVars, worker, recorder, dbVars, panic>>

\* The process exits after a panic, and any time after the cancellation.
Exit ==
  /\ panic \/ ctxDone
  /\ UNCHANGED vars

-----------------------------------------------------------------------------

IteratorStep ==
  \/ GetNonDeprecatedPeers \/ GetNonDeprecatedPeersFails
  \/ \E p \in Peers : MergeRow(p)
  \/ SortPeerList
  \/ IteratorReceive \/ CheckNextPeer \/ GetNextPeer \/ PushPeer
  \/ EndIteration \/ CallForPeer \/ IteratorStop

WorkerStep(w) ==
  \/ NextPeer(w) \/ ReceivePeer(w) \/ ReceiveNil(w) \/ AlreadyConnected(w)
  \/ \E err \in DialErrors \cup {NoConnError} : Dial(w, err)
  \/ WorkerStop(w)

RecorderStep ==
  \/ \E w \in Workers : RecordAttempt(w)
  \/ RecordDelay \/ RecordDegree \/ RecordDeprecation \/ PersistAttempt
  \/ \E p \in Discoverable : RecordIdentification(p)
  \/ RecordNilEvent \/ RecorderStop

EnvironmentStep ==
  \/ \E p \in Discoverable : Discover(p)
  \/ \E i \in 1..PersistCap : ApplyWrite(i) \/ DropWrite(i)
  \/ Tick \/ Cancel

Next ==
  \/ /\ ~panic
     /\ \/ IteratorStep
        \/ \E w \in Workers : WorkerStep(w)
        \/ RecorderStep
        \/ EnvironmentStep
  \/ Exit

Spec == Init /\ [][Next]_vars

Alive(A) == ~panic /\ A

\* The iterator and the workers run on; Connect has a timeout.  Go serves the
\* goroutines blocked on a channel in the order they came and a select picks
\* among its ready cases at random, so a sender whose receiver comes back again
\* and again is served: strong fairness.  The query of the iterator
\* does not fail for ever.  Nothing makes discovery, the identifications, the
\* clock or the shutdown go on.
Fairness ==
  /\ WF_vars(Alive(IteratorStep))
  /\ SF_vars(Alive(GetNonDeprecatedPeers))
  /\ \A w \in Workers :
       /\ WF_vars(Alive(WorkerStep(w)))
       /\ SF_vars(Alive(RecordAttempt(w)))
  /\ WF_vars(Alive(RecordDelay \/ RecordDegree \/ RecordDeprecation))
  /\ SF_vars(Alive(PersistAttempt))
  /\ WF_vars(Alive(\E i \in 1..PersistCap : ApplyWrite(i) \/ DropWrite(i)))

FairSpec == Spec /\ Fairness

-----------------------------------------------------------------------------
(* Properties.                                                             *)

WorkerStates ==
  [pc : {"next", "recv", "dial", "report", "done"},
   peer : Peers \cup {None}, err : DialErrors \cup {NoConnError}]

RecorderStates ==
  [pc : {"idle", "delay", "degree", "remove", "persist", "done"},
   peer : Peers \cup {None}, err : DialErrors \cup {NoConnError}, kind : Kinds]

TypeOK ==
  /\ now \in Nat
  /\ DOMAIN peerMap \subseteq Peers
  /\ peerMap \in [DOMAIN peerMap -> PrunedPeers]
  /\ peerList \in Seq(Peers)
  /\ peerPtr \in Nat
  /\ iterPc \in {"fetch", "merge", "idle", "check", "get", "push", "end", "call",
                 "done"}
  /\ token \in BOOLEAN
  /\ attemptedPeers \subseteq Peers
  /\ rows \subseteq Peers
  /\ nextPeer \in Peers \cup {None}
  /\ nextPeerChan \in Nat
  /\ peerStreamChan \in Seq(Peers)
  /\ closed \in BOOLEAN
  /\ worker \in [Workers -> WorkerStates]
  /\ recorder \in RecorderStates
  /\ persistC \in Seq(Writes)
  /\ db \in [Peers -> {"absent", "active", "deprecated"}]
  /\ ctxDone \in BOOLEAN
  /\ panic \in BOOLEAN

Waiting == {w \in Workers : worker[w].pc \in {"recv", "done"}}

\* Every worker that waits on the peer stream is stood for by exactly one token:
\* in nextPeerChan, in the hands of the iterator, or turned into a peer of the
\* stream.  NextPeer, the push of the iterator and the call it makes on behalf of
\* a worker keep the balance.
TokenConservation ==
  nextPeerChan + Len(peerStreamChan) + (IF token THEN 1 ELSE 0)
    = Cardinality(Waiting)

\* No send of the peer exchange ever blocks: a worker that calls NextPeer, and
\* the iterator, which both sends on and receives from nextPeerChan and would
\* deadlock with itself if that send blocked, always find room in the channel.
SendsNeverBlock ==
  /\ iterPc = "call" => nextPeerChan < Cap
  /\ iterPc = "push" => Len(peerStreamChan) < Cap
  /\ \A w \in Workers : worker[w].pc = "next" => nextPeerChan < Cap

\* The two halves of the PeerQueue agree: peerList is a list without repetition
\* of the keys of peerMap, whatever the iterator adds while the recorder removes.
QueueAgreement ==
  /\ Range(peerList) = DOMAIN peerMap
  /\ \A i, j \in 1..Len(peerList) : peerList[i] = peerList[j] => i = j

\* An iteration hands out no peer twice: what the pointer has still to visit has
\* not been attempted in this iteration, although RemovePeer shifts the list
\* under the pointer.  The "already attempted" branch of the iterator is dead.
NoRepeatInIteration ==
  \A i \in 1..Len(peerList) : i > peerPtr => peerList[i] \notin attemptedPeers

\* A peer that has been attempted stays in the queue only if, at its last
\* attempt, it had been reached (or created) less than DeprecationTime before.
NoOverduePeerQueued ==
  \A p \in DOMAIN peerMap :
    \/ peerMap[p].dtype = "Minus1"
    \/ recorder.peer = p /\ recorder.pc \in {"delay", "degree", "remove"}
    \/ peerMap[p].baseConnection - peerMap[p].baseDeprecation < DeprecationTime

\* What the invariants rest on.  The iterator holds a token exactly between the
\* receive and the answer; an iteration starts from an empty set of attempted
\* peers; the peer in hand is one; the recorder is busy with a known peer; no
\* PrunedPeer was stamped in the future.
TokenHeld ==
  /\ iterPc \in {"check", "get", "push", "end", "call"} => token
  /\ iterPc \in {"idle", "done"} => ~token

FreshIteration == iterPc \in {"fetch", "merge"} => attemptedPeers = {}

PeerInHand == iterPc = "push" => nextPeer \in Peers

RecorderBusy ==
  recorder.pc \in {"delay", "degree", "remove", "persist"} => recorder.peer \in Peers

StampedInThePast == \A p \in DOMAIN peerMap : peerMap[p].baseConnection <= now

\* The inductive invariant of the peering service.
Inv ==
  /\ TypeOK
  /\ TokenHeld
  /\ FreshIteration
  /\ PeerInHand
  /\ RecorderBusy
  /\ StampedInThePast
  /\ TokenConservation
  /\ QueueAgreement
  /\ NoRepeatInIteration
  /\ NoOverduePeerQueued

NeverAttempted(p) == p \in DOMAIN peerMap /\ peerMap[p].dtype = "Minus1"

\* A peer that the queue learned of and never attempted reaches a worker, unless
\* an attempt of an earlier life of it is still recorded: neither the back-off of
\* other peers, nor the removals that shift the list, nor a sort spoilt by the
\* recorder starve it for ever.
NewPeerReachesWorker ==
  \A p \in Peers :
    NeverAttempted(p)
      ~> \/ ~NeverAttempted(p)
         \/ \E w \in Workers : worker[w].peer = p
         \/ panic
         \/ ctxDone

-----------------------------------------------------------------------------
(* What comments of the code say and the code does not do.                 *)

\* "check is the PeerQueue is not empty and if the next peer is valid"
\* (pruning_strategy.go:153): the read of the next peer that the check protects
\* is inside the list.  The recorder may remove a peer between the two.
NextPeerInRange == iterPc = "get" => peerPtr < Len(peerList)
=============================================================================
