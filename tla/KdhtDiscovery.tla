--------------------------- MODULE KdhtDiscovery ---------------------------
(***************************************************************************)
(* Peer discovery over the Kademlia DHT:                                   *)
(*   src/pkg/discovery/kdht/service.go      (workers, discoveredPeers)     *)
(*   src/pkg/discovery/kdht/neighbours.go   (fetchNeighbors)               *)
(*                                                                         *)
(* Workers walk over the peers found so far, one after another or at       *)
(* random, ask each for its neighbours and add those to a list.  An        *)
(* iterator reads the list behind them and notifies of every entry.  Stop  *)
(* sets a flag, waits for the wait group and closes the channel.           *)
(*                                                                         *)
(* The list is read and written in several steps: a lookup in a map and    *)
(* the insertion of the missing peer, the append under a mutex and the     *)
(* increment of the write pointer, the test of the pointer of the walk and *)
(* the read at it.  They interleave.                                       *)
(*                                                                         *)
(* The network is external: a connection succeeds or not, and a peer has   *)
(* some neighbours.  NewRoutingTable gives no error without a filter.      *)
(***************************************************************************)
EXTENDS Naturals, Sequences, FiniteSets

CONSTANTS
  Peers,
  bootnodes,        \* sequence of the peers that Start adds
  NoAddrs,          \* peers without an address
  BootWorkers,      \* the workers that walk
  RandWorkers,      \* the workers that pick at random
  None

Workers == BootWorkers \cup RandWorkers

ASSUME KdhtAssumption ==
  /\ bootnodes \in Seq(Peers) /\ bootnodes # <<>>
  /\ \A j, k \in 1..Len(bootnodes) : bootnodes[j] = bootnodes[k] => j = k
  /\ NoAddrs \subseteq Peers
  /\ IsFiniteSet(BootWorkers) /\ IsFiniteSet(RandWorkers)
  /\ BootWorkers \cap RandWorkers = {}
  /\ Workers # {}
  /\ None \notin Peers

VARIABLES
  pMap,        \* the peers in the map
  pArray,      \* the list
  wp, rp, bp,  \* write, read and walk pointer
  worker,      \* [pc, todo, new, dones, left]: dones counts the deferred calls of
               \* wg.Done, left those that are still to run at the return
  iterator,    \* [pc, peer] of nodeIterator
  notified,    \* what went over nodeNotC; None for the empty HostInfo
  wg,          \* the wait group
  doneF,
  stop,        \* where Stop is
  panic        \* why the process died, or "no"

listVars == <<pMap, pArray, wp>>
stopVars == <<doneF, stop>>
vars == <<listVars, rp, bp, worker, iterator, notified, wg, stopVars, panic>>

\* One wg.Add per goroutine.
Goroutines == Cardinality(Workers) + 1

\* A goroutine that has deferred more than Goroutines calls ends like one that has
\* deferred Goroutines + 1.
Deferred(n) == IF n > Goroutines THEN n ELSE n + 1

\* Start: addPeer of the bootnodes, then the goroutines.
Init ==
  /\ pArray = bootnodes
  /\ pMap = {bootnodes[k] : k \in 1..Len(bootnodes)}
  /\ wp = Len(bootnodes)
  /\ rp = 0
  /\ bp = 0
  /\ worker = [w \in Workers |->
                 [pc |-> "pick", todo |-> {}, new |-> None,
                  dones |-> IF w \in RandWorkers THEN 1 ELSE 0, left |-> 0]]
  /\ iterator = [pc |-> "check", peer |-> None]
  /\ notified = <<>>
  /\ wg = Goroutines
  /\ doneF = FALSE
  /\ stop = "open"
  /\ panic = "no"

-----------------------------------------------------------------------------
(* The workers.                                                            *)

\* getBootstrapPeer: the list is not empty; the pointer is compared with its
\* length.  The loop has deferred one more wg.Done.
PickBoot(w) ==
  /\ worker[w].pc = "pick"
  /\ worker' = [worker EXCEPT ![w].dones = Deferred(@),
                              ![w].pc = IF bp >= Len(pArray) THEN "wrap" ELSE "take"]
  /\ UNCHANGED <<listVars, rp, bp, iterator, notified, wg, stopVars, panic>>

Wrap(w) ==
  /\ worker[w].pc = "wrap"
  /\ bp' = 0
  /\ worker' = [worker EXCEPT ![w].pc = "take"]
  /\ UNCHANGED <<listVars, rp, iterator, notified, wg, stopVars, panic>>

\* The read under the mutex.
Take(w) ==
  /\ worker[w].pc = "take"
  /\ IF bp >= Len(pArray)
     THEN panic' = "index" /\ UNCHANGED <<bp, worker>>
     ELSE /\ bp' = bp + 1
          /\ worker' = [worker EXCEPT ![w].pc = "dial"]
          /\ UNCHANGED panic
  /\ UNCHANGED <<listVars, rp, iterator, notified, wg, stopVars>>

\* getRandomPeer: the list never shrinks, so the index stays in range.
PickRandom(w) ==
  /\ worker[w].pc = "pick"
  /\ worker' = [worker EXCEPT ![w].pc = "dial"]
  /\ UNCHANGED <<listVars, rp, bp, iterator, notified, wg, stopVars, panic>>

\* fetchNeighbors: what some of its requests returned, whatever the others did.
FetchNeighbors == SUBSET Peers

\* workerTask: the dial fails, or the peer is asked.
Dial(w) ==
  /\ worker[w].pc = "dial"
  /\ \/ worker' = [worker EXCEPT ![w].pc = "end"]
     \/ \E neighbors \in FetchNeighbors :
          worker' = [worker EXCEPT ![w].pc = "add", ![w].todo = neighbors]
  /\ UNCHANGED <<listVars, rp, bp, iterator, notified, wg, stopVars, panic>>

\* Mutant: the map is not looked at.
LoadAlways(w) ==
  /\ worker[w].pc = "add"
  /\ \E p \in worker[w].todo :
       worker' = [worker EXCEPT ![w].todo = @ \ {p}, ![w].pc = "store", ![w].new = p]
  /\ UNCHANGED <<listVars, rp, bp, iterator, notified, wg, stopVars, panic>>

\* addPeer: is the peer in the map?
Load(w) ==
  /\ worker[w].pc = "add"
  /\ \E p \in worker[w].todo :
       worker' = [worker EXCEPT
                    ![w].todo = @ \ {p},
                    ![w].pc = IF p \in pMap THEN "add" ELSE "store",
                    ![w].new = IF p \in pMap THEN @ ELSE p]
  /\ UNCHANGED <<listVars, rp, bp, iterator, notified, wg, stopVars, panic>>

\* Mutant: the write pointer is increased under the mutex too.
StoreCounts(w) ==
  /\ worker[w].pc = "store"
  /\ pMap' = pMap \cup {worker[w].new}
  /\ pArray' = Append(pArray, worker[w].new)
  /\ wp' = wp + 1
  /\ worker' = [worker EXCEPT ![w].pc = "count"]
  /\ UNCHANGED <<rp, bp, iterator, notified, wg, stopVars, panic>>

\* addPeer: into the map, and into the list under the mutex.
Store(w) ==
  /\ worker[w].pc = "store"
  /\ pMap' = pMap \cup {worker[w].new}
  /\ pArray' = Append(pArray, worker[w].new)
  /\ worker' = [worker EXCEPT ![w].pc = "count"]
  /\ UNCHANGED <<wp, rp, bp, iterator, notified, wg, stopVars, panic>>

\* addPeer: the write pointer.
Count(w) ==
  /\ worker[w].pc = "count"
  /\ wp' = wp + 1
  /\ worker' = [worker EXCEPT ![w].pc = "add", ![w].new = None]
  /\ UNCHANGED <<pMap, pArray, rp, bp, iterator, notified, wg, stopVars, panic>>

\* Mutant: the flag is not tested.
EndTaskAgain(w) ==
  /\ worker[w].pc = "end" \/ (worker[w].pc = "add" /\ worker[w].todo = {})
  /\ worker' = [worker EXCEPT ![w].pc = "pick"]
  /\ UNCHANGED <<listVars, rp, bp, iterator, notified, wg, stopVars, panic>>

\* ClosePeer, and the test of the flag.
EndTask(w) ==
  /\ worker[w].pc = "end" \/ (worker[w].pc = "add" /\ worker[w].todo = {})
  /\ worker' = [worker EXCEPT ![w].pc = IF doneF THEN "exit" ELSE "pick",
                              ![w].left = IF doneF THEN worker[w].dones ELSE 0]
  /\ UNCHANGED <<listVars, rp, bp, iterator, notified, wg, stopVars, panic>>

\* One of the deferred calls of wg.Done.
Done(w) ==
  /\ worker[w].pc = "exit"
  /\ worker[w].left > 0
  /\ IF wg = 0
     THEN panic' = "wg" /\ UNCHANGED <<wg, worker>>
     ELSE /\ wg' = wg - 1
          /\ worker' = [worker EXCEPT ![w].left = @ - 1]
          /\ UNCHANGED panic
  /\ UNCHANGED <<listVars, rp, bp, iterator, notified, stopVars>>

WorkerStep(w) ==
  \/ w \in BootWorkers /\ (PickBoot(w) \/ Wrap(w) \/ Take(w))
  \/ w \in RandWorkers /\ PickRandom(w)
  \/ Dial(w) \/ Load(w) \/ Store(w) \/ Count(w) \/ EndTask(w) \/ Done(w)

-----------------------------------------------------------------------------
(* The iterator.                                                           *)

Info(p) == IF p \in NoAddrs THEN None ELSE p

IterCheck ==
  /\ iterator.pc = "check"
  /\ IF ~doneF
     THEN iterator' = [iterator EXCEPT !.pc = "next"] /\ UNCHANGED <<wg, panic>>
     ELSE IF wg = 0
     THEN panic' = "wg" /\ UNCHANGED <<wg, iterator>>
     ELSE /\ wg' = wg - 1
          /\ iterator' = [iterator EXCEPT !.pc = "done"]
          /\ UNCHANGED panic
  /\ UNCHANGED <<listVars, rp, bp, worker, notified, stopVars>>

\* Mutant: the newest entry is read.
IterNextNewest ==
  /\ iterator.pc = "next"
  /\ IF wp > rp
     THEN /\ rp' = rp + 1
          /\ iterator' = [pc |-> "send", peer |-> Info(pArray[wp])]
     ELSE /\ iterator' = [iterator EXCEPT !.pc = "check"]
          /\ UNCHANGED rp
  /\ UNCHANGED <<listVars, bp, worker, notified, wg, stopVars, panic>>

\* Mutant: the last entry is not new.
IterNextLags ==
  /\ iterator.pc = "next"
  /\ IF wp > rp + 1
     THEN /\ rp' = rp + 1
          /\ iterator' = [pc |-> "send", peer |-> Info(pArray[rp + 1])]
     ELSE /\ iterator' = [iterator EXCEPT !.pc = "check"]
          /\ UNCHANGED rp
  /\ UNCHANGED <<listVars, bp, worker, notified, wg, stopVars, panic>>

\* Next, getNextPeer and Peer: a peer without addresses gives an empty HostInfo.
\* Only the iterator moves the read pointer.
IterNext ==
  /\ iterator.pc = "next"
  /\ IF wp > rp
     THEN /\ rp' = rp + 1
          /\ iterator' = [pc |-> "send", peer |-> Info(pArray[rp + 1])]
     ELSE /\ iterator' = [iterator EXCEPT !.pc = "check"]
          /\ UNCHANGED rp
  /\ UNCHANGED <<listVars, bp, worker, notified, wg, stopVars, panic>>

\* The reader of nodeNotC is external to this module.
IterSend ==
  /\ iterator.pc = "send"
  /\ IF stop = "closed"
     THEN panic' = "send" /\ UNCHANGED <<iterator, notified>>
     ELSE /\ notified' = Append(notified, iterator.peer)
          /\ iterator' = [pc |-> "check", peer |-> None]
          /\ UNCHANGED panic
  /\ UNCHANGED <<listVars, rp, bp, worker, wg, stopVars>>

-----------------------------------------------------------------------------
(* Stop.                                                                   *)

StopFlag ==
  /\ stop = "open"
  /\ doneF' = TRUE
  /\ stop' = "wait"
  /\ UNCHANGED <<listVars, rp, bp, worker, iterator, notified, wg, panic>>

StopClose ==
  /\ stop = "wait"
  /\ wg = 0
  /\ stop' = "closed"
  /\ UNCHANGED <<listVars, rp, bp, worker, iterator, notified, wg, doneF, panic>>

-----------------------------------------------------------------------------

IterStep == IterCheck \/ IterNext \/ IterSend

Next ==
  /\ panic = "no"
  /\ \/ \E w \in Workers : WorkerStep(w)
     \/ IterStep
     \/ StopFlag \/ StopClose

Spec == Init /\ [][Next]_vars

\* Every goroutine goes on: a dial ends with the timeout of its context, and the
\* reader of nodeNotC comes back to it.
Fairness ==
  /\ \A w \in Workers : WF_vars(panic = "no" /\ WorkerStep(w))
  /\ WF_vars(panic = "no" /\ IterStep)
  /\ WF_vars(panic = "no" /\ StopClose)

FairSpec == Spec /\ Fairness

-----------------------------------------------------------------------------
(* Properties.                                                             *)

TypeOK ==
  /\ pMap \subseteq Peers
  /\ pArray \in Seq(Peers)
  /\ wp \in Nat /\ rp \in Nat /\ bp \in Nat
  /\ worker \in [Workers ->
       [pc : {"pick", "wrap", "take", "dial", "add", "store", "count", "end", "exit"},
        todo : SUBSET Peers, new : Peers \cup {None}, dones : Nat, left : Nat]]
  /\ \A w \in Workers : worker[w].pc = "store" => worker[w].new \in Peers
  /\ iterator \in [pc : {"check", "next", "send", "done"}, peer : Peers \cup {None}]
  /\ notified \in Seq(Peers \cup {None})
  /\ wg \in 0..Goroutines
  /\ doneF \in BOOLEAN
  /\ stop \in {"open", "wait", "closed"}
  /\ panic \in {"no", "index", "wg", "send"}

\* The iterator never reads behind the end of the list: the write pointer counts
\* entries that are there, and lags by the workers that have still to count.
PointersInRange ==
  /\ rp <= wp
  /\ wp + Cardinality({w \in Workers : worker[w].pc = "count"}) = Len(pArray)

\* Every entry of the list is notified once, in the order of the list.
NotifiedInOrder ==
  LET sent == notified \o (IF iterator.pc = "send" THEN <<iterator.peer>> ELSE <<>>)
  IN  /\ Len(sent) = rp
      /\ \A k \in 1..rp : sent[k] = Info(pArray[k])

\* addPeer looks a peer up and inserts it in two steps, so several workers may list
\* the same peer; but each of them only once.
CopiesBounded ==
  \A p \in Peers :
    Cardinality({k \in 1..Len(pArray) : pArray[k] = p}) <= Cardinality(Workers)

\* Every entry of the list is notified, unless the service is stopped.
EveryEntryNotified == Len(pArray) > rp ~> Len(pArray) = rp \/ doneF \/ panic # "no"

\* Stop returns, or the process dies: no worker stays in its loop.
StopReturns == doneF ~> stop = "closed" \/ panic # "no"
=============================================================================
