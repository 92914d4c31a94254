------------------------ MODULE KdhtDiscoveryProofs ------------------------
(***************************************************************************)
(* The list of the Kademlia discovery, for any peers, bootnodes and any    *)
(* finite number of workers: its three pointers are moved in steps of      *)
(* their own and still the iterator stays inside the list and skips        *)
(* nothing; and a peer is listed once per worker at most.                  *)
(***************************************************************************)
EXTENDS KdhtDiscovery, FiniteSetTheorems, TLAPS

\* There are finitely many workers, and the iterator.
LEMMA WorkersFinite == IsFiniteSet(Workers) /\ Goroutines \in Nat /\ Goroutines >= 1
<1>1. IsFiniteSet(Workers)
  BY KdhtAssumption, FS_Union, Zenon DEF Workers
<1>2. Cardinality(Workers) \in Nat
  BY <1>1, FS_CardinalityType
<1>. QED
  BY <1>1, <1>2 DEF Goroutines

-----------------------------------------------------------------------------
(* The types.  A step of a worker changes its own record.                  *)

Records ==
  [pc : {"pick", "wrap", "take", "dial", "add", "store", "count", "end", "exit"},
   todo : SUBSET Peers, new : Peers \cup {None}, dones : Nat, left : Nat]

\* The part of TypeOK about the workers, and the other one.
WorkersOK ==
  /\ worker \in [Workers -> Records]
  /\ \A w \in Workers : worker[w].pc = "store" => worker[w].new \in Peers

RestOK ==
  /\ pMap \subseteq Peers
  /\ pArray \in Seq(Peers)
  /\ wp \in Nat /\ rp \in Nat /\ bp \in Nat
  /\ iterator \in [pc : {"check", "next", "send", "done"}, peer : Peers \cup {None}]
  /\ notified \in Seq(Peers \cup {None})
  /\ wg \in 0..Goroutines
  /\ doneF \in BOOLEAN
  /\ stop \in {"open", "wait", "closed"}
  /\ panic \in {"no", "index", "wg", "send"}

\* The types of the workers and those of the rest.
LEMMA Parts == TypeOK <=> WorkersOK /\ RestOK
BY DEF TypeOK, WorkersOK, RestOK, Records

\* A typed record in the place of a worker leaves the workers typed.
LEMMA OneWorker ==
  ASSUME WorkersOK, NEW w \in Workers, NEW r \in Records,
         r.pc = "store" => r.new \in Peers,
         worker' = [worker EXCEPT ![w] = r]
  PROVE  WorkersOK'
BY DEF WorkersOK

\* The initial state.
LEMMA InitTyped == Init => TypeOK
<1>. SUFFICES ASSUME Init PROVE TypeOK
  OBVIOUS
<1>1. pArray \in Seq(Peers) /\ pMap \subseteq Peers /\ wp \in Nat
  BY KdhtAssumption DEF Init
<1>2. worker \in [Workers -> Records]
  BY DEF Init, Records
<1>3. \A w \in Workers : worker[w].pc = "pick"
  BY DEF Init
<1>4. /\ iterator \in [pc : {"check", "next", "send", "done"}, peer : Peers \cup {None}]
      /\ notified \in Seq(Peers \cup {None})
      /\ wg \in 0..Goroutines
  BY WorkersFinite DEF Init
<1>. QED
  BY <1>1, <1>2, <1>3, <1>4, Zenon DEF Init, TypeOK, Records

\* A step from a state in which the read pointer is inside the list.
LEMMA StepTyped == TypeOK /\ PointersInRange /\ [Next]_vars => TypeOK'
<1>0. PointersInRange /\ RestOK => (wp > rp => rp < Len(pArray))
  <2>1. IsFiniteSet({w \in Workers : worker[w].pc = "count"})
    BY WorkersFinite, FS_Subset
  <2>2. Cardinality({w \in Workers : worker[w].pc = "count"}) \in Nat
    BY <2>1, FS_CardinalityType
  <2>. QED
    BY <2>2 DEF PointersInRange, RestOK
<1>2. WorkersOK /\ RestOK /\ PointersInRange /\ [Next]_vars => WorkersOK' /\ RestOK'
  <2>. SUFFICES ASSUME WorkersOK, RestOK, PointersInRange, [Next]_vars PROVE WorkersOK' /\ RestOK'
    OBVIOUS
  <2>. USE DEF listVars, stopVars
  <2>0. \A w \in Workers : worker[w] \in Records
    BY DEF WorkersOK
  <2>1. ASSUME NEW w \in Workers, PickBoot(w) PROVE WorkersOK' /\ RestOK'
    <3>0. Deferred(worker[w].dones) \in Nat
      BY <2>0 DEF Deferred, Records
    <3>. DEFINE r == [worker[w] EXCEPT !.dones = Deferred(@),
                                        !.pc = IF bp >= Len(pArray) THEN "wrap" ELSE "take"]
    <3>1. worker' = [worker EXCEPT ![w] = r]
      BY <2>0, <2>1, Zenon DEF PickBoot, WorkersOK
    <3>2. r \in Records /\ (r.pc = "store" => r.new \in Peers)
      BY <2>0, <2>1, <3>0 DEF PickBoot, Records, WorkersOK, RestOK
    <3>3. RestOK'
      BY <2>1 DEF PickBoot, RestOK
    <3>. HIDE DEF r
    <3>. QED
      BY <3>1, <3>2, <3>3, OneWorker, Zenon
  <2>2. ASSUME NEW w \in Workers, Wrap(w) PROVE WorkersOK' /\ RestOK'
    <3>. DEFINE r == [worker[w] EXCEPT !.pc = "take"]
    <3>1. worker' = [worker EXCEPT ![w] = r]
      BY <2>0, <2>2 DEF Wrap, WorkersOK
    <3>2. r \in Records /\ (r.pc = "store" => r.new \in Peers)
      BY <2>0, <2>2, Zenon DEF Wrap, Records, WorkersOK, RestOK
    <3>3. RestOK'
      BY <2>2 DEF Wrap, RestOK
    <3>. HIDE DEF r
    <3>. QED
      BY <3>1, <3>2, <3>3, OneWorker, Zenon
  <2>3. ASSUME NEW w \in Workers, Take(w) PROVE WorkersOK' /\ RestOK'
    <3>. DEFINE r == [worker[w] EXCEPT !.pc = "dial"]
    <3>1. worker' = worker \/ worker' = [worker EXCEPT ![w] = r]
      BY <2>3 DEF Take
    <3>2. r \in Records /\ r.pc # "store"
      BY <2>0 DEF Records
    <3>3. RestOK'
      BY <2>3 DEF Take, RestOK
    <3>. HIDE DEF r
    <3>4. CASE worker' = worker
      BY <3>3, <3>4 DEF WorkersOK
    <3>5. CASE worker' = [worker EXCEPT ![w] = r]
      BY <3>2, <3>3, <3>5, OneWorker, Zenon
    <3>. QED
      BY <3>1, <3>4, <3>5
  <2>4. ASSUME NEW w \in Workers, PickRandom(w) PROVE WorkersOK' /\ RestOK'
    <3>. DEFINE r == [worker[w] EXCEPT !.pc = "dial"]
    <3>1. worker' = [worker EXCEPT ![w] = r]
      BY <2>0, <2>4 DEF PickRandom, WorkersOK
    <3>2. r \in Records /\ (r.pc = "store" => r.new \in Peers)
      BY <2>0, <2>4, Zenon DEF PickRandom, Records, WorkersOK, RestOK
    <3>3. RestOK'
      BY <2>4 DEF PickRandom, RestOK
    <3>. HIDE DEF r
    <3>. QED
      BY <3>1, <3>2, <3>3, OneWorker, Zenon
  <2>5. ASSUME NEW w \in Workers, Dial(w) PROVE WorkersOK' /\ RestOK'
    <3>1. RestOK'
      BY <2>5 DEF Dial, RestOK
    <3>2. CASE worker' = [worker EXCEPT ![w].pc = "end"]
      <4>. DEFINE r == [worker[w] EXCEPT !.pc = "end"]
      <4>1. worker' = [worker EXCEPT ![w] = r]
        BY <3>2
      <4>2. r \in Records /\ r.pc # "store"
        BY <2>0 DEF Records
      <4>. HIDE DEF r
      <4>. QED
        BY <3>1, <4>1, <4>2, OneWorker, Zenon
    <3>3. ASSUME NEW neighbors \in SUBSET Peers,
                 worker' = [worker EXCEPT ![w].pc = "add", ![w].todo = neighbors]
          PROVE  WorkersOK' /\ RestOK'
      <4>. DEFINE r == [worker[w] EXCEPT !.pc = "add", !.todo = neighbors]
      <4>1. worker' = [worker EXCEPT ![w] = r]
        BY <2>0, <3>3, Zenon DEF WorkersOK
      <4>2. r \in Records /\ r.pc # "store"
        BY <2>0, Zenon DEF Records
      <4>. HIDE DEF r
      <4>. QED
        BY <3>1, <4>1, <4>2, OneWorker, Zenon
    <3>. QED
      BY <2>5, <3>2, <3>3 DEF Dial, FetchNeighbors
  <2>6. ASSUME NEW w \in Workers, Load(w) PROVE WorkersOK' /\ RestOK'
    <3>1. RestOK'
      BY <2>6 DEF Load, RestOK
    <3>. PICK p \in worker[w].todo :
           worker' = [worker EXCEPT
                        ![w].todo = @ \ {p},
                        ![w].pc = IF p \in pMap THEN "add" ELSE "store",
                        ![w].new = IF p \in pMap THEN @ ELSE p]
      BY <2>6, Zenon DEF Load
    <3>. DEFINE r == [worker[w] EXCEPT !.todo = @ \ {p},
                                       !.pc = IF p \in pMap THEN "add" ELSE "store",
                                       !.new = IF p \in pMap THEN @ ELSE p]
    <3>2. worker' = [worker EXCEPT ![w] = r]
      BY <2>0, Zenon DEF WorkersOK
    <3>3. p \in Peers
      BY <2>0 DEF Records
    <3>4. r \in Records /\ (r.pc = "store" => r.new \in Peers)
      BY <2>0, <3>3, Zenon DEF Records
    <3>. HIDE DEF r
    <3>. QED
      BY <3>1, <3>2, <3>4, OneWorker, Zenon
  <2>7. ASSUME NEW w \in Workers, Store(w) PROVE WorkersOK' /\ RestOK'
    <3>0. worker[w].new \in Peers
      BY <2>7 DEF Store, WorkersOK
    <3>. DEFINE r == [worker[w] EXCEPT !.pc = "count"]
    <3>1. worker' = [worker EXCEPT ![w] = r]
      BY <2>0, <2>7 DEF Store, WorkersOK
    <3>2. r \in Records /\ (r.pc = "store" => r.new \in Peers)
      BY <2>0, <2>7, Zenon DEF Store, Records, WorkersOK, RestOK
    <3>3. RestOK'
      BY <2>7, <3>0 DEF Store, RestOK
    <3>. HIDE DEF r
    <3>. QED
      BY <3>1, <3>2, <3>3, OneWorker, Zenon
  <2>8. ASSUME NEW w \in Workers, Count(w) PROVE WorkersOK' /\ RestOK'
    <3>. DEFINE r == [worker[w] EXCEPT !.pc = "add", !.new = None]
    <3>1. worker' = [worker EXCEPT ![w] = r]
      BY <2>0, <2>8, Zenon DEF Count, WorkersOK
    <3>2. r \in Records /\ (r.pc = "store" => r.new \in Peers)
      BY <2>0, <2>8, Zenon DEF Count, Records, WorkersOK, RestOK
    <3>3. RestOK'
      BY <2>8 DEF Count, RestOK
    <3>. HIDE DEF r
    <3>. QED
      BY <3>1, <3>2, <3>3, OneWorker, Zenon
  <2>9. ASSUME NEW w \in Workers, EndTask(w) PROVE WorkersOK' /\ RestOK'
    <3>. DEFINE r == [worker[w] EXCEPT !.pc = IF doneF THEN "exit" ELSE "pick",
                                        !.left = IF doneF THEN worker[w].dones ELSE 0]
    <3>1. worker' = [worker EXCEPT ![w] = r]
      BY <2>0, <2>9, Zenon DEF EndTask, WorkersOK
    <3>2. r \in Records /\ (r.pc = "store" => r.new \in Peers)
      BY <2>0, <2>9, Zenon DEF EndTask, Records, WorkersOK, RestOK
    <3>3. RestOK'
      BY <2>9 DEF EndTask, RestOK
    <3>. HIDE DEF r
    <3>. QED
      BY <3>1, <3>2, <3>3, OneWorker, Zenon
  <2>10. ASSUME NEW w \in Workers, Done(w) PROVE WorkersOK' /\ RestOK'
    <3>. DEFINE r == [worker[w] EXCEPT !.left = @ - 1]
    <3>1. worker' = worker \/ worker' = [worker EXCEPT ![w] = r]
      BY <2>10 DEF Done
    <3>2. r \in Records /\ r.pc # "store"
      BY <2>0, <2>10 DEF Done, Records
    <3>3. wg' \in 0..Goroutines
      BY <2>10, WorkersFinite DEF Done, RestOK
    <3>4. RestOK'
      BY <2>10, <3>3 DEF Done, RestOK
    <3>. HIDE DEF r
    <3>5. CASE worker' = worker
      BY <3>4, <3>5 DEF WorkersOK
    <3>6. CASE worker' = [worker EXCEPT ![w] = r]
      BY <3>2, <3>4, <3>6, OneWorker, Zenon
    <3>. QED
      BY <3>1, <3>5, <3>6
  <2>11. CASE IterCheck
    <3>1. wg' \in 0..Goroutines
      BY <2>11, WorkersFinite DEF IterCheck, RestOK
    <3>2. iterator' \in [pc : {"check", "next", "send", "done"}, peer : Peers \cup {None}]
      BY <2>11 DEF IterCheck, RestOK
    <3>. QED
      BY <2>11, <3>1, <3>2 DEF IterCheck, RestOK, WorkersOK
  <2>12. CASE IterNext
    <3>1. \A k \in 1..Len(pArray) : Info(pArray[k]) \in Peers \cup {None}
      BY DEF Info, RestOK
    <3>2. iterator' \in [pc : {"check", "next", "send", "done"}, peer : Peers \cup {None}]
      <4>1. CASE wp > rp
        <5>1. rp + 1 \in 1..Len(pArray)
          BY <4>1, <1>0 DEF RestOK
        <5>. QED
          BY <2>12, <3>1, <4>1, <5>1 DEF IterNext
      <4>2. CASE ~(wp > rp)
        BY <2>12, <4>2 DEF IterNext, RestOK
      <4>. QED
        BY <4>1, <4>2
    <3>. QED
      BY <2>12, <3>2 DEF IterNext, RestOK, WorkersOK
  <2>13. CASE IterSend
    <3>1. /\ iterator' \in [pc : {"check", "next", "send", "done"}, peer : Peers \cup {None}]
          /\ notified' \in Seq(Peers \cup {None})
      BY <2>13 DEF IterSend, RestOK
    <3>. QED
      BY <2>13, <3>1 DEF IterSend, RestOK, WorkersOK
  <2>14. CASE StopFlag \/ StopClose
    BY <2>14, Zenon DEF StopFlag, StopClose, RestOK, WorkersOK
  <2>15. CASE UNCHANGED vars
    BY <2>15 DEF vars, RestOK, WorkersOK
  <2>. QED
    BY <2>1, <2>2, <2>3, <2>4, <2>5, <2>6, <2>7, <2>8, <2>9, <2>10, <2>11, <2>12,
       <2>13, <2>14, <2>15 DEF Next, WorkerStep, IterStep
<1>. QED
  BY <1>2, Parts DEF TypeOK, WorkersOK, RestOK, Records

-----------------------------------------------------------------------------
(* The pointers.  Only Store and Count change who has still to count.      *)

Counting == {w \in Workers : worker[w].pc = "count"}

\* The workers between append and increment can be counted.
LEMMA CountingFinite == IsFiniteSet(Counting) /\ Cardinality(Counting) \in Nat
<1>1. IsFiniteSet(Counting)
  BY WorkersFinite, FS_Subset DEF Counting
<1>. QED
  BY <1>1, FS_CardinalityType

\* A worker that was not counting and does not begin to.
LEMMA SameCounting ==
  ASSUME WorkersOK, NEW w \in Workers, worker[w].pc # "count", worker'[w].pc # "count",
         \A v \in Workers \ {w} : worker'[v] = worker[v]
  PROVE  Counting' = Counting
BY DEF Counting

\* A step of a worker leaves the other ones alone.
LEMMA OthersKept ==
  ASSUME WorkersOK, NEW w \in Workers, WorkerStep(w)
  PROVE  \A v \in Workers \ {w} : worker'[v] = worker[v]
BY Zenon DEF WorkersOK, WorkerStep, PickBoot, Wrap, Take, PickRandom, Dial, Load, Store, Count,
       EndTask, Done

\* Every step keeps the pointers in range.
LEMMA StepInRange == TypeOK /\ PointersInRange /\ [Next]_vars => PointersInRange'
<1>. SUFFICES ASSUME TypeOK, PointersInRange, [Next]_vars PROVE PointersInRange'
  OBVIOUS
<1>. USE DEF listVars, stopVars
<1>0. WorkersOK /\ RestOK
  BY Parts
<1>1. rp <= wp /\ wp + Cardinality(Counting) = Len(pArray)
  BY DEF PointersInRange, Counting
<1>2. SUFFICES rp' <= wp' /\ wp' + Cardinality(Counting') = Len(pArray')
  BY DEF PointersInRange, Counting
<1>3. ASSUME NEW w \in Workers, Store(w)
      PROVE  rp' <= wp' /\ wp' + Cardinality(Counting') = Len(pArray')
  <2>1. Counting' = Counting \cup {w} /\ w \notin Counting
    BY <1>0, <1>3 DEF Store, Counting, WorkersOK
  <2>2. Cardinality(Counting') = Cardinality(Counting) + 1
    BY <2>1, CountingFinite, FS_AddElement
  <2>3. Len(pArray') = Len(pArray) + 1
    BY <1>0, <1>3 DEF Store, RestOK, WorkersOK
  <2>. QED
    BY <1>0, <1>1, <1>3, <2>2, <2>3, CountingFinite DEF Store, RestOK
<1>4. ASSUME NEW w \in Workers, Count(w)
      PROVE  rp' <= wp' /\ wp' + Cardinality(Counting') = Len(pArray')
  <2>1. worker'[w].pc = "add"
    BY <1>0, <1>4 DEF Count, WorkersOK, Records
  <2>2. Counting' = Counting \ {w} /\ w \in Counting
    BY <1>0, <1>4, <2>1, OthersKept, Zenon DEF Count, Counting, WorkerStep
  <2>3. Cardinality(Counting') = Cardinality(Counting) - 1
    BY <2>2, CountingFinite, FS_RemoveElement
  <2>. QED
    <3>1. wp' = wp + 1 /\ rp' = rp /\ pArray' = pArray
      BY <1>4 DEF Count
    <3>2. wp \in Nat /\ rp \in Nat
      BY <1>0 DEF RestOK
    <3>. QED
      BY <1>1, <2>3, <3>1, <3>2, CountingFinite
<1>5. ASSUME NEW w \in Workers, WorkerStep(w), ~Store(w), ~Count(w)
      PROVE  rp' <= wp' /\ wp' + Cardinality(Counting') = Len(pArray')
  <2>1. worker[w].pc # "count" /\ worker'[w].pc # "count"
    <3>0. worker \in [Workers -> Records]
      BY <1>0 DEF WorkersOK
    <3>1. CASE PickBoot(w)
      BY <3>0, <3>1 DEF PickBoot, Records
    <3>2. CASE Wrap(w) \/ Take(w) \/ PickRandom(w)
      BY <3>0, <3>2 DEF Wrap, Take, PickRandom, Records
    <3>3. CASE Dial(w)
      BY <3>0, <3>3 DEF Dial, Records
    <3>4. CASE Load(w)
      BY <3>0, <3>4 DEF Load, Records
    <3>5. CASE EndTask(w) \/ Done(w)
      BY <3>0, <3>5 DEF EndTask, Done, Records
    <3>. QED
      BY <1>5, <3>1, <3>2, <3>3, <3>4, <3>5 DEF WorkerStep
  <2>2. Counting' = Counting
    BY <1>0, <1>5, <2>1, OthersKept, SameCounting
  <2>3. UNCHANGED <<wp, rp, pArray>>
    BY <1>5, Zenon DEF WorkerStep, PickBoot, Wrap, Take, PickRandom, Dial, Load, EndTask, Done
  <2>. QED
    BY <1>1, <2>2, <2>3
<1>6. CASE IterStep
  <2>1. Counting' = Counting /\ UNCHANGED <<wp, pArray>>
    BY <1>6 DEF IterStep, IterCheck, IterNext, IterSend, Counting
  <2>2. rp' <= wp
    BY <1>0, <1>1, <1>6 DEF IterStep, IterCheck, IterNext, IterSend, RestOK
  <2>. QED
    BY <1>1, <2>1, <2>2
<1>7. CASE StopFlag \/ StopClose \/ UNCHANGED vars
  <2>1. Counting' = Counting /\ UNCHANGED <<wp, rp, pArray>>
    BY <1>7 DEF StopFlag, StopClose, vars, Counting
  <2>. QED
    BY <1>1, <2>1
<1>. QED
  BY <1>3, <1>4, <1>5, <1>6, <1>7 DEF Next

\* The bootnodes are in the array before the workers start.
LEMMA InitInRange == Init => PointersInRange
<1>. SUFFICES ASSUME Init PROVE PointersInRange
  OBVIOUS
<1>1. {w \in Workers : worker[w].pc = "count"} = {}
  BY DEF Init
<1>2. Cardinality({w \in Workers : worker[w].pc = "count"}) = 0
  BY <1>1, FS_EmptySet
<1>3. rp = 0 /\ wp = Len(pArray) /\ Len(pArray) \in Nat
  BY KdhtAssumption DEF Init
<1>. QED
  BY <1>2, <1>3 DEF PointersInRange

\* The types hold for any number of workers and peers (service.go).
THEOREM Typed == Spec => []TypeOK
BY InitTyped, InitInRange, StepTyped, StepInRange, PTL DEF Spec

\* The write pointer counts the entries of the list except those whose worker has
\* still to count, and the read pointer stays behind it, for any number of workers
\* (addPeer, getNextPeer).
THEOREM InRange == Spec => []PointersInRange
BY InitTyped, InitInRange, StepTyped, StepInRange, PTL DEF Spec

-----------------------------------------------------------------------------
(* What is notified.  The list only grows, so an entry that was read stays *)
(* where it was.                                                           *)

\* Every step keeps the order of the notifications.
LEMMA StepInOrder ==
  TypeOK /\ PointersInRange /\ NotifiedInOrder /\ [Next]_vars => NotifiedInOrder'
<1>. SUFFICES ASSUME TypeOK, PointersInRange, NotifiedInOrder, [Next]_vars
              PROVE  NotifiedInOrder'
  OBVIOUS
<1>. USE DEF listVars, stopVars
<1>0. WorkersOK /\ RestOK
  BY Parts
<1>1. rp <= wp /\ wp <= Len(pArray)
  BY <1>0, CountingFinite DEF PointersInRange, Counting, RestOK
<1>2. ASSUME NEW w \in Workers, WorkerStep(w) PROVE NotifiedInOrder'
  <2>1. UNCHANGED <<rp, iterator, notified>>
    BY <1>2, Zenon DEF WorkerStep, PickBoot, Wrap, Take, PickRandom, Dial, Load, Store, Count,
                EndTask, Done
  <2>2. \A k \in 1..rp : pArray'[k] = pArray[k]
    <3>1. CASE Store(w)
      <4>1. worker[w].new \in Peers
        BY <1>0, <3>1 DEF Store, WorkersOK
      <4>. QED
        BY <1>0, <1>1, <3>1, <4>1 DEF Store, RestOK
    <3>2. CASE ~Store(w)
      BY <1>2, <3>2, Zenon DEF WorkerStep, PickBoot, Wrap, Take, PickRandom, Dial, Load, Count,
                        EndTask, Done
    <3>. QED
      BY <3>1, <3>2
  <2>. QED
    BY <2>1, <2>2 DEF NotifiedInOrder, Info
<1>3. CASE IterCheck
  <2>1. iterator.pc # "send" /\ iterator'.pc # "send"
    BY <1>0, <1>3 DEF IterCheck, RestOK
  <2>. QED
    BY <1>3, <2>1 DEF IterCheck, NotifiedInOrder, Info
<1>4. CASE IterNext
  <2>1. CASE wp > rp
    <3>1. notified' = notified /\ rp' = rp + 1 /\ pArray' = pArray
      BY <1>4, <2>1 DEF IterNext
    <3>2. iterator.pc # "send" /\ iterator'.pc = "send" /\ iterator'.peer = Info(pArray[rp + 1])
      BY <1>4, <2>1 DEF IterNext
    <3>3. notified \in Seq(Peers \cup {None}) /\ Len(notified) = rp
          /\ \A k \in 1..rp : notified[k] = Info(pArray[k])
      BY <1>0, <3>2 DEF NotifiedInOrder, RestOK
    <3>4. Info(pArray[rp + 1]) \in Peers \cup {None}
      BY <1>0, <1>1, <2>1 DEF RestOK, Info
    <3>. DEFINE sent == notified \o <<Info(pArray[rp + 1])>>
    <3>5. rp \in Nat
      BY <1>0 DEF RestOK
    <3>6. Len(sent) = rp + 1 /\ \A k \in 1..(rp + 1) : sent[k] = Info(pArray[k])
      BY <3>3, <3>4, <3>5
    <3>7. (notified \o (IF iterator.pc = "send" THEN <<iterator.peer>> ELSE <<>>))' = sent
      BY <3>1, <3>2
    <3>8. \A k \in 1..rp' : Info(pArray'[k]) = Info(pArray[k])
      BY <3>1
    <3>. HIDE DEF sent
    <3>. QED
      BY <3>1, <3>6, <3>7, <3>8 DEF NotifiedInOrder, Info
  <2>2. CASE ~(wp > rp)
    <3>1. iterator.pc # "send" /\ iterator'.pc # "send"
      BY <1>0, <1>4, <2>2 DEF IterNext, RestOK
    <3>. QED
      BY <1>4, <2>2, <3>1 DEF IterNext, NotifiedInOrder, Info
  <2>. QED
    BY <2>1, <2>2
<1>5. CASE IterSend
  <2>1. CASE stop = "closed"
    BY <1>5, <2>1 DEF IterSend, NotifiedInOrder, Info
  <2>2. CASE stop # "closed"
    <3>1. notified' = Append(notified, iterator.peer) /\ iterator'.pc = "check"
          /\ iterator.pc = "send" /\ rp' = rp /\ pArray' = pArray
      BY <1>5, <2>2 DEF IterSend
    <3>2. notified \in Seq(Peers \cup {None}) /\ iterator.peer \in Peers \cup {None}
      BY <1>0 DEF RestOK
    <3>3. notified \o <<iterator.peer>> = Append(notified, iterator.peer)
      BY <3>2
    <3>4. Append(notified, iterator.peer) \o <<>> = Append(notified, iterator.peer)
      BY <3>2
    <3>. QED
      BY <3>1, <3>3, <3>4 DEF NotifiedInOrder, Info
  <2>. QED
    BY <2>1, <2>2
<1>6. CASE StopFlag \/ StopClose \/ UNCHANGED vars
  BY <1>6 DEF StopFlag, StopClose, vars, NotifiedInOrder, Info
<1>. QED
  BY <1>2, <1>3, <1>4, <1>5, <1>6 DEF Next, IterStep

\* What goes over nodeNotC is the list itself, entry by entry and in its order, for
\* any number of workers (nodeIterator, Next, Peer).
THEOREM InOrder == Spec => []NotifiedInOrder
<1>1. Init => NotifiedInOrder
  BY DEF Init, NotifiedInOrder
<1>. QED
  BY <1>1, InitTyped, InitInRange, StepTyped, StepInRange, StepInOrder, PTL DEF Spec
-----------------------------------------------------------------------------
(* Copies of a peer.  A worker that has found a peer absent from the map   *)
(* will list it once; a peer that is listed is in the map, and no further  *)
(* worker finds it absent.                                                 *)

Copies(p) == {k \in 1..Len(pArray) : pArray[k] = p}
Storing(p) == {w \in Workers : worker[w].pc = "store" /\ worker[w].new = p}

\* The inductive invariant behind CopiesBounded.
CopiesInv ==
  /\ \A k \in 1..Len(pArray) : pArray[k] \in pMap
  /\ \A p \in Peers :
       Cardinality(Copies(p)) + Cardinality(Storing(p)) <= Cardinality(Workers)

\* What is counted is finite.
LEMMA CopiesFinite ==
  ASSUME RestOK, NEW p
  PROVE  /\ IsFiniteSet(Copies(p)) /\ Cardinality(Copies(p)) \in Nat
         /\ IsFiniteSet(Storing(p)) /\ Cardinality(Storing(p)) \in Nat
         /\ Cardinality(Storing(p)) <= Cardinality(Workers)
         /\ Cardinality(Workers) \in Nat
<1>1. Len(pArray) \in Nat
  BY DEF RestOK
<1>2. IsFiniteSet(1..Len(pArray))
  BY <1>1, FS_Interval
<1>3. IsFiniteSet(Copies(p))
  BY <1>2, FS_Subset DEF Copies
<1>4. IsFiniteSet(Storing(p)) /\ Cardinality(Storing(p)) <= Cardinality(Workers)
  BY WorkersFinite, FS_Subset DEF Storing
<1>. QED
  BY <1>3, <1>4, WorkersFinite, FS_CardinalityType

\* A worker that neither looks a peer up nor lists one.
LEMMA SameStoring ==
  ASSUME WorkersOK, NEW w \in Workers, WorkerStep(w), ~Store(w), ~Load(w), NEW p
  PROVE  Storing(p)' = Storing(p)
<1>0. worker \in [Workers -> Records]
  BY DEF WorkersOK
<1>1. worker[w].pc # "store" /\ worker'[w].pc # "store"
  <2>1. CASE PickBoot(w)
    BY <1>0, <2>1 DEF PickBoot, Records
  <2>2. CASE Wrap(w) \/ Take(w) \/ PickRandom(w)
    BY <1>0, <2>2 DEF Wrap, Take, PickRandom, Records
  <2>3. CASE Dial(w)
    BY <1>0, <2>3 DEF Dial, Records
  <2>4. CASE Count(w)
    BY <1>0, <2>4 DEF Count, Records
  <2>5. CASE EndTask(w) \/ Done(w)
    BY <1>0, <2>5 DEF EndTask, Done, Records
  <2>. QED
    BY <2>1, <2>2, <2>3, <2>4, <2>5 DEF WorkerStep
<1>. QED
  BY <1>1, OthersKept DEF Storing

\* addPeer keeps the sum: the entry it adds replaces a worker that was to add it.
LEMMA StoreCopies ==
  ASSUME TypeOK, CopiesInv, NEW w \in Workers, Store(w)
  PROVE  CopiesInv'
<1>. DEFINE n == worker[w].new
<1>0. WorkersOK /\ RestOK
  BY Parts
<1>1. n \in Peers /\ worker[w].pc = "store" /\ w \in Storing(n)
  BY <1>0 DEF Store, WorkersOK, Storing
<1>2. worker'[w].pc = "count" /\ \A v \in Workers \ {w} : worker'[v] = worker[v]
  BY <1>0 DEF Store, WorkersOK, Records
<1>3. pArray' = Append(pArray, n) /\ pMap' = pMap \cup {n}
  BY DEF Store
<1>. HIDE DEF n
<1>4. /\ pArray \in Seq(Peers) /\ Len(pArray) \in Nat /\ Len(pArray') = Len(pArray) + 1
      /\ pArray'[Len(pArray) + 1] = n
      /\ \A k \in 1..Len(pArray) : pArray'[k] = pArray[k]
  BY <1>0, <1>1, <1>3 DEF RestOK
<1>5. \A k \in 1..Len(pArray') : pArray'[k] \in pMap'
  BY <1>3, <1>4 DEF CopiesInv
<1>6. ASSUME NEW p \in Peers
      PROVE  Cardinality(Copies(p)') + Cardinality(Storing(p)') <= Cardinality(Workers)
  <2>0. Cardinality(Copies(p)) + Cardinality(Storing(p)) <= Cardinality(Workers)
    BY DEF CopiesInv
  <2>1. CASE p = n
    <3>1. Copies(p)' = Copies(p) \cup {Len(pArray) + 1} /\ Len(pArray) + 1 \notin Copies(p)
      BY <1>4, <2>1 DEF Copies
    <3>2. Storing(p)' = Storing(p) \ {w} /\ w \in Storing(p)
      BY <1>1, <1>2, <2>1 DEF Storing
    <3>3. Cardinality(Copies(p)') = Cardinality(Copies(p)) + 1
      BY <1>0, <3>1, CopiesFinite, FS_AddElement, Zenon
    <3>4. Cardinality(Storing(p)') = Cardinality(Storing(p)) - 1
      BY <1>0, <3>2, CopiesFinite, FS_RemoveElement, Zenon
    <3>. QED
      BY <1>0, <2>0, <3>3, <3>4, CopiesFinite
  <2>2. CASE p # n
    <3>1. Copies(p)' = Copies(p)
      BY <1>4, <2>2 DEF Copies
    <3>2. Storing(p)' = Storing(p)
      BY <1>2, <2>2 DEF Storing, n
    <3>. QED
      BY <2>0, <3>1, <3>2
  <2>. QED
    BY <2>1, <2>2
<1>. QED
  BY <1>5, <1>6 DEF CopiesInv

\* A worker that finds a peer absent does so while nobody has listed it.
LEMMA LoadCopies ==
  ASSUME TypeOK, CopiesInv, NEW w \in Workers, Load(w)
  PROVE  CopiesInv'
<1>0. WorkersOK /\ RestOK
  BY Parts
<1>1. UNCHANGED <<pArray, pMap>>
  BY DEF Load, listVars
<1>2. \A p \in Peers : Copies(p)' = Copies(p)
  BY <1>1 DEF Copies
<1>3. PICK p \in worker[w].todo :
        worker' = [worker EXCEPT ![w].todo = @ \ {p},
                                 ![w].pc = IF p \in pMap THEN "add" ELSE "store",
                                 ![w].new = IF p \in pMap THEN @ ELSE p]
  BY Zenon DEF Load
<1>4. worker[w].pc = "add" /\ worker[w] \in Records
  BY <1>0 DEF Load, WorkersOK
<1>5. /\ worker'[w].pc = IF p \in pMap THEN "add" ELSE "store"
      /\ p \notin pMap => worker'[w].new = p
      /\ \A v \in Workers \ {w} : worker'[v] = worker[v]
  BY <1>0, <1>3, <1>4 DEF WorkersOK, Records
<1>6. ASSUME NEW q \in Peers
      PROVE  Cardinality(Copies(q)') + Cardinality(Storing(q)') <= Cardinality(Workers)
  <2>1. CASE q = p /\ p \notin pMap
    <3>1. Copies(q) = {}
      BY <2>1 DEF Copies, CopiesInv
    <3>2. Cardinality(Copies(q)') = 0
      BY <1>2, <3>1, FS_EmptySet
    <3>3. Storing(q)' \subseteq Workers
      BY DEF Storing
    <3>4. /\ IsFiniteSet(Storing(q)')
          /\ Cardinality(Storing(q)') <= Cardinality(Workers)
      BY <3>3, WorkersFinite, FS_Subset
    <3>. QED
      BY <3>2, <3>4, FS_CardinalityType
  <2>2. CASE q # p \/ p \in pMap
    <3>1. Storing(q)' = Storing(q)
      BY <1>4, <1>5, <2>2 DEF Storing
    <3>. QED
      BY <1>2, <3>1 DEF CopiesInv
  <2>. QED
    BY <2>1, <2>2
<1>. QED
  BY <1>1, <1>6 DEF CopiesInv

\* Every step keeps the bound on the copies of a peer.
LEMMA StepCopies == TypeOK /\ CopiesInv /\ [Next]_vars => CopiesInv'
<1>. SUFFICES ASSUME TypeOK, CopiesInv, [Next]_vars PROVE CopiesInv'
  OBVIOUS
<1>0. WorkersOK /\ RestOK
  BY Parts
<1>1. ASSUME UNCHANGED <<pArray, pMap>>, \A p \in Peers : Storing(p)' = Storing(p)
      PROVE  CopiesInv'
  <2>1. \A p \in Peers : Copies(p)' = Copies(p)
    BY <1>1 DEF Copies
  <2>. QED
    BY <1>1, <2>1 DEF CopiesInv
<1>2. ASSUME NEW w \in Workers, WorkerStep(w), ~Store(w), ~Load(w) PROVE CopiesInv'
  <2>1. UNCHANGED <<pArray, pMap>>
    BY <1>2 DEF WorkerStep, PickBoot, Wrap, Take, PickRandom, Dial, Count, EndTask, Done,
                listVars
  <2>. QED
    BY <1>0, <1>1, <1>2, <2>1, SameStoring
<1>3. CASE IterStep \/ StopFlag \/ StopClose \/ UNCHANGED vars
  <2>1. UNCHANGED <<pArray, pMap, worker>>
    BY <1>3 DEF IterStep, IterCheck, IterNext, IterSend, StopFlag, StopClose, vars, listVars
  <2>2. \A p \in Peers : Storing(p)' = Storing(p)
    BY <2>1 DEF Storing
  <2>. QED
    BY <1>1, <2>1, <2>2
<1>. QED
  BY <1>2, <1>3, StoreCopies, LoadCopies DEF Next

\* The bootnodes are listed once and there is a worker.
LEMMA InitCopies == Init => CopiesInv
<1>. SUFFICES ASSUME Init PROVE CopiesInv
  OBVIOUS
<1>0. WorkersOK /\ RestOK
  BY InitTyped, Parts
<1>1. \A k \in 1..Len(pArray) : pArray[k] \in pMap
  BY DEF Init
<1>2. Cardinality(Workers) >= 1
  <2>1. Cardinality(Workers) # 0
    BY WorkersFinite, KdhtAssumption, FS_EmptySet
  <2>. QED
    BY <2>1, WorkersFinite, FS_CardinalityType
<1>3. ASSUME NEW p \in Peers
      PROVE  Cardinality(Copies(p)) + Cardinality(Storing(p)) <= Cardinality(Workers)
  <2>1. Storing(p) = {}
    BY DEF Init, Storing
  <2>2. Cardinality(Storing(p)) = 0
    BY <2>1, FS_EmptySet
  <2>3. Copies(p) = {} \/ \E k \in 1..Len(pArray) : Copies(p) = {k}
    BY KdhtAssumption DEF Init, Copies
  <2>4. Cardinality(Copies(p)) <= 1
    <3>1. CASE Copies(p) = {}
      <4>1. Cardinality(Copies(p)) = 0
        BY <3>1, FS_EmptySet
      <4>. QED
        BY <4>1
    <3>2. ASSUME NEW k \in 1..Len(pArray), Copies(p) = {k} PROVE Cardinality(Copies(p)) <= 1
      <4>1. Cardinality(Copies(p)) = 1
        BY <3>2, FS_Singleton, Zenon
      <4>. QED
        BY <4>1
    <3>. QED
      BY <2>3, <3>1, <3>2
  <2>. QED
    BY <1>0, <1>2, <2>2, <2>4, CopiesFinite
<1>. QED
  BY <1>1, <1>3 DEF CopiesInv

\* addPeer's lookup and insertion are two steps, yet no peer is listed more often
\* than there are workers, for any number of them (addPeer).
THEOREM CopiesLimited == Spec => []CopiesBounded
<1>1. TypeOK /\ CopiesInv => CopiesBounded
  <2>. SUFFICES ASSUME TypeOK, CopiesInv, NEW p \in Peers
                PROVE  Cardinality(Copies(p)) <= Cardinality(Workers)
    BY DEF CopiesBounded, Copies
  <2>1. RestOK
    BY Parts
  <2>2. Cardinality(Copies(p)) + Cardinality(Storing(p)) <= Cardinality(Workers)
    BY DEF CopiesInv
  <2>. QED
    BY <2>1, <2>2, CopiesFinite
<1>. QED
  BY <1>1, Typed, InitCopies, StepCopies, PTL DEF Spec
=============================================================================
