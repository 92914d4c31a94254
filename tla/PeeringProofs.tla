--------------------------- MODULE PeeringProofs ---------------------------
(***************************************************************************)
(* Proofs about the peering service, for any number of peers and workers,  *)
(* any delays and any length of the run.                                   *)
(***************************************************************************)
EXTENDS PruningStrategy, FiniteSetTheorems, TLAPS

-----------------------------------------------------------------------------
(* PrunedPeer.                                                             *)

\* The three writes of UpdateDelay, and the creation of a peer, yield a PrunedPeer.
LEMMA PrunedPeerType ==
  ASSUME NEW pp \in PrunedPeers, NEW t \in Nat, NEW err
  PROVE  /\ StampConnection(pp, t) \in PrunedPeers
         /\ RefreshDelay(pp, err, t) \in PrunedPeers
         /\ IncreaseDegree(pp) \in PrunedPeers
         /\ NewPrunedPeer("Minus1", t) \in PrunedPeers
<1>1. ErrorToDelayType(err) \in Delay
  BY DEF ErrorToDelayType, Delay
<1>2. MaxDegree \in Nat
  BY DelayAssumption
<1>3. StampConnection(pp, t) \in PrunedPeers
  BY DEF PrunedPeers, StampConnection
<1>4. RefreshDelay(pp, err, t) \in PrunedPeers
  <2>. DEFINE dtype == ErrorToDelayType(err)
              degree == IF dtype = pp.dtype THEN pp.degree ELSE 0
              base == IF dtype = "Positive" THEN t ELSE pp.baseDeprecation
  <2>1. /\ RefreshDelay(pp, err, t) = [pp EXCEPT !.dtype = dtype, !.degree = degree,
                                                 !.baseDeprecation = base]
        /\ dtype \in Delay /\ degree \in 0..MaxDegree /\ base \in Nat
    BY <1>1, <1>2 DEF RefreshDelay, PrunedPeers
  <2>. QED  BY <2>1, Zenon DEF PrunedPeers
<1>5. IncreaseDegree(pp) \in PrunedPeers
  BY <1>2 DEF PrunedPeers, IncreaseDegree
<1>6. NewPrunedPeer("Minus1", t) \in PrunedPeers
  BY <1>2 DEF PrunedPeers, NewPrunedPeer, Delay
<1>. QED  BY <1>3, <1>4, <1>5, <1>6

-----------------------------------------------------------------------------
(* The list of the PeerQueue.                                              *)

\* A reordered list has the same entries, at the places a permutation gives.
LEMMA ReorderedList ==
  ASSUME NEW S, NEW list \in Seq(S), NEW new \in Reordered(list)
  PROVE  /\ new \in Seq(S)
         /\ Range(new) = Range(list)
         /\ (\A i, j \in 1..Len(list) : list[i] = list[j] => i = j)
              => \A i, j \in 1..Len(new) : new[i] = new[j] => i = j
<1>. DEFINE D == 1..Len(list)
<1>1. PICK f \in Bijection(D, D) : new = [i \in D |-> list[f[i]]]
  BY DEF Reordered
<1>2. /\ f \in [D -> D]
      /\ \A a, b \in D : f[a] = f[b] => a = b
      /\ \A t \in D : \E s \in D : f[s] = t
  BY DEF Bijection, Injection, Surjection, IsInjective
<1>3. new \in Seq(S) /\ Len(new) = Len(list) /\ DOMAIN new = D
  BY <1>1, <1>2
<1>4. Range(new) = Range(list)
  <2>1. \A x \in Range(new) : x \in Range(list)
    BY <1>1, <1>2, <1>3 DEF Range
  <2>2. ASSUME NEW t \in D  PROVE list[t] \in Range(new)
    <3>1. PICK s \in D : f[s] = t
      BY <1>2
    <3>2. new[s] = list[t]
      BY <1>1, <3>1
    <3>. QED  BY <1>3, <3>2 DEF Range
  <2>3. \A x \in Range(list) : x \in Range(new)
    BY <2>2 DEF Range
  <2>. QED  BY <2>1, <2>3, Zenon
<1>5. ASSUME \A i, j \in D : list[i] = list[j] => i = j
      PROVE  \A i, j \in 1..Len(new) : new[i] = new[j] => i = j
  <2>1. SUFFICES ASSUME NEW i \in D, NEW j \in D, new[i] = new[j]  PROVE i = j
    BY <1>3
  <2>2. list[f[i]] = list[f[j]] /\ f[i] \in D /\ f[j] \in D
    BY <1>1, <1>2, <2>1, Zenon
  <2>3. f[i] = f[j]
    BY <1>5, <2>2
  <2>. QED  BY <1>2, <2>3
<1>. QED  BY <1>3, <1>4, <1>5

\* RemoveAt drops one entry and closes the gap.
LEMMA RemoveAtList ==
  ASSUME NEW S, NEW list \in Seq(S), NEW k \in 1..Len(list)
  PROVE  /\ RemoveAt(list, k) \in Seq(S)
         /\ Len(RemoveAt(list, k)) = Len(list) - 1
         /\ \A i \in 1..(Len(list) - 1) :
              RemoveAt(list, k)[i] = IF i < k THEN list[i] ELSE list[i + 1]
<1>. DEFINE a == SubSeq(list, 1, k - 1)
            b == SubSeq(list, k + 1, Len(list))
<1>1. /\ a \in Seq(S) /\ Len(a) = k - 1
      /\ \A i \in 1..(k - 1) : a[i] = list[i]
  OBVIOUS
<1>2. /\ b \in Seq(S) /\ Len(b) = Len(list) - k
      /\ \A i \in 1..(Len(list) - k) : b[i] = list[k + i]
  OBVIOUS
<1>3. RemoveAt(list, k) = a \o b
  BY DEF RemoveAt
<1>. HIDE DEF a, b
<1>4. /\ a \o b \in Seq(S) /\ Len(a \o b) = Len(list) - 1
      /\ \A i \in 1..(Len(list) - 1) :
           (a \o b)[i] = IF i <= k - 1 THEN a[i] ELSE b[i - (k - 1)]
  <2>1. /\ a \o b \in Seq(S) /\ Len(a \o b) = Len(a) + Len(b)
        /\ \A i \in 1..(Len(a) + Len(b)) :
             (a \o b)[i] = IF i <= Len(a) THEN a[i] ELSE b[i - Len(a)]
    <3>1. a \in Seq(S) /\ b \in Seq(S)
      BY <1>1, <1>2
    <3>. QED  BY ONLY <3>1
  <2>2. Len(a) = k - 1 /\ Len(a) + Len(b) = Len(list) - 1
    <3>1. Len(list) \in Nat /\ k \in Int
      OBVIOUS
    <3>2. Len(a) = k - 1 /\ Len(b) = Len(list) - k
      BY <1>1, <1>2
    <3>. QED  BY <3>1, <3>2
  <2>. QED  BY <2>1, <2>2
<1>5. ASSUME NEW i \in 1..(Len(list) - 1)
      PROVE  (a \o b)[i] = IF i < k THEN list[i] ELSE list[i + 1]
  <2>1. CASE i < k
    BY <1>1, <1>4, <2>1
  <2>2. CASE ~(i < k)
    <3>1. i - (k - 1) \in 1..(Len(list) - k) /\ k + (i - (k - 1)) = i + 1
      BY <2>2
    <3>. QED  BY <1>2, <1>4, <2>2, <3>1
  <2>. QED  BY <2>1, <2>2, Zenon
<1>. QED  BY <1>3, <1>4, <1>5, Zenon

\* IndexOf finds a peer that is in the list.
LEMMA IndexOfPeer ==
  ASSUME NEW p \in Range(peerList), peerList \in Seq(Peers)
  PROVE  IndexOf(p) \in 1..Len(peerList) /\ peerList[IndexOf(p)] = p
<1>1. \E i \in 1..Len(peerList) : peerList[i] = p
  BY DEF Range
<1>. QED  BY <1>1 DEF IndexOf

\* RemovePeer keeps the two halves of the queue in agreement, and moves every
\* entry of the list to its place or to the place before.
LEMMA RemovePeerQueue ==
  ASSUME TypeOK, QueueAgreement, NEW p \in Peers, RemovePeer(p)
  PROVE  /\ peerList' \in Seq(Peers)
         /\ DOMAIN peerMap' = DOMAIN peerMap \ {p}
         /\ \A q \in DOMAIN peerMap' : peerMap'[q] = peerMap[q]
         /\ QueueAgreement'
         /\ \A i \in 1..Len(peerList') :
              \E j \in 1..Len(peerList) : j >= i /\ peerList'[i] = peerList[j]
<1>0. peerList \in Seq(Peers) /\ Len(peerList) \in Nat
      /\ DOMAIN peerList = 1..Len(peerList)
  BY DEF TypeOK
<1>1. CASE p \notin DOMAIN peerMap
  <2>1. peerMap' = peerMap /\ peerList' = peerList
    BY <1>1 DEF RemovePeer
  <2>2. QueueAgreement'
    BY <2>1 DEF QueueAgreement
  <2>3. \A i \in 1..Len(peerList) : i >= i
    BY <1>0
  <2>. QED  BY <1>0, <1>1, <2>1, <2>2, <2>3, Zenon
<1>2. CASE p \in DOMAIN peerMap
  <2>. DEFINE k == IndexOf(p)
  <2>1. p \in Range(peerList)
    BY <1>2 DEF QueueAgreement
  <2>2. k \in 1..Len(peerList) /\ peerList[k] = p
    BY <1>0, <2>1, IndexOfPeer
  <2>. HIDE DEF k
  <2>3. peerList' = RemoveAt(peerList, k)
    BY <1>2, <2>1 DEF RemovePeer, k
  <2>4. /\ peerList' \in Seq(Peers)
        /\ Len(peerList') = Len(peerList) - 1
        /\ DOMAIN peerList' = 1..(Len(peerList) - 1)
        /\ \A i \in 1..(Len(peerList) - 1) :
             peerList'[i] = IF i < k THEN peerList[i] ELSE peerList[i + 1]
    <3>1. /\ RemoveAt(peerList, k) \in Seq(Peers)
          /\ Len(RemoveAt(peerList, k)) = Len(peerList) - 1
          /\ \A i \in 1..(Len(peerList) - 1) :
               RemoveAt(peerList,
                   k)[i] = IF i < k THEN peerList[i] ELSE peerList[i + 1]
      BY <1>0, <2>2, RemoveAtList, Zenon
    <3>. QED  BY <2>3, <3>1
  <2>5. /\ DOMAIN peerMap' = DOMAIN peerMap \ {p}
        /\ \A q \in DOMAIN peerMap' : peerMap'[q] = peerMap[q]
    BY <1>2 DEF RemovePeer, Restrict
  <2>6. \A i, j \in 1..Len(peerList) : peerList[i] = peerList[j] => i = j
    BY DEF QueueAgreement
  <2>7. ASSUME NEW i \in 1..Len(peerList'), NEW j \in 1..Len(peerList'),
               peerList'[i] = peerList'[j]
        PROVE  i = j
    <3>. DEFINE old(m) == IF m < k THEN m ELSE m + 1
    <3>1. /\ old(i) \in 1..Len(peerList) /\ old(j) \in 1..Len(peerList)
          /\ peerList'[i] = peerList[old(i)] /\ peerList'[j] = peerList[old(j)]
      BY <1>0, <2>2, <2>4
    <3>2. old(i) = old(j)
      BY <2>6, <2>7, <3>1, Zenon
    <3>. QED  BY <1>0, <2>2, <2>4, <3>2
  <2>8. Range(peerList') = Range(peerList) \ {p}
    <3>1. Range(peerList') \subseteq Range(peerList) \ {p}
      BY <1>0, <2>2, <2>4, <2>6 DEF Range
    <3>2. ASSUME NEW q \in Range(peerList) \ {p}
          PROVE  q \in Range(peerList')
      <4>1. PICK i \in 1..Len(peerList) : peerList[i] = q
        BY <1>0 DEF Range
      <4>2. CASE i < k
        BY <1>0, <4>1, <4>2, <2>2, <2>4 DEF Range
      <4>3. CASE i > k
        <5>1. i - 1 \in 1..Len(peerList') /\ peerList'[i - 1] = q
          BY <1>0, <4>1, <4>3, <2>2, <2>4
        <5>. QED  BY <5>1, <2>4 DEF Range
      <4>. QED  BY <4>1, <4>2, <4>3, <2>2
    <3>. QED  BY <3>1, <3>2
  <2>9. QueueAgreement'
    BY <2>5, <2>7, <2>8 DEF QueueAgreement
  <2>10. \A i \in 1..Len(peerList') :
           \E j \in 1..Len(peerList) : j >= i /\ peerList'[i] = peerList[j]
    BY <1>0, <2>2, <2>4
  <2>. QED  BY <2>4, <2>5, <2>9, <2>10
<1>. QED  BY <1>1, <1>2

\* AddPeer puts a new peer at the front of the list and into the map.
LEMMA AddPeerQueue ==
  ASSUME TypeOK, QueueAgreement, NEW p \in Peers, p \notin DOMAIN peerMap, AddPeer(p)
  PROVE  /\ peerList' \in Seq(Peers)
         /\ DOMAIN peerMap' = DOMAIN peerMap \cup {p}
         /\ peerMap'[p] = NewPrunedPeer("Minus1", now)
         /\ \A q \in DOMAIN peerMap : peerMap'[q] = peerMap[q]
         /\ QueueAgreement'
<1>. DEFINE n == Len(peerList)
<1>1. peerList \in Seq(Peers) /\ n \in Nat /\ DOMAIN peerList = 1..n
  BY DEF TypeOK
<1>2. <<p>> \in Seq(Peers) /\ Len(<<p>>) = 1 /\ <<p>>[1] = p
  OBVIOUS
<1>3. /\ peerList' = <<p>> \o peerList
      /\ peerList' \in Seq(Peers)
      /\ Len(peerList') = n + 1
  BY <1>1, <1>2 DEF AddPeer
<1>4. DOMAIN peerList' = 1..(n + 1)
  BY <1>1, <1>3
<1>5. /\ peerList'[1] = p
      /\ \A i \in 2..(n + 1) : i - 1 \in 1..n /\ peerList'[i] = peerList[i - 1]
  BY <1>1, <1>2, <1>3
<1>6. /\ DOMAIN peerMap' = DOMAIN peerMap \cup {p}
      /\ peerMap'[p] = NewPrunedPeer("Minus1", now)
      /\ \A q \in DOMAIN peerMap : peerMap'[q] = peerMap[q]
  BY DEF AddPeer
<1>7. Range(peerList') = Range(peerList) \cup {p}
  <2>1. ASSUME NEW x \in Range(peerList')  PROVE x \in Range(peerList) \cup {p}
    BY <1>1, <1>4, <1>5, <2>1 DEF Range
  <2>2. p \in Range(peerList')
    BY <1>1, <1>4, <1>5 DEF Range
  <2>3. ASSUME NEW i \in 1..n  PROVE peerList[i] \in Range(peerList')
    <3>1. i + 1 \in 2..(n + 1) /\ i + 1 \in 1..(n + 1) /\ (i + 1) - 1 = i
      BY <1>1
    <3>. QED  BY <1>4, <1>5, <3>1 DEF Range
  <2>. QED  BY <1>1, <2>1, <2>2, <2>3 DEF Range
<1>8. ASSUME NEW i \in 1..(n + 1), NEW j \in 1..(n + 1), peerList'[i] = peerList'[j]
      PROVE  i = j
  <2>1. \A k \in 1..n : peerList[k] # p
    BY <1>1 DEF QueueAgreement, Range
  <2>2. \A k, m \in 1..n : peerList[k] = peerList[m] => k = m
    BY DEF QueueAgreement
  <2>. QED  BY <1>1, <1>5, <1>8, <2>1, <2>2
<1>. QED
  <2>1. Range(peerList') = DOMAIN peerMap'
    BY <1>6, <1>7 DEF QueueAgreement
  <2>2. QueueAgreement'
    BY <1>3, <1>8, <2>1 DEF QueueAgreement
  <2>. QED  BY <1>3, <1>6, <2>2

-----------------------------------------------------------------------------
(* Types.                                                                  *)

TypeInv == TypeOK /\ PeerInHand /\ RecorderBusy

\* Every step keeps the types.
LEMMA TypeStep ==
  ASSUME TypeInv, QueueAgreement, [Next]_vars
  PROVE  TypeInv'
<1>. USE DEF TypeInv, TypeOK, PeerInHand, RecorderBusy
<1>a. worker \in [Workers -> WorkerStates]
  OBVIOUS
<1>b. /\ DOMAIN peerMap \subseteq Peers
      /\ peerMap \in [DOMAIN peerMap -> PrunedPeers]
      /\ now \in Nat
  OBVIOUS
<1>c. /\ recorder \in RecorderStates
      /\ recorder.pc \in {"delay", "degree", "remove", "persist"}
           => recorder.peer \in Peers
  OBVIOUS
<1>d. peerList \in Seq(Peers) /\ nextPeerChan \in Nat /\ panic \in BOOLEAN
  OBVIOUS
<1>e. TypeOK
  OBVIOUS
<1>. HIDE DEF TypeInv, TypeOK, PeerInHand, RecorderBusy
<1>. USE DEF queueVars, iterVars, chanVars, dbVars, procVars
<1>1. CASE GetNonDeprecatedPeers
  BY <1>1 DEF TypeInv, TypeOK, PeerInHand, RecorderBusy, GetNonDeprecatedPeers
<1>2. CASE GetNonDeprecatedPeersFails
  BY <1>2 DEF TypeInv, TypeOK, PeerInHand, RecorderBusy,
  GetNonDeprecatedPeersFails, AfterUpdate
<1>3. ASSUME NEW p \in Peers, MergeRow(p)  PROVE TypeInv'
  <2>1. CASE p \in DOMAIN peerMap
    BY <1>3, <2>1 DEF TypeInv, TypeOK, PeerInHand, RecorderBusy, MergeRow
  <2>2. CASE p \notin DOMAIN peerMap
    <3>1. peerList' \in Seq(Peers)
      BY <1>3, <1>e, <2>2, AddPeerQueue, Zenon DEF MergeRow
    <3>2. NewPrunedPeer("Minus1", now) \in PrunedPeers
      BY <1>b, DelayAssumption DEF PrunedPeers, NewPrunedPeer, Delay
    <3>3. /\ DOMAIN peerMap' \subseteq Peers
          /\ peerMap' \in [DOMAIN peerMap' -> PrunedPeers]
      BY <1>3, <1>b, <2>2, <3>2 DEF MergeRow, AddPeer
    <3>. QED  BY <1>3, <3>1, <3>3 DEF TypeInv, TypeOK, PeerInHand, RecorderBusy,
        MergeRow
  <2>. QED  BY <2>1, <2>2
<1>4. CASE SortPeerList
  BY <1>4, ReorderedList DEF TypeInv, TypeOK, PeerInHand, RecorderBusy,
  SortPeerList, SortedLists, AfterUpdate
<1>5. CASE IteratorReceive
  BY <1>5 DEF TypeInv, TypeOK, PeerInHand, RecorderBusy, IteratorReceive
<1>6. CASE CheckNextPeer
  BY <1>6 DEF TypeInv, TypeOK, PeerInHand, RecorderBusy, CheckNextPeer
<1>7. CASE GetNextPeer
  <2>1. CASE peerPtr >= Len(peerList)
    BY <1>7, <2>1 DEF TypeInv, TypeOK, PeerInHand, RecorderBusy, GetNextPeer
  <2>2. CASE ~(peerPtr >= Len(peerList))
    <3>1. peerList[peerPtr + 1] \in Peers
      BY <1>e, <2>2 DEF TypeOK
    <3>2. /\ nextPeer' \in Peers
          /\ attemptedPeers' \subseteq Peers
          /\ peerPtr' \in Nat
          /\ iterPc' \in {"call", "push"}
          /\ UNCHANGED panic
      BY <1>7, <1>e, <2>2, <3>1 DEF GetNextPeer, TypeOK
    <3>. QED  BY <1>7, <3>2 DEF TypeInv, TypeOK, PeerInHand, RecorderBusy,
        GetNextPeer
  <2>. QED  BY <2>1, <2>2
<1>8. CASE PushPeer
  <2>1. peerStreamChan' \in Seq(Peers)
    BY <1>8 DEF PushPeer, TypeInv, TypeOK, PeerInHand
  <2>. QED  BY <1>8, <2>1, Zenon DEF TypeInv, TypeOK, PeerInHand, RecorderBusy, PushPeer
<1>9. CASE EndIteration
  BY <1>9 DEF TypeInv, TypeOK, PeerInHand, RecorderBusy, EndIteration
<1>10. CASE CallForPeer
  <2>1. nextPeerChan' \in Nat
    BY <1>10, <1>d DEF CallForPeer
  <2>. QED  BY <1>10, <2>1, Zenon DEF TypeInv, TypeOK, PeerInHand, RecorderBusy,
      CallForPeer
<1>11. CASE IteratorStop
  BY <1>11 DEF TypeInv, TypeOK, PeerInHand, RecorderBusy, IteratorStop
<1>12. ASSUME NEW w \in Workers, NextPeer(w)  PROVE TypeInv'
  <2>1. nextPeerChan' \in Nat
    BY <1>12, <1>d DEF NextPeer
  <2>0. panic' \in BOOLEAN
    BY <1>12, <1>d, Zenon DEF NextPeer
  <2>2. worker' \in [Workers -> WorkerStates]
    BY <1>12, <1>a DEF NextPeer, WorkerStates
  <2>. QED  BY <1>12, <2>0, <2>1, <2>2 DEF TypeInv, TypeOK, PeerInHand,
      RecorderBusy, NextPeer
<1>13. ASSUME NEW w \in Workers, ReceivePeer(w)  PROVE TypeInv'
  <2>1. peerStreamChan' \in Seq(Peers) /\ Head(peerStreamChan) \in Peers
    BY <1>13, <1>e DEF ReceivePeer, TypeOK
  <2>2. worker' \in [Workers -> WorkerStates]
    BY <1>13, <1>a, <2>1, Zenon DEF ReceivePeer, WorkerStates
  <2>. QED  BY <1>13, <2>1, <2>2 DEF TypeInv, TypeOK, PeerInHand, RecorderBusy,
      ReceivePeer
<1>14. ASSUME NEW w \in Workers, ReceiveNil(w)  PROVE TypeInv'
  BY <1>14 DEF TypeInv, TypeOK, PeerInHand, RecorderBusy, ReceiveNil
<1>15. ASSUME NEW w \in Workers, AlreadyConnected(w)  PROVE TypeInv'
  <2>1. worker' \in [Workers -> WorkerStates]
    BY <1>15, <1>a DEF AlreadyConnected, WorkerStates, Ready
  <2>. QED  BY <1>15, <2>1 DEF TypeInv, TypeOK, PeerInHand, RecorderBusy,
      AlreadyConnected
<1>16. ASSUME NEW w \in Workers, NEW err \in DialErrors \cup {NoConnError},
    Dial(w, err)
      PROVE  TypeInv'
  <2>1. worker' \in [Workers -> WorkerStates]
    BY <1>16, <1>a, Zenon DEF Dial, WorkerStates
  <2>. QED  BY <1>16, <2>1 DEF TypeInv, TypeOK, PeerInHand, RecorderBusy, Dial
<1>17. ASSUME NEW w \in Workers, WorkerStop(w)  PROVE TypeInv'
  <2>1. worker' \in [Workers -> WorkerStates]
    BY <1>17, <1>a DEF WorkerStop, WorkerStates
  <2>. QED  BY <1>17, <2>1 DEF TypeInv, TypeOK, PeerInHand, RecorderBusy, WorkerStop
<1>18. ASSUME NEW w \in Workers, RecordAttempt(w)  PROVE TypeInv'
  <2>1. worker' \in [Workers -> WorkerStates]
    BY <1>18, <1>a DEF RecordAttempt, WorkerStates, Ready
  <2>2. /\ DOMAIN peerMap' = DOMAIN peerMap
        /\ peerMap' \in [DOMAIN peerMap -> PrunedPeers]
    <3>. DEFINE q == worker[w].peer
    <3>1. CASE q \in DOMAIN peerMap
      <4>1. StampConnection(peerMap[q], now) \in PrunedPeers
        BY <1>b, <3>1, PrunedPeerType
      <4>2. peerMap' = [peerMap EXCEPT ![q] = StampConnection(peerMap[q], now)]
        BY <1>18, <3>1 DEF RecordAttempt
      <4>. HIDE DEF q
      <4>. QED  BY <1>b, <4>1, <4>2, Zenon
    <3>2. CASE q \notin DOMAIN peerMap
      BY <1>18, <1>b, <3>2 DEF RecordAttempt
    <3>. QED  BY <3>1, <3>2
  <2>3. recorder' \in RecorderStates /\ RecorderBusy'
    BY <1>18, <1>a, <1>b, <1>c, Zenon DEF RecordAttempt, RecorderStates, WorkerStates,
    RecorderBusy
  <2>. QED  BY <1>18, <2>1, <2>2, <2>3 DEF TypeInv, TypeOK, PeerInHand,
      RecorderBusy, RecordAttempt
<1>19. CASE RecordDelay
  <2>1. /\ DOMAIN peerMap' = DOMAIN peerMap
        /\ peerMap' \in [DOMAIN peerMap -> PrunedPeers]
    BY <1>19, <1>b, PrunedPeerType, Zenon DEF RecordDelay
  <2>2. recorder' \in RecorderStates /\ RecorderBusy'
    BY <1>19, <1>c DEF RecordDelay, RecorderBusy, RecorderStates
  <2>. QED  BY <1>19, <2>1, <2>2 DEF TypeInv, TypeOK, PeerInHand, RecorderBusy,
      RecordDelay
<1>20. CASE RecordDegree
  <2>1. /\ DOMAIN peerMap' = DOMAIN peerMap
        /\ peerMap' \in [DOMAIN peerMap -> PrunedPeers]
    BY <1>20, <1>b, PrunedPeerType, Zenon DEF RecordDegree
  <2>2. recorder' \in RecorderStates /\ RecorderBusy'
    BY <1>20, <1>c, Zenon DEF RecordDegree, RecorderBusy, RecorderStates, AttemptKind,
    Kinds
  <2>. QED  BY <1>20, <2>1, <2>2 DEF TypeInv, TypeOK, PeerInHand, RecorderBusy,
      RecordDegree
<1>21. CASE RecordDeprecation
  <2>1. recorder' \in RecorderStates /\ RecorderBusy' /\ recorder.peer \in Peers
    BY <1>21, <1>c DEF RecordDeprecation, RecorderBusy, RecorderStates
  <2>2. /\ peerList' \in Seq(Peers)
        /\ DOMAIN peerMap' = DOMAIN peerMap \ {recorder.peer}
        /\ \A q \in DOMAIN peerMap' : peerMap'[q] = peerMap[q]
    BY <1>21, <1>e, <2>1, RemovePeerQueue, Zenon DEF RecordDeprecation
  <2>3. peerMap' \in [DOMAIN peerMap' -> PrunedPeers]
    BY <1>21, <1>b, <2>2 DEF RecordDeprecation, RemovePeer, Restrict
  <2>. QED  BY <1>21, <2>1, <2>2, <2>3 DEF TypeInv, TypeOK, PeerInHand,
      RecorderBusy, RecordDeprecation
<1>22. CASE PersistAttempt
  <2>1. recorder' \in RecorderStates /\ RecorderBusy'
    BY <1>22, <1>c DEF PersistAttempt, RecorderBusy, RecorderStates, Idle, Kinds
  <2>2. persistC' \in Seq(Writes)
    BY <1>22, <1>c, <1>e DEF PersistAttempt, RecorderStates, Writes, TypeOK
  <2>. QED  BY <1>22, <2>1, <2>2 DEF TypeInv, TypeOK, PeerInHand, RecorderBusy,
      PersistAttempt
<1>23. ASSUME NEW p \in Discoverable, RecordIdentification(p)  PROVE TypeInv'
  <2>1. recorder' \in RecorderStates /\ RecorderBusy'
    BY <1>23, <1>c, StrategyAssumption, Zenon DEF RecordIdentification, RecorderBusy,
    RecorderStates, Idle, Kinds
  <2>. QED  BY <1>23, <2>1 DEF TypeInv, TypeOK, PeerInHand, RecorderBusy,
      RecordIdentification
<1>24. CASE RecordNilEvent
  BY <1>24 DEF TypeInv, TypeOK, PeerInHand, RecorderBusy, RecordNilEvent
<1>25. CASE RecorderStop
  <2>1. recorder' \in RecorderStates /\ RecorderBusy'
    BY <1>25, <1>c DEF RecorderStop, RecorderBusy, RecorderStates
  <2>. QED  BY <1>25, <2>1 DEF TypeInv, TypeOK, PeerInHand, RecorderBusy,
      RecorderStop
<1>26. ASSUME NEW p \in Discoverable, Discover(p)  PROVE TypeInv'
  <2>1. persistC' \in Seq(Writes)
    BY <1>26, <1>e, StrategyAssumption DEF Discover, Writes, Kinds, TypeOK
  <2>. QED  BY <1>26, <2>1 DEF TypeInv, TypeOK, PeerInHand, RecorderBusy, Discover
<1>27. ASSUME NEW i \in 1..PersistCap, ApplyWrite(i)  PROVE TypeInv'
  <2>1. persistC' \in Seq(Writes) /\ persistC[i] \in Writes
    BY <1>27, <1>e, RemoveAtList DEF ApplyWrite, TypeOK
  <2>2. db' \in [Peers -> {"absent", "active", "deprecated"}]
    BY <1>27, <1>e, <2>1 DEF ApplyWrite, Apply, Writes, TypeOK
  <2>. QED  BY <1>27, <2>1, <2>2 DEF TypeInv, TypeOK, PeerInHand, RecorderBusy,
      ApplyWrite
<1>28. ASSUME NEW i \in 1..PersistCap, DropWrite(i)  PROVE TypeInv'
  <2>1. persistC' \in Seq(Writes)
    BY <1>28, <1>e, RemoveAtList DEF DropWrite, TypeOK
  <2>. QED  BY <1>28, <2>1 DEF TypeInv, TypeOK, PeerInHand, RecorderBusy, DropWrite
<1>29. CASE Tick
  BY <1>29 DEF TypeInv, TypeOK, PeerInHand, RecorderBusy, Tick
<1>30. CASE Cancel
  BY <1>30 DEF TypeInv, TypeOK, PeerInHand, RecorderBusy, Cancel
<1>31. CASE Exit
  BY <1>31 DEF TypeInv, TypeOK, PeerInHand, RecorderBusy, Exit, vars
<1>32. CASE IteratorStep
  BY <1>32, <1>1, <1>2, <1>3, <1>4, <1>5, <1>6, <1>7, <1>8, <1>9, <1>10, <1>11
  DEF IteratorStep
<1>33. ASSUME NEW w \in Workers, WorkerStep(w)  PROVE TypeInv'
  BY <1>33, <1>12, <1>13, <1>14, <1>15, <1>16, <1>17 DEF WorkerStep
<1>34. CASE RecorderStep
  BY <1>34, <1>18, <1>19, <1>20, <1>21, <1>22, <1>23, <1>24, <1>25 DEF RecorderStep
<1>35. CASE EnvironmentStep
  BY <1>35, <1>26, <1>27, <1>28, <1>29, <1>30 DEF EnvironmentStep
<1>36. CASE UNCHANGED vars
  BY <1>36 DEF TypeInv, TypeOK, PeerInHand, RecorderBusy, vars
<1>. QED  BY <1>31, <1>32, <1>33, <1>34, <1>35, <1>36 DEF Next

-----------------------------------------------------------------------------
(* The PeerQueue.                                                          *)

\* The steps other than those of the recorder leave the queue alone, but for the
\* four of the iterator named here.
LEMMA QueueFrame ==
  ASSUME [Next]_vars
  PROVE  \/ UNCHANGED queueVars
         \/ \E p \in Peers : MergeRow(p)
         \/ SortPeerList \/ GetNextPeer \/ EndIteration
         \/ \E w \in Workers : RecordAttempt(w)
         \/ RecordDelay \/ RecordDegree \/ RecordDeprecation
<1>. USE DEF queueVars
<1>1. CASE IteratorStep
  BY <1>1 DEF IteratorStep, GetNonDeprecatedPeers, GetNonDeprecatedPeersFails,
      IteratorReceive, CheckNextPeer, PushPeer, CallForPeer, IteratorStop
<1>2. ASSUME NEW w \in Workers, WorkerStep(w)  PROVE UNCHANGED queueVars
  BY <1>2 DEF WorkerStep, NextPeer, ReceivePeer, ReceiveNil, AlreadyConnected, Dial,
      WorkerStop
<1>3. CASE RecorderStep
  BY <1>3, Zenon DEF RecorderStep, PersistAttempt, RecordIdentification, RecordNilEvent,
      RecorderStop
<1>4. CASE EnvironmentStep
  BY <1>4, Zenon DEF EnvironmentStep, Discover, ApplyWrite, DropWrite, Tick, Cancel
<1>5. CASE Exit \/ UNCHANGED vars
  BY <1>5 DEF Exit, vars
<1>. QED  BY <1>1, <1>2, <1>3, <1>4, <1>5 DEF Next

\* Every step keeps peerList and peerMap in agreement.
LEMMA QueueStep ==
  ASSUME TypeInv, QueueAgreement, [Next]_vars
  PROVE  QueueAgreement'
<1>. USE DEF queueVars
<1>0. TypeOK /\ RecorderBusy
  BY DEF TypeInv
<1>1. CASE UNCHANGED queueVars
  BY <1>1 DEF QueueAgreement
<1>2. ASSUME NEW p \in Peers, MergeRow(p)  PROVE QueueAgreement'
  <2>1. CASE p \in DOMAIN peerMap
    BY <1>2, <2>1 DEF MergeRow, QueueAgreement
  <2>2. CASE p \notin DOMAIN peerMap
    BY <1>0, <1>2, <2>2, AddPeerQueue, Zenon DEF MergeRow
  <2>. QED  BY <2>1, <2>2
<1>3. CASE SortPeerList
  <2>1. peerList' \in Reordered(peerList) /\ UNCHANGED peerMap
    BY <1>3 DEF SortPeerList, SortedLists
  <2>2. peerList \in Seq(Peers)
    BY <1>0 DEF TypeOK
  <2>. QED  BY <2>1, <2>2, ReorderedList DEF QueueAgreement
<1>4. CASE GetNextPeer \/ EndIteration
  BY <1>4 DEF GetNextPeer, EndIteration, QueueAgreement
<1>5. ASSUME NEW w \in Workers, RecordAttempt(w)  PROVE QueueAgreement'
  BY <1>5 DEF RecordAttempt, QueueAgreement
<1>6. CASE RecordDelay
  BY <1>6 DEF RecordDelay, QueueAgreement
<1>7. CASE RecordDegree
  BY <1>7 DEF RecordDegree, QueueAgreement
<1>8. CASE RecordDeprecation
  BY <1>0, <1>8, RemovePeerQueue, Zenon DEF RecordDeprecation, RecorderBusy
<1>. QED  BY <1>1, <1>2, <1>3, <1>4, <1>5, <1>6, <1>7, <1>8, QueueFrame

\* Every step keeps the visited and the unvisited part of the list apart.
LEMMA IterationStep ==
  ASSUME TypeInv, QueueAgreement, FreshIteration, NoRepeatInIteration, [Next]_vars
  PROVE  FreshIteration' /\ NoRepeatInIteration'
<1>. USE DEF queueVars, iterVars, FreshIteration
<1>0. /\ TypeOK /\ RecorderBusy
      /\ peerList \in Seq(Peers) /\ Len(peerList) \in Nat /\ peerPtr \in Nat
  BY DEF TypeInv, TypeOK
<1>1. CASE GetNonDeprecatedPeers \/ GetNonDeprecatedPeersFails \/ IteratorReceive
             \/ CheckNextPeer \/ PushPeer \/ CallForPeer \/ IteratorStop
  BY <1>1 DEF GetNonDeprecatedPeers, GetNonDeprecatedPeersFails, IteratorReceive,
      CheckNextPeer, PushPeer, CallForPeer, IteratorStop, AfterUpdate,
      NoRepeatInIteration
<1>2. ASSUME NEW p \in Peers, MergeRow(p)
      PROVE  FreshIteration' /\ NoRepeatInIteration'
  BY <1>2 DEF MergeRow, NoRepeatInIteration
<1>3. CASE SortPeerList
  BY <1>3 DEF SortPeerList, AfterUpdate, NoRepeatInIteration
<1>4. CASE GetNextPeer
  <2>1. FreshIteration'
    BY <1>4 DEF GetNextPeer
  <2>2. CASE peerPtr >= Len(peerList)
    BY <1>4, <2>1, <2>2 DEF GetNextPeer, NoRepeatInIteration
  <2>3. CASE ~(peerPtr >= Len(peerList))
    <3>1. /\ peerPtr' = peerPtr + 1
          /\ attemptedPeers' = attemptedPeers \cup {peerList[peerPtr + 1]}
          /\ peerList' = peerList
      BY <1>4, <2>3 DEF GetNextPeer
    <3>2. \A i \in 1..Len(peerList) :
            i > peerPtr + 1 => peerList[i] # peerList[peerPtr + 1]
      BY <1>0, <2>3 DEF QueueAgreement
    <3>3. NoRepeatInIteration'
      BY <1>0, <3>1, <3>2 DEF NoRepeatInIteration
    <3>. QED  BY <2>1, <3>3
  <2>. QED  BY <2>2, <2>3
<1>5. CASE EndIteration
  BY <1>5 DEF EndIteration, NoRepeatInIteration
<1>6. ASSUME NEW w \in Workers, WorkerStep(w)
      PROVE  FreshIteration' /\ NoRepeatInIteration'
  BY <1>6 DEF WorkerStep, NextPeer, ReceivePeer, ReceiveNil, AlreadyConnected, Dial,
      WorkerStop, NoRepeatInIteration
<1>7. CASE RecordDeprecation
  <2>1. /\ peerList' \in Seq(Peers)
        /\ \A i \in 1..Len(peerList') :
             \E j \in 1..Len(peerList) : j >= i /\ peerList'[i] = peerList[j]
    BY <1>0, <1>7, RemovePeerQueue, Zenon DEF RecordDeprecation, RecorderBusy
  <2>2. UNCHANGED <<peerPtr, iterPc, attemptedPeers>>
    BY <1>7 DEF RecordDeprecation
  <2>3. NoRepeatInIteration'
    BY <1>0, <2>1, <2>2 DEF NoRepeatInIteration
  <2>. QED  BY <2>2, <2>3
<1>8. CASE RecorderStep /\ ~RecordDeprecation
  BY <1>8, Zenon DEF RecorderStep, RecordAttempt, RecordDelay, RecordDegree, PersistAttempt,
      RecordIdentification, RecordNilEvent, RecorderStop, NoRepeatInIteration
<1>9. CASE EnvironmentStep
  BY <1>9, Zenon DEF EnvironmentStep, Discover, ApplyWrite, DropWrite, Tick, Cancel,
      NoRepeatInIteration
<1>10. CASE Exit \/ UNCHANGED vars
  BY <1>10 DEF Exit, vars, NoRepeatInIteration
<1>. QED
  BY <1>1, <1>2, <1>3, <1>4, <1>5, <1>6, <1>7, <1>8, <1>9, <1>10
  DEF Next, IteratorStep

-----------------------------------------------------------------------------
(* Tokens.                                                                 *)

\* The waiting workers are finitely many, no more than the channels have slots,
\* and fewer when some worker does not wait.
LEMMA WaitingBound ==
  /\ IsFiniteSet(Waiting)
  /\ Cardinality(Waiting) \in Nat
  /\ Cap \in Nat
  /\ Cardinality(Waiting) <= Cap
  /\ \A w \in Workers : w \notin Waiting => Cardinality(Waiting) < Cap
<1>. USE StrategyAssumption
<1>1. IsFiniteSet(Waiting) /\ Cardinality(Waiting) <= Cardinality(Workers)
  BY FS_Subset DEF Waiting
<1>2. Cardinality(Waiting) \in Nat /\ Cardinality(Workers) \in Nat
  BY <1>1, FS_CardinalityType
<1>3. ASSUME NEW w \in Workers, w \notin Waiting
      PROVE  Cardinality(Waiting) < Cardinality(Workers)
  <2>1. Waiting \cup {w} \subseteq Workers
    BY DEF Waiting
  <2>2. Cardinality(Waiting \cup {w}) = Cardinality(Waiting) + 1
    BY <1>1, <1>3, FS_AddElement, Zenon
  <2>3. Cardinality(Waiting \cup {w}) <= Cardinality(Workers)
    BY <2>1, FS_Subset
  <2>. QED  BY <1>2, <2>2, <2>3
<1>. QED  BY <1>1, <1>2, <1>3 DEF Cap

\* The part of the state that the balance of tokens reads.
tokenVars == <<nextPeerChan, peerStreamChan, token, iterPc, worker>>

\* Every step keeps the balance between tokens and waiting workers.
LEMMA TokenStep ==
  ASSUME TypeInv, TokenHeld, TokenConservation, [Next]_vars
  PROVE  TokenHeld' /\ TokenConservation'
<1>. DEFINE Goal == TokenHeld' /\ TokenConservation'
<1>. USE DEF queueVars, iterVars, chanVars, dbVars, procVars
<1>0. /\ nextPeerChan \in Nat /\ token \in BOOLEAN
      /\ peerStreamChan \in Seq(Peers) /\ Len(peerStreamChan) \in Nat
      /\ worker \in [Workers -> WorkerStates]
      /\ nextPeer \in Peers \cup {None}
      /\ iterPc = "push" => nextPeer \in Peers
  BY DEF TypeInv, TypeOK, PeerInHand
<1>1. IsFiniteSet(Waiting) /\ Cardinality(Waiting) \in Nat
  BY WaitingBound
<1>2. ASSUME UNCHANGED worker
      PROVE  Cardinality(Waiting)' = Cardinality(Waiting)
  BY <1>2 DEF Waiting
<1>3. CASE UNCHANGED tokenVars
  BY <1>2, <1>3 DEF tokenVars, TokenHeld, TokenConservation
<1>4. CASE GetNonDeprecatedPeers \/ GetNonDeprecatedPeersFails \/ SortPeerList
             \/ CheckNextPeer \/ EndIteration \/ IteratorStop
  <2>1. UNCHANGED <<nextPeerChan, peerStreamChan, token, worker>>
    BY <1>4 DEF GetNonDeprecatedPeers, GetNonDeprecatedPeersFails, SortPeerList,
        CheckNextPeer, EndIteration, IteratorStop
  <2>2. TokenHeld'
    BY <1>0, <1>4 DEF GetNonDeprecatedPeers, GetNonDeprecatedPeersFails, SortPeerList,
        CheckNextPeer, EndIteration, IteratorStop, AfterUpdate, TokenHeld
  <2>. QED  BY <1>2, <2>1, <2>2 DEF TokenConservation
<1>5. CASE GetNextPeer
  <2>1. UNCHANGED <<nextPeerChan, peerStreamChan, token, worker>>
    BY <1>5 DEF GetNextPeer
  <2>2. TokenHeld'
    BY <1>5 DEF GetNextPeer, TokenHeld
  <2>. QED  BY <1>2, <2>1, <2>2 DEF TokenConservation
<1>6. CASE IteratorReceive
  <2>1. /\ ~token /\ token' /\ nextPeerChan' = nextPeerChan - 1
        /\ UNCHANGED <<peerStreamChan, worker>>
    BY <1>6 DEF IteratorReceive, TokenHeld
  <2>2. TokenHeld'
    BY <1>6 DEF IteratorReceive, TokenHeld
  <2>. QED  BY <1>0, <1>1, <1>2, <2>1, <2>2 DEF TokenConservation
<1>7. CASE PushPeer
  <2>1. token /\ ~token' /\ UNCHANGED <<nextPeerChan, worker>>
    BY <1>7 DEF PushPeer, TokenHeld
  <2>2. Len(peerStreamChan') = Len(peerStreamChan) + 1
    BY <1>0, <1>7 DEF PushPeer
  <2>3. TokenHeld'
    BY <1>7 DEF PushPeer, TokenHeld
  <2>. QED  BY <1>0, <1>1, <1>2, <2>1, <2>2, <2>3 DEF TokenConservation
<1>8. CASE CallForPeer
  <2>1. /\ token /\ ~token' /\ nextPeerChan' = nextPeerChan + 1
        /\ UNCHANGED <<peerStreamChan, worker>>
    BY <1>8 DEF CallForPeer, TokenHeld
  <2>2. TokenHeld'
    BY <1>8 DEF CallForPeer, TokenHeld
  <2>. QED  BY <1>0, <1>1, <1>2, <2>1, <2>2 DEF TokenConservation
<1>9. ASSUME NEW w \in Workers, NextPeer(w)  PROVE Goal
  <2>1. CASE closed
    BY <1>2, <1>9, <2>1 DEF NextPeer, TokenHeld, TokenConservation
  <2>2. CASE ~closed
    <3>1. /\ worker[w].pc = "next" /\ nextPeerChan' = nextPeerChan + 1
          /\ worker' = [worker EXCEPT ![w].pc = "recv"]
          /\ UNCHANGED <<peerStreamChan, token, iterPc>>
      BY <1>9, <2>2 DEF NextPeer
    <3>2. Waiting' = Waiting \cup {w} /\ w \notin Waiting
      BY <1>0, <3>1 DEF Waiting, WorkerStates
    <3>3. Cardinality(Waiting)' = Cardinality(Waiting) + 1
      BY <1>1, <3>2, FS_AddElement
    <3>. QED  BY <1>0, <1>1, <3>1, <3>3 DEF TokenHeld, TokenConservation
  <2>. QED  BY <2>1, <2>2
<1>10. ASSUME NEW w \in Workers, ReceivePeer(w)  PROVE Goal
  <2>1. /\ worker[w].pc = "recv" /\ peerStreamChan # <<>>
        /\ worker' = [worker EXCEPT ![w].pc = "dial", ![w].peer = Head(peerStreamChan)]
        /\ peerStreamChan' = Tail(peerStreamChan)
        /\ UNCHANGED <<nextPeerChan, token, iterPc>>
    BY <1>10 DEF ReceivePeer
  <2>2. Len(peerStreamChan') = Len(peerStreamChan) - 1
    BY <1>0, <2>1
  <2>3. Waiting' = Waiting \ {w} /\ w \in Waiting
    BY <1>0, <2>1 DEF Waiting, WorkerStates
  <2>4. Cardinality(Waiting)' = Cardinality(Waiting) - 1
    BY <1>1, <2>3, FS_RemoveElement, Zenon
  <2>. QED  BY <1>0, <1>1, <2>1, <2>2, <2>4 DEF TokenHeld, TokenConservation
<1>11. ASSUME NEW w \in Workers,
              UNCHANGED <<nextPeerChan, peerStreamChan, token, iterPc>>,
              NEW ws, worker' = [worker EXCEPT ![w] = ws],
              worker[w].pc \in {"recv", "done"} <=> ws.pc \in {"recv", "done"}
       PROVE  Goal
  <2>1. Waiting' = Waiting
    BY <1>0, <1>11 DEF Waiting
  <2>. QED  BY <1>11, <2>1 DEF TokenHeld, TokenConservation
<1>12. ASSUME NEW w \in Workers, AlreadyConnected(w)  PROVE Goal
  BY <1>11, <1>12, Zenon DEF AlreadyConnected, Ready
<1>13. ASSUME NEW w \in Workers, NEW err, Dial(w, err)  PROVE Goal
  <2>. DEFINE ws == [[worker[w] EXCEPT !.pc = "report"] EXCEPT !.err = err]
  <2>1. worker' = [worker EXCEPT ![w] = ws] /\ ws.pc = "report"
    BY <1>0, <1>13, Zenon DEF Dial, WorkerStates
  <2>. QED  BY <1>11, <1>13, <2>1, Zenon DEF Dial
<1>14. ASSUME NEW w \in Workers, WorkerStop(w)  PROVE Goal
  <2>. DEFINE ws == [worker[w] EXCEPT !.pc = "done"]
  <2>1. worker' = [worker EXCEPT ![w] = ws] /\ ws.pc = "done"
    BY <1>0, <1>14 DEF WorkerStop, WorkerStates
  <2>. QED  BY <1>11, <1>14, <2>1, Zenon DEF WorkerStop
<1>15. ASSUME NEW w \in Workers, RecordAttempt(w)  PROVE Goal
  BY <1>11, <1>15, Zenon DEF RecordAttempt, Ready
<1>16. CASE IteratorStep
  BY <1>3, <1>4, <1>5, <1>6, <1>7, <1>8, <1>16 DEF IteratorStep, MergeRow, tokenVars
<1>17. ASSUME NEW w \in Workers, WorkerStep(w)  PROVE Goal
  BY <1>3, <1>9, <1>10, <1>12, <1>13, <1>14, <1>17 DEF WorkerStep, ReceiveNil, tokenVars
<1>18. CASE RecorderStep
  BY <1>3, <1>15, <1>18, Zenon DEF RecorderStep, RecordDelay, RecordDegree,
      RecordDeprecation, PersistAttempt, RecordIdentification, RecordNilEvent,
      RecorderStop, tokenVars
<1>19. CASE EnvironmentStep
  BY <1>3, <1>19, Zenon DEF EnvironmentStep, Discover, ApplyWrite, DropWrite, Tick, Cancel,
      tokenVars
<1>20. CASE Exit \/ UNCHANGED vars
  BY <1>3, <1>20 DEF Exit, vars, tokenVars
<1>. QED  BY <1>16, <1>17, <1>18, <1>19, <1>20 DEF Next

-----------------------------------------------------------------------------
(* Deprecation and panics.                                                 *)

\* The recorder lets no overdue peer stay in the queue.
LEMMA DeprecationStep ==
  ASSUME TypeInv, QueueAgreement, StampedInThePast, NoOverduePeerQueued, [Next]_vars
  PROVE  StampedInThePast' /\ NoOverduePeerQueued'
<1>. DEFINE Goal == StampedInThePast' /\ NoOverduePeerQueued'
<1>. USE DEF queueVars, iterVars, chanVars, dbVars, procVars
<1>0. /\ TypeOK /\ now \in Nat
      /\ DOMAIN peerMap \subseteq Peers
      /\ peerMap \in [DOMAIN peerMap -> PrunedPeers]
      /\ recorder \in RecorderStates
      /\ recorder.pc \in {"delay", "degree", "remove", "persist"}
           => recorder.peer \in Peers
  BY DEF TypeInv, TypeOK, RecorderBusy
<1>1. CASE UNCHANGED <<now, peerMap, recorder>>
  BY <1>1 DEF StampedInThePast, NoOverduePeerQueued
<1>2. CASE Tick
  BY <1>0, <1>2 DEF Tick, StampedInThePast, NoOverduePeerQueued, PrunedPeers
<1>3. ASSUME NEW p \in Peers, MergeRow(p)  PROVE Goal
  <2>1. CASE p \in DOMAIN peerMap
    BY <1>1, <1>3, <2>1 DEF MergeRow
  <2>2. CASE p \notin DOMAIN peerMap
    <3>1. /\ DOMAIN peerMap' = DOMAIN peerMap \cup {p}
          /\ peerMap'[p] = NewPrunedPeer("Minus1", now)
          /\ \A q \in DOMAIN peerMap : peerMap'[q] = peerMap[q]
          /\ UNCHANGED <<now, recorder>>
      BY <1>0, <1>3, <2>2, AddPeerQueue, Zenon DEF MergeRow
    <3>. QED  BY <1>0, <3>1 DEF StampedInThePast, NoOverduePeerQueued, NewPrunedPeer
  <2>. QED  BY <2>1, <2>2
<1>4. ASSUME NEW w \in Workers, RecordAttempt(w)  PROVE Goal
  <2>. DEFINE p == worker[w].peer
  <2>1. CASE p \notin DOMAIN peerMap
    BY <1>1, <1>4, <2>1 DEF RecordAttempt
  <2>2. CASE p \in DOMAIN peerMap
    <3>1. /\ peerMap' = [peerMap EXCEPT ![p] = StampConnection(peerMap[p], now)]
          /\ recorder.pc = "idle" /\ now' = now
      BY <1>4, <2>2 DEF RecordAttempt
    <3>2. recorder'.pc = "delay" /\ recorder'.peer = p
      BY <1>0, <1>4, <2>2, Zenon DEF RecordAttempt, RecorderStates
    <3>3. StampConnection(peerMap[p], now).baseConnection = now
      BY <1>0, <2>2 DEF StampConnection, PrunedPeers
    <3>. HIDE DEF p
    <3>. QED  BY <1>0, <2>2, <3>1, <3>2, <3>3 DEF StampedInThePast, NoOverduePeerQueued
  <2>. QED  BY <2>1, <2>2
<1>5. CASE RecordDelay
  <2>. DEFINE p == recorder.peer
              pp == RefreshDelay(peerMap[p], recorder.err, now)
  <2>1. /\ peerMap' = [peerMap EXCEPT ![p] = pp]
        /\ recorder.pc = "delay" /\ now' = now /\ p = recorder.peer
    BY <1>5 DEF RecordDelay
  <2>2. recorder'.pc = "degree" /\ recorder'.peer = p
    BY <1>0, <1>5 DEF RecordDelay, RecorderStates
  <2>3. p \in DOMAIN peerMap => pp.baseConnection = peerMap[p].baseConnection
    BY <1>0 DEF RefreshDelay, PrunedPeers
  <2>. HIDE DEF p, pp
  <2>. QED  BY <1>0, <2>1, <2>2, <2>3 DEF StampedInThePast, NoOverduePeerQueued
<1>6. CASE RecordDegree
  <2>. DEFINE p == recorder.peer
              pp == IncreaseDegree(peerMap[p])
  <2>1. /\ peerMap' = [peerMap EXCEPT ![p] = pp]
        /\ recorder.pc = "degree" /\ now' = now /\ p = recorder.peer
    BY <1>6 DEF RecordDegree
  <2>2. /\ recorder'.pc = IF Deprecable(pp, now) THEN "remove" ELSE "persist"
        /\ recorder'.peer = p
    BY <1>0, <1>6 DEF RecordDegree, RecorderStates
  <2>3. p \in DOMAIN peerMap =>
          /\ pp \in PrunedPeers
          /\ pp.baseConnection = peerMap[p].baseConnection
    BY <1>0, PrunedPeerType, Zenon DEF IncreaseDegree, PrunedPeers
  <2>4. p \in DOMAIN peerMap /\ ~Deprecable(pp, now)
          => pp.baseConnection - pp.baseDeprecation < DeprecationTime
    BY <1>0, <2>3, DelayAssumption DEF Deprecable, StampedInThePast, PrunedPeers
  <2>. HIDE DEF p, pp
  <2>5. StampedInThePast'
    BY <1>0, <2>1, <2>3 DEF StampedInThePast
  <2>6. NoOverduePeerQueued'
    BY <1>0, <2>1, <2>2, <2>3, <2>4 DEF NoOverduePeerQueued
  <2>. QED  BY <2>5, <2>6
<1>7. CASE RecordDeprecation
  <2>1. recorder.peer \in Peers
    BY <1>0, <1>7 DEF RecordDeprecation
  <2>2. /\ DOMAIN peerMap' = DOMAIN peerMap \ {recorder.peer}
        /\ \A q \in DOMAIN peerMap' : peerMap'[q] = peerMap[q]
        /\ now' = now
    BY <1>0, <1>7, <2>1, RemovePeerQueue, Zenon DEF RecordDeprecation
  <2>. QED  BY <1>0, <2>2 DEF StampedInThePast, NoOverduePeerQueued
<1>8. CASE PersistAttempt \/ RecorderStop \/ \E p \in Peers : RecordIdentification(p)
  <2>1. /\ recorder.pc \notin {"delay", "degree", "remove"}
        /\ UNCHANGED <<now, peerMap>>
    BY <1>8, Zenon DEF PersistAttempt, RecorderStop, RecordIdentification
  <2>. QED  BY <2>1 DEF StampedInThePast, NoOverduePeerQueued
<1>9. CASE IteratorStep
  BY <1>1, <1>3, <1>9, Zenon DEF IteratorStep, GetNonDeprecatedPeers,
      GetNonDeprecatedPeersFails, SortPeerList, IteratorReceive, CheckNextPeer,
      GetNextPeer, PushPeer, EndIteration, CallForPeer, IteratorStop
<1>10. ASSUME NEW w \in Workers, WorkerStep(w)  PROVE Goal
  BY <1>1, <1>10 DEF WorkerStep, NextPeer, ReceivePeer, ReceiveNil, AlreadyConnected,
      Dial, WorkerStop
<1>11. CASE RecorderStep
  BY <1>1, <1>4, <1>5, <1>6, <1>7, <1>8, <1>11, StrategyAssumption
  DEF RecorderStep, RecordNilEvent
<1>12. CASE EnvironmentStep
  BY <1>1, <1>2, <1>12, Zenon DEF EnvironmentStep, Discover, ApplyWrite, DropWrite, Cancel
<1>13. CASE Exit \/ UNCHANGED vars
  BY <1>1, <1>13 DEF Exit, vars
<1>. QED  BY <1>9, <1>10, <1>11, <1>12, <1>13 DEF Next

-----------------------------------------------------------------------------
(* Theorems.                                                               *)

\* Inv is an invariant: it holds at the start and every step keeps it.
THEOREM InvHolds == Spec => []Inv
<1>1. Init => Inv
  <2>. SUFFICES ASSUME Init  PROVE Inv
    OBVIOUS
  <2>. USE DEF Init
  <2>1. /\ peerMap = [p \in {} |-> NewPrunedPeer("Minus1", 0)]
        /\ DOMAIN peerMap = {} /\ peerList = <<>> /\ Len(peerList) = 0
    OBVIOUS
  <2>2. peerMap \in [DOMAIN peerMap -> PrunedPeers] /\ peerList \in Seq(Peers)
    BY <2>1
  <2>3. worker \in [Workers -> WorkerStates] /\ recorder \in RecorderStates
    BY DEF Ready, Idle, WorkerStates, RecorderStates, Kinds
  <2>4. TypeOK
    <3>1. peerStreamChan \in Seq(Peers) /\ persistC \in Seq(Writes)
      OBVIOUS
    <3>2. ctxDone \in BOOLEAN /\ panic \in BOOLEAN /\ token \in BOOLEAN /\ closed \in BOOLEAN
      BY Zenon
    <3>. QED  BY <2>1, <2>2, <2>3, <3>1, <3>2 DEF TypeOK
  <2>5. Waiting = {} /\ Cardinality(Waiting) = 0
    BY FS_EmptySet, Zenon DEF Waiting, Ready
  <2>6. TokenConservation
    BY <2>5 DEF TokenConservation
  <2>7. QueueAgreement /\ NoRepeatInIteration
    BY <2>1 DEF QueueAgreement, NoRepeatInIteration, Range
  <2>8. StampedInThePast /\ NoOverduePeerQueued
    BY <2>1 DEF StampedInThePast, NoOverduePeerQueued
  <2>9. TokenHeld /\ FreshIteration /\ PeerInHand /\ RecorderBusy
    BY DEF TokenHeld, FreshIteration, PeerInHand, RecorderBusy, Idle
  <2>. QED  BY <2>4, <2>6, <2>7, <2>8, <2>9 DEF Inv
<1>2. Inv /\ [Next]_vars => Inv'
  BY TypeStep, QueueStep, IterationStep, TokenStep, DeprecationStep
  DEF Inv, TypeInv
<1>. QED  BY <1>1, <1>2, PTL DEF Spec

\* The tokens in the channels, in the hands of the iterator and already turned
\* into peers are at all times as many as the workers that wait for a peer.
THEOREM TokensConserved == Spec => []TokenConservation
<1>1. Inv => TokenConservation
  BY DEF Inv
<1>. QED  BY <1>1, InvHolds, PTL

\* NextPeer, the push of a peer and the call of the iterator to itself always find
\* room in their channel: the peering exchange cannot block, hence not deadlock.
THEOREM NoSendBlocks == Spec => []SendsNeverBlock
<1>1. Inv => SendsNeverBlock
  <2>. SUFFICES ASSUME Inv  PROVE SendsNeverBlock
    OBVIOUS
  <2>1. /\ nextPeerChan \in Nat /\ Len(peerStreamChan) \in Nat
        /\ TokenHeld /\ TokenConservation
    BY DEF Inv, TypeOK
  <2>2. ASSUME iterPc \in {"call", "push"}
        PROVE  nextPeerChan < Cap /\ Len(peerStreamChan) < Cap
    BY <2>1, <2>2, WaitingBound DEF TokenHeld, TokenConservation
  <2>3. ASSUME NEW w \in Workers, worker[w].pc = "next"
        PROVE  nextPeerChan < Cap
    <3>1. Cardinality(Waiting) < Cap
      BY <2>3, WaitingBound DEF Waiting
    <3>. QED  BY <2>1, <3>1, WaitingBound DEF TokenConservation
  <2>. QED  BY <2>2, <2>3 DEF SendsNeverBlock
<1>. QED  BY <1>1, InvHolds, PTL

\* The map and the list of the PeerQueue always hold the same peers, each once.
THEOREM QueueAgrees == Spec => []QueueAgreement
<1>1. Inv => QueueAgreement
  BY DEF Inv
<1>. QED  BY <1>1, InvHolds, PTL

\* No peer is handed out twice in an iteration.
THEOREM NoRepeat == Spec => []NoRepeatInIteration
<1>1. Inv => NoRepeatInIteration
  BY DEF Inv
<1>. QED  BY <1>1, InvHolds, PTL

\* The recorder deprecates every peer whose last attempt came too late.
THEOREM OverdueRemoved == Spec => []NoOverduePeerQueued
<1>1. Inv => NoOverduePeerQueued
  BY DEF Inv
<1>. QED  BY <1>1, InvHolds, PTL

=============================================================================
