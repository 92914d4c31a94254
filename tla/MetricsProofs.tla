--------------------------- MODULE MetricsProofs ---------------------------
(***************************************************************************)
(* The tables for any peers, objects, persisters and any order of their    *)
(* commits: the rows follow the order in which the objects were taken, and *)
(* the summaries agree with one another.                                   *)
(***************************************************************************)
EXTENDS Metrics, SequenceTheorems, FiniteSetTheorems, WellFoundedInduction, TLAPS

-----------------------------------------------------------------------------
(* Induction over a set of numbers.                                        *)

Before == {p \in Nat \X Nat : p[1] < p[2]}

\* A set with 0 that is closed under successor has every number.
LEMMA Climb ==
  ASSUME NEW S, 0 \in S, \A n \in Nat : n \in S => n + 1 \in S
  PROVE  Nat \subseteq S
<1>. DEFINE Missing == Nat \ S
<1>1. IsWellFoundedOn(Before, Nat)
  BY NatLessThanWellFounded DEF OpToRel, Before
<1>. SUFFICES ASSUME Missing # {} PROVE FALSE
  OBVIOUS
<1>2. PICK x \in Missing : \A y \in Missing : ~(<<y, x>> \in Before)
  <2>1. Missing \subseteq Nat
    OBVIOUS
  <2>. HIDE DEF Missing
  <2>. QED
    BY <1>1, <2>1, WFMin, Zenon
<1>3. x \in Nat /\ x # 0
  OBVIOUS
<1>4. x - 1 \in Nat /\ x - 1 < x /\ (x - 1) + 1 = x
  BY <1>3
<1>5. x - 1 \in S
  BY <1>2, <1>4, Zenon DEF Before
<1>. QED
  BY <1>4, <1>5

-----------------------------------------------------------------------------
(* A batch is applied query by query.                                      *)

States(t, qs) ==
  CHOOSE after : after = [n \in 0..Len(qs) |-> IF n = 0 THEN t ELSE Apply(after[n - 1], qs[n])]

\* The recursion of Replay has a solution.
LEMMA ReplayStates ==
  ASSUME NEW S, NEW t, NEW qs \in Seq(S)
  PROVE  /\ Replay(t, qs) = States(t, qs)[Len(qs)]
         /\ States(t, qs)[0] = t
         /\ \A n \in 1..Len(qs) : States(t, qs)[n] = Apply(States(t, qs)[n - 1], qs[n])
<1>. DEFINE Chain(f, n) == f = [k \in 0..n |-> IF k = 0 THEN t ELSE Apply(f[k - 1], qs[k])]
            Solved == {n \in Nat : \E f : Chain(f, n)}
<1>1. 0 \in Solved
  <2>. DEFINE f == [k \in 0..0 |-> t]
  <2>1. f = [k \in 0..0 |-> IF k = 0 THEN t ELSE Apply(f[k - 1], qs[k])]
    OBVIOUS
  <2>. HIDE DEF f
  <2>. QED
    BY <2>1
<1>2. ASSUME NEW n \in Nat, n \in Solved PROVE n + 1 \in Solved
  <2>1. PICK f : f = [k \in 0..n |-> IF k = 0 THEN t ELSE Apply(f[k - 1], qs[k])]
    BY <1>2
  <2>. DEFINE g == [k \in 0..(n + 1) |-> IF k <= n THEN f[k] ELSE Apply(f[n], qs[n + 1])]
  <2>2. ASSUME NEW k \in 0..(n + 1)
        PROVE  g[k] = IF k = 0 THEN t ELSE Apply(g[k - 1], qs[k])
    <3>1. CASE k = 0
      BY <2>1, <3>1
    <3>2. CASE k # 0 /\ k <= n
      <4>1. k \in 0..n /\ k - 1 \in 0..(n + 1) /\ k - 1 <= n
        BY <3>2
      <4>2. g[k] = f[k] /\ g[k - 1] = f[k - 1]
        BY <3>2, <4>1
      <4>3. f[k] = Apply(f[k - 1], qs[k])
        BY <2>1, <3>2, <4>1
      <4>. QED
        BY <3>2, <4>2, <4>3
    <3>3. CASE k = n + 1
      <4>1. n \in 0..(n + 1) /\ k - 1 = n /\ ~(k <= n) /\ k # 0
        BY <3>3
      <4>2. g[k] = Apply(f[n], qs[n + 1]) /\ g[n] = f[n]
        BY <3>3, <4>1
      <4>. QED
        BY <3>3, <4>1, <4>2
    <3>. QED
      BY <3>1, <3>2, <3>3
  <2>3. DOMAIN g = 0..(n + 1) /\ g = [k \in 0..(n + 1) |-> g[k]]
    OBVIOUS
  <2>. HIDE DEF g
  <2>4. g = [k \in 0..(n + 1) |-> IF k = 0 THEN t ELSE Apply(g[k - 1], qs[k])]
    BY <2>2, <2>3, Zenon
  <2>5. Chain(g, n + 1)
    BY <2>4, Zenon
  <2>6. n + 1 \in Nat
    OBVIOUS
  <2>. QED
    BY <2>5, <2>6, Zenon
<1>3. Nat \subseteq Solved
  <2>. HIDE DEF Solved
  <2>. QED
    BY <1>1, <1>2, Climb
<1>4. Len(qs) \in Nat
  OBVIOUS
<1>5. \E f : f = [k \in 0..Len(qs) |-> IF k = 0 THEN t ELSE Apply(f[k - 1], qs[k])]
  BY <1>3, <1>4
<1>6. States(t, qs) = [k \in 0..Len(qs) |-> IF k = 0 THEN t ELSE Apply(States(t, qs)[k - 1], qs[k])]
  BY <1>5, Zenon DEF States
<1>7. Replay(t, qs) = States(t, qs)[Len(qs)]
  BY Zenon DEF Replay, States
<1>8. States(t, qs)[0] = t
  <2>1. 0 \in 0..Len(qs)
    BY <1>4
  <2>. QED
    BY <1>6, <2>1
<1>9. ASSUME NEW n \in 1..Len(qs)
      PROVE  States(t, qs)[n] = Apply(States(t, qs)[n - 1], qs[n])
  <2>1. n \in 0..Len(qs) /\ n # 0
    BY <1>4
  <2>. QED
    BY <1>6, <2>1
<1>. QED
  BY <1>7, <1>8, <1>9

-----------------------------------------------------------------------------
(* What a query does to the rows of one peer.                              *)

RowsOf(t, p) == <<t.peer_info[p], t.eth_nodes[p], t.eth_status[p]>>

IsQuery(q) ==
  \/ q.kind = "host" /\ q.ip # None
  \/ /\ q.kind = "peer"
     /\ q.cols.name # None =>
          q.cols.version # None /\ q.cols.os # None /\ q.cols.arch # None
  \/ q.kind \in {"attempt", "activity"}
  \/ q.kind \in {"enr", "status", "metadata"} /\ IsAttribute(q, q.peer)
  \/ q.kind = "ip" /\ q.ip \in IPs

PeerKinds == {"host", "peer", "attempt", "activity"}
OtherKinds == {"enr", "status", "metadata", "ip"}

\* The row that a query on peer_info leaves where there was row.
PeerRow(row, q) ==
  CASE q.kind = "host" ->
         IF row # None THEN [row EXCEPT !.ip = q.ip, !.deprecated = FALSE] ELSE NewRow(q.ip)
    [] q.kind = "peer" ->
         IF row # None THEN [row EXCEPT !.cols = q.cols, !.latency = q.latency] ELSE row
    [] q.kind = "attempt" ->
         IF row # None
         THEN [row EXCEPT !.deprecated = q.deprecable /\ ~q.positive, !.attempted = TRUE,
                          !.last_activity = IF q.positive THEN q.time ELSE row.last_activity]
         ELSE row
    [] q.kind = "activity" -> IF row # None THEN [row EXCEPT !.last_activity = q.time] ELSE row

\* The rows that the other queries leave.
NodeRow(row, q) == IF q.kind = "enr" THEN [enr |-> q.enr, timestamp |-> q.time] ELSE row
StatusRow(row, q) ==
  CASE q.kind = "status" ->
         IF row = None THEN [status |-> q.slot, metadata |-> None] ELSE [row EXCEPT !.status = q.slot]
    [] q.kind = "metadata" ->
         IF row = None THEN [status |-> None, metadata |-> "known"]
         ELSE [row EXCEPT !.metadata = "known"]
    [] OTHER -> row

\* One row of one table is written.
LEMMA RowWritten ==
  ASSUME NEW t, IsTables(t), NEW x, NEW row
  PROVE  /\ LET u == [t EXCEPT !.peer_info[x] = row]
            IN  /\ DOMAIN u = DOMAIN t /\ DOMAIN u.peer_info = Peers
                /\ u.eth_nodes = t.eth_nodes /\ u.eth_status = t.eth_status /\ u.ips = t.ips
                /\ \A p \in Peers : u.peer_info[p] = IF p = x THEN row ELSE t.peer_info[p]
         /\ LET u == [t EXCEPT !.eth_nodes[x] = row]
            IN  /\ DOMAIN u = DOMAIN t /\ DOMAIN u.eth_nodes = Peers
                /\ u.peer_info = t.peer_info /\ u.eth_status = t.eth_status /\ u.ips = t.ips
                /\ \A p \in Peers : u.eth_nodes[p] = IF p = x THEN row ELSE t.eth_nodes[p]
         /\ LET u == [t EXCEPT !.eth_status[x] = row]
            IN  /\ DOMAIN u = DOMAIN t /\ DOMAIN u.eth_status = Peers
                /\ u.peer_info = t.peer_info /\ u.eth_nodes = t.eth_nodes /\ u.ips = t.ips
                /\ \A p \in Peers : u.eth_status[p] = IF p = x THEN row ELSE t.eth_status[p]
  BY DEF IsTables

\* What a query on peer_info does.
LEMMA PeerQuery ==
  ASSUME NEW t, IsTables(t), NEW q, q.kind \in PeerKinds
  PROVE  /\ DOMAIN Apply(t, q) = DOMAIN t /\ DOMAIN Apply(t, q).peer_info = Peers
         /\ Apply(t, q).eth_nodes = t.eth_nodes /\ Apply(t, q).eth_status = t.eth_status
         /\ Apply(t, q).ips = t.ips
         /\ \A p \in Peers : Apply(t, q).peer_info[p] =
              IF p = q.peer THEN PeerRow(t.peer_info[p], q) ELSE t.peer_info[p]
<1>. DEFINE x == q.peer
            row == t.peer_info[x]
            new == PeerRow(row, q)
<1>1. CASE Has(t, x) \/ q.kind = "host"
  <2>1. Apply(t, q) = [t EXCEPT !.peer_info[x] = new]
    <3>1. CASE q.kind = "host"
      BY <3>1 DEF Apply, UpsertHostInfo, PeerRow, Has
    <3>2. CASE q.kind = "peer"
      BY <1>1, <3>2 DEF Apply, UpdatePeerInfo, PeerRow, Has
    <3>3. CASE q.kind = "attempt"
      BY <1>1, <3>3 DEF Apply, UpdateConnAttempt, PeerRow, Has
    <3>4. CASE q.kind = "activity"
      BY <1>1, <3>4 DEF Apply, UpdateLastActivityTimestamp, PeerRow, Has
    <3>. QED
      BY <3>1, <3>2, <3>3, <3>4 DEF PeerKinds
  <2>. HIDE DEF new
  <2>2. /\ DOMAIN Apply(t, q) = DOMAIN t /\ DOMAIN Apply(t, q).peer_info = Peers
        /\ Apply(t, q).eth_nodes = t.eth_nodes /\ Apply(t, q).eth_status = t.eth_status
        /\ Apply(t, q).ips = t.ips
        /\ \A p \in Peers : Apply(t, q).peer_info[p] = IF p = x THEN new ELSE t.peer_info[p]
    BY <2>1, RowWritten
  <2>. QED
    BY <2>2 DEF new
<1>2. CASE ~Has(t, x) /\ q.kind # "host"
  <2>1. Apply(t, q) = t
    BY <1>2 DEF Apply, UpdatePeerInfo, UpdateConnAttempt, UpdateLastActivityTimestamp, PeerKinds
  <2>2. new = row
    BY <1>2 DEF PeerRow, Has, PeerKinds
  <2>. QED
    BY <2>1, <2>2 DEF IsTables
<1>. QED
  BY <1>1, <1>2

\* u is t after a query that is not on peer_info.
OtherEffect(t, q, u) ==
  /\ DOMAIN u = DOMAIN t
  /\ DOMAIN u.eth_nodes = Peers /\ DOMAIN u.eth_status = Peers
  /\ u.peer_info = t.peer_info
  /\ u.ips = IF q.kind = "ip" THEN t.ips \cup {q.ip} ELSE t.ips
  /\ \A p \in Peers :
       u.eth_nodes[p] = IF p = q.peer THEN NodeRow(t.eth_nodes[p], q) ELSE t.eth_nodes[p]
  /\ \A p \in Peers :
       u.eth_status[p] = IF p = q.peer THEN StatusRow(t.eth_status[p], q) ELSE t.eth_status[p]

\* What the other queries do.
LEMMA OtherQuery ==
  ASSUME NEW t, IsTables(t), NEW q, q.kind \in OtherKinds
  PROVE  OtherEffect(t, q, Apply(t, q))
<1>. DEFINE x == q.peer
<1>1. CASE q.kind = "enr"
  <2>1. Apply(t, q) = [t EXCEPT !.eth_nodes[x] = NodeRow(t.eth_nodes[x], q)]
    BY <1>1 DEF Apply, UpsertEnrInfo, NodeRow
  <2>2. \A row : StatusRow(row, q) = row
    BY <1>1 DEF StatusRow
  <2>. QED
    BY <1>1, <2>1, <2>2, RowWritten DEF IsTables, OtherEffect
<1>2. CASE q.kind \in {"status", "metadata"}
  <2>1. Apply(t, q) = [t EXCEPT !.eth_status[x] = StatusRow(t.eth_status[x], q)]
    <3>1. CASE q.kind = "status"
      BY <3>1 DEF Apply, UpsertEthereumNodeStatus, StatusRow
    <3>2. CASE q.kind = "metadata"
      BY <3>2 DEF Apply, UpsertEthereumNodeMetadata, StatusRow
    <3>. QED
      BY <1>2, <3>1, <3>2
  <2>2. \A row : NodeRow(row, q) = row
    BY <1>2 DEF NodeRow
  <2>. QED
    BY <1>2, <2>1, <2>2, RowWritten DEF IsTables, OtherEffect
<1>3. CASE q.kind = "ip"
  <2>1. Apply(t, q) = [t EXCEPT !.ips = t.ips \cup {q.ip}]
    BY <1>3 DEF Apply, UpsertIpInfo
  <2>2. \A row : NodeRow(row, q) = row /\ StatusRow(row, q) = row
    BY <1>3 DEF NodeRow, StatusRow
  <2>. QED
    BY <1>3, <2>1, <2>2 DEF IsTables, OtherEffect
<1>. QED
  BY <1>1, <1>2, <1>3 DEF OtherKinds

\* A query of another key leaves the rows of a peer alone, and what it makes of the
\* rows of its own peer depends on these only.
LEMMA ApplyLocal ==
  ASSUME NEW t, NEW u, IsTables(t), IsTables(u), NEW q, IsQuery(q), NEW p \in Peers,
         RowsOf(t, p) = RowsOf(u, p)
  PROVE  /\ RowsOf(Apply(t, q), p) = RowsOf(Apply(u, q), p)
         /\ Key(q) # p => RowsOf(Apply(t, q), p) = RowsOf(t, p)
<1>1. /\ t.peer_info[p] = u.peer_info[p] /\ t.eth_nodes[p] = u.eth_nodes[p]
      /\ t.eth_status[p] = u.eth_status[p]
  BY DEF RowsOf
<1>2. CASE q.kind \in PeerKinds
  <2>1. Key(q) = q.peer
    BY <1>2 DEF PeerKinds, Key
  <2>. QED
    BY <1>1, <1>2, <2>1, PeerQuery DEF RowsOf
<1>3. CASE q.kind \in OtherKinds
  <2>1. q.kind # "ip" => Key(q) = q.peer
    BY DEF Key
  <2>2. q.kind = "ip" => \A row : NodeRow(row, q) = row /\ StatusRow(row, q) = row
    BY DEF NodeRow, StatusRow
  <2>3. OtherEffect(t, q, Apply(t, q)) /\ OtherEffect(u, q, Apply(u, q))
    BY <1>3, OtherQuery
  <2>. QED
    BY <1>1, <2>1, <2>2, <2>3 DEF RowsOf, OtherEffect
<1>. QED
  BY <1>2, <1>3 DEF IsQuery, PeerKinds, OtherKinds

\* A query leaves tables.
LEMMA ApplyKeeps ==
  ASSUME NEW t, IsTables(t), NEW q, IsQuery(q)
  PROVE  IsTables(Apply(t, q))
<1>1. CASE q.kind \in PeerKinds
  <2>1. ASSUME NEW p \in Peers, Apply(t, q).peer_info[p] # None
        PROVE  IsRow(Apply(t, q).peer_info[p])
    <3>1. t.peer_info[p] # None => IsRow(t.peer_info[p])
      BY DEF IsTables
    <3>. DEFINE row == t.peer_info[p]
    <3>2. CASE p = q.peer
      <4>1. Apply(t, q).peer_info[p] = PeerRow(row, q)
        BY <1>1, <3>2, PeerQuery
      <4>. HIDE DEF row
      <4>2. CASE row = None
        <5>1. CASE q.kind = "host"
          <6>1. Apply(t, q).peer_info[p] = NewRow(q.ip)
            BY <4>1, <4>2, <5>1 DEF PeerRow
          <6>2. q.ip # None
            BY <5>1 DEF IsQuery
          <6>. QED
            BY <6>1, <6>2 DEF NewRow, NoColumns, IsRow
        <5>2. CASE q.kind # "host"
          BY <1>1, <2>1, <4>1, <4>2, <5>2 DEF PeerRow, PeerKinds
        <5>. QED
          BY <5>1, <5>2
      <4>3. CASE row # None
        <5>1. IsRow(row)
          BY <3>1, <4>3 DEF row
        <5>2. CASE q.kind = "host"
          BY <4>1, <4>3, <5>1, <5>2, Zenon DEF PeerRow, IsRow, IsQuery
        <5>3. CASE q.kind = "peer"
          BY <4>1, <4>3, <5>1, <5>3, Zenon DEF PeerRow, IsRow, IsQuery
        <5>4. CASE q.kind = "attempt"
          <6>1. PICK d, time : Apply(t, q).peer_info[p] =
                  [row EXCEPT !.deprecated = d, !.attempted = TRUE, !.last_activity = time]
            BY <4>1, <4>3, <5>4 DEF PeerRow
          <6>. QED
            BY <5>1, <6>1, Zenon DEF IsRow
        <5>5. CASE q.kind = "activity"
          BY <4>1, <4>3, <5>1, <5>5 DEF PeerRow, IsRow
        <5>. QED
          BY <1>1, <5>2, <5>3, <5>4, <5>5 DEF PeerKinds
      <4>. QED
        BY <4>2, <4>3
    <3>3. CASE p # q.peer
      BY <1>1, <2>1, <3>1, <3>3, PeerQuery
    <3>. QED
      BY <3>2, <3>3
  <2>. QED
    BY <1>1, <2>1, PeerQuery DEF IsTables
<1>2. CASE q.kind \in OtherKinds
  <2>0. OtherEffect(t, q, Apply(t, q))
    BY <1>2, OtherQuery
  <2>1. ASSUME NEW p \in Peers, Apply(t, q).eth_nodes[p] # None
        PROVE  /\ DOMAIN Apply(t, q).eth_nodes[p] = {"enr", "timestamp"}
               /\ IsRecord(Apply(t, q).eth_nodes[p].enr)
    <3>1. CASE p = q.peer /\ q.kind = "enr"
      <4>1. Apply(t, q).eth_nodes[p] = [enr |-> q.enr, timestamp |-> q.time]
        BY <2>0, <3>1, Zenon DEF NodeRow, OtherEffect
      <4>2. IsRecord(q.enr)
        BY <3>1 DEF IsQuery, IsAttribute
      <4>. QED
        BY <4>1, <4>2
    <3>2. CASE ~(p = q.peer /\ q.kind = "enr")
      <4>1. Apply(t, q).eth_nodes[p] = t.eth_nodes[p]
        BY <2>0, <3>2 DEF NodeRow, OtherEffect
      <4>. QED
        BY <2>1, <4>1 DEF IsTables
    <3>. QED
      BY <3>1, <3>2
  <2>2. Apply(t, q).ips \subseteq IPs
    <3>1. q.kind = "ip" => q.ip \in IPs
      BY DEF IsQuery
    <3>. QED
      BY <2>0, <3>1 DEF IsTables, OtherEffect
  <2>. QED
    BY <2>0, <2>1, <2>2 DEF IsTables, OtherEffect
<1>. QED
  BY <1>1, <1>2 DEF IsQuery, PeerKinds, OtherKinds

-----------------------------------------------------------------------------
(* What a batch does to the rows of one peer.                              *)

\* A batch that is committed in two parts.
LEMMA ReplayAppend ==
  ASSUME NEW S, NEW t, NEW qs \in Seq(S), NEW rs \in Seq(S)
  PROVE  Replay(t, qs \o rs) = Replay(Replay(t, qs), rs)
<1>. DEFINE all == qs \o rs
            mid == Replay(t, qs)
            A == States(t, all)
            B == States(t, qs)
            C == States(mid, rs)
            Front == {n \in Nat : n <= Len(qs) => A[n] = B[n]}
            Back == {n \in Nat : n <= Len(rs) => A[Len(qs) + n] = C[n]}
<1>0. all \in Seq(S)
  OBVIOUS
<1>1. /\ Len(all) = Len(qs) + Len(rs)
      /\ Len(qs) \in Nat /\ Len(rs) \in Nat
      /\ \A n \in 1..Len(qs) : all[n] = qs[n]
      /\ \A n \in 1..Len(rs) : all[Len(qs) + n] = rs[n]
  OBVIOUS
<1>. HIDE DEF all
<1>2. /\ Replay(t, all) = A[Len(all)] /\ A[0] = t
      /\ \A n \in 1..Len(all) : A[n] = Apply(A[n - 1], all[n])
  BY <1>0, ReplayStates
<1>3. mid = B[Len(qs)] /\ B[0] = t /\ \A n \in 1..Len(qs) : B[n] = Apply(B[n - 1], qs[n])
  BY ReplayStates
<1>4. /\ Replay(mid, rs) = C[Len(rs)] /\ C[0] = mid
      /\ \A n \in 1..Len(rs) : C[n] = Apply(C[n - 1], rs[n])
  BY ReplayStates
<1>. HIDE DEF mid, A, B, C
<1>5. Nat \subseteq Front
  <2>1. 0 \in Front
    BY <1>2, <1>3
  <2>2. ASSUME NEW n \in Nat, n \in Front PROVE n + 1 \in Front
    <3>. SUFFICES ASSUME n + 1 <= Len(qs) PROVE A[n + 1] = B[n + 1]
      OBVIOUS
    <3>1. n + 1 \in 1..Len(qs) /\ n + 1 \in 1..Len(all) /\ (n + 1) - 1 = n /\ n <= Len(qs)
      BY <1>1
    <3>. QED
      BY <1>1, <1>2, <1>3, <2>2, <3>1
  <2>. HIDE DEF Front
  <2>. QED
    BY <2>1, <2>2, Climb
<1>6. A[Len(qs)] = mid
  BY <1>1, <1>3, <1>5
<1>7. Nat \subseteq Back
  <2>1. 0 \in Back
    BY <1>1, <1>4, <1>6
  <2>2. ASSUME NEW n \in Nat, n \in Back PROVE n + 1 \in Back
    <3>. SUFFICES ASSUME n + 1 <= Len(rs) PROVE A[Len(qs) + (n + 1)] = C[n + 1]
      OBVIOUS
    <3>. DEFINE k == Len(qs) + (n + 1)
    <3>1. /\ n + 1 \in 1..Len(rs) /\ (n + 1) - 1 = n /\ n <= Len(rs)
          /\ k \in 1..Len(all) /\ k - 1 = Len(qs) + n
      BY <1>1
    <3>2. A[k - 1] = C[n]
      BY <2>2, <3>1
    <3>3. all[k] = rs[n + 1]
      BY <1>1, <3>1
    <3>. HIDE DEF k
    <3>4. A[k] = Apply(A[k - 1], all[k])
      BY <1>2, <3>1
    <3>5. C[n + 1] = Apply(C[n], rs[n + 1])
      BY <1>4, <3>1
    <3>. QED
      BY <3>2, <3>3, <3>4, <3>5 DEF k
  <2>. HIDE DEF Back
  <2>. QED
    BY <2>1, <2>2, Climb
<1>8. A[Len(qs) + Len(rs)] = C[Len(rs)]
  BY <1>1, <1>7
<1>. QED
  BY <1>1, <1>2, <1>4, <1>8 DEF all, mid

\* A batch of queries leaves tables.
LEMMA ReplayKeeps ==
  ASSUME NEW S, NEW t, IsTables(t), NEW qs \in Seq(S), \A q \in Range(qs) : IsQuery(q)
  PROVE  IsTables(Replay(t, qs))
<1>. DEFINE A == States(t, qs)
            Good == {n \in Nat : n <= Len(qs) => IsTables(A[n])}
<1>1. /\ Len(qs) \in Nat
      /\ \A n \in 1..Len(qs) : IsQuery(qs[n])
  BY DEF Range
<1>2. /\ Replay(t, qs) = A[Len(qs)] /\ A[0] = t
      /\ \A n \in 1..Len(qs) : A[n] = Apply(A[n - 1], qs[n])
  BY ReplayStates
<1>. HIDE DEF A
<1>3. Nat \subseteq Good
  <2>1. 0 \in Good
    BY <1>2
  <2>2. ASSUME NEW n \in Nat, n \in Good PROVE n + 1 \in Good
    <3>. SUFFICES ASSUME n + 1 <= Len(qs) PROVE IsTables(A[n + 1])
      OBVIOUS
    <3>1. n + 1 \in 1..Len(qs) /\ (n + 1) - 1 = n /\ n <= Len(qs)
      BY <1>1
    <3>. QED
      BY <1>1, <1>2, <2>2, <3>1, ApplyKeeps
  <2>. HIDE DEF Good
  <2>. QED
    BY <2>1, <2>2, Climb
<1>. QED
  BY <1>1, <1>2, <1>3

\* The rows of a peer after a batch depend on its rows before it only.
LEMMA ReplayLocal ==
  ASSUME NEW S, NEW t, NEW u, IsTables(t), IsTables(u), NEW qs \in Seq(S),
         \A q \in Range(qs) : IsQuery(q), NEW p \in Peers, RowsOf(t, p) = RowsOf(u, p)
  PROVE  RowsOf(Replay(t, qs), p) = RowsOf(Replay(u, qs), p)
<1>. DEFINE A == States(t, qs)
            B == States(u, qs)
            Good == {n \in Nat : n <= Len(qs) =>
                       IsTables(A[n]) /\ IsTables(B[n]) /\ RowsOf(A[n], p) = RowsOf(B[n], p)}
<1>1. /\ Len(qs) \in Nat
      /\ \A n \in 1..Len(qs) : IsQuery(qs[n])
  BY DEF Range
<1>2. /\ Replay(t, qs) = A[Len(qs)] /\ A[0] = t
      /\ \A n \in 1..Len(qs) : A[n] = Apply(A[n - 1], qs[n])
  BY ReplayStates
<1>3. /\ Replay(u, qs) = B[Len(qs)] /\ B[0] = u
      /\ \A n \in 1..Len(qs) : B[n] = Apply(B[n - 1], qs[n])
  BY ReplayStates
<1>. HIDE DEF A, B
<1>4. Nat \subseteq Good
  <2>1. 0 \in Good
    BY <1>2, <1>3
  <2>2. ASSUME NEW n \in Nat, n \in Good PROVE n + 1 \in Good
    <3>. SUFFICES ASSUME n + 1 <= Len(qs)
                  PROVE  /\ IsTables(A[n + 1]) /\ IsTables(B[n + 1])
                         /\ RowsOf(A[n + 1], p) = RowsOf(B[n + 1], p)
      OBVIOUS
    <3>1. n + 1 \in 1..Len(qs) /\ (n + 1) - 1 = n /\ n <= Len(qs)
      BY <1>1
    <3>2. IsTables(A[n]) /\ IsTables(B[n]) /\ RowsOf(A[n], p) = RowsOf(B[n], p)
      BY <2>2, <3>1
    <3>3. A[n + 1] = Apply(A[n], qs[n + 1]) /\ B[n + 1] = Apply(B[n], qs[n + 1])
      BY <1>2, <1>3, <3>1
    <3>4. IsQuery(qs[n + 1])
      BY <1>1, <3>1
    <3>. QED
      BY <3>2, <3>3, <3>4, ApplyKeeps, ApplyLocal
  <2>. HIDE DEF Good
  <2>. QED
    BY <2>1, <2>2, Climb
<1>. QED
  BY <1>1, <1>2, <1>3, <1>4

\* A batch without a query of a peer leaves its rows alone.
LEMMA ReplayOther ==
  ASSUME NEW S, NEW t, IsTables(t), NEW qs \in Seq(S), NEW p \in Peers,
         \A q \in Range(qs) : IsQuery(q) /\ Key(q) # p
  PROVE  RowsOf(Replay(t, qs), p) = RowsOf(t, p)
<1>. DEFINE A == States(t, qs)
            Good == {n \in Nat : n <= Len(qs) =>
                       IsTables(A[n]) /\ RowsOf(A[n], p) = RowsOf(t, p)}
<1>1. /\ Len(qs) \in Nat
      /\ \A n \in 1..Len(qs) : IsQuery(qs[n]) /\ Key(qs[n]) # p
  BY DEF Range
<1>2. /\ Replay(t, qs) = A[Len(qs)] /\ A[0] = t
      /\ \A n \in 1..Len(qs) : A[n] = Apply(A[n - 1], qs[n])
  BY ReplayStates
<1>. HIDE DEF A
<1>3. Nat \subseteq Good
  <2>1. 0 \in Good
    BY <1>2
  <2>2. ASSUME NEW n \in Nat, n \in Good PROVE n + 1 \in Good
    <3>. SUFFICES ASSUME n + 1 <= Len(qs)
                  PROVE  IsTables(A[n + 1]) /\ RowsOf(A[n + 1], p) = RowsOf(t, p)
      OBVIOUS
    <3>1. n + 1 \in 1..Len(qs) /\ (n + 1) - 1 = n /\ n <= Len(qs)
      BY <1>1
    <3>2. IsTables(A[n]) /\ RowsOf(A[n], p) = RowsOf(t, p)
      BY <2>2, <3>1
    <3>3. A[n + 1] = Apply(A[n], qs[n + 1])
      BY <1>2, <3>1
    <3>4. IsQuery(qs[n + 1]) /\ Key(qs[n + 1]) # p
      BY <1>1, <3>1
    <3>. QED
      BY <3>2, <3>3, <3>4, ApplyKeeps, ApplyLocal
  <2>. HIDE DEF Good
  <2>. QED
    BY <2>1, <2>2, Climb
<1>. QED
  BY <1>1, <1>2, <1>3

-----------------------------------------------------------------------------
(* The queries of an object.                                               *)

\* The columns of a user agent are known or "unknown", never NULL.
LEMMA ColumnsKnown ==
  ASSUME NEW agent, IsAgent(agent), NEW c \in ParseClientType(agent)
  PROVE  c.name # None /\ c.version # None /\ c.os # None /\ c.arch # None
<1>0. /\ UnknownName # None
      /\ None \notin agent.names \cup agent.oses \cup agent.archs
      /\ agent.fields \in Seq(Range(agent.fields))
      /\ \A f \in Range(agent.fields) : f.base # None
  BY TablesAssumption DEF IsAgent
<1>1. \A found : None \notin found => None \notin NameParser(found)
  BY <1>0, Zenon DEF NameParser
<1>2. PICK n \in NameParser(agent.names), o \in NameParser(agent.oses),
           a \in NameParser(agent.archs) :
        c = [name |-> n, version |-> VersionOf(n, agent.fields), os |-> o, arch |-> a]
  BY DEF ParseClientType
<1>3. n # None /\ o # None /\ a # None
  BY <1>0, <1>1, Zenon
<1>4. VersionOf(n, agent.fields) # None
  <2>. DEFINE k == VersionIndex(n)
  <2>1. k \in 1..2
    BY DEF VersionIndex
  <2>2. CASE k > Len(agent.fields) - 1
    BY <1>0, <2>2 DEF VersionOf, CleanVersion, GetVersionIfAny
  <2>3. CASE ~(k > Len(agent.fields) - 1)
    <3>1. k + 1 \in DOMAIN agent.fields
      BY <1>0, <2>1, <2>3
    <3>2. agent.fields[k + 1].base # None
      BY <1>0, <3>1 DEF Range
    <3>. QED
      BY <1>0, <2>3, <3>2 DEF VersionOf, CleanVersion, GetVersionIfAny
  <2>. QED
    BY <2>2, <2>3
<1>. QED
  BY <1>2, <1>3, <1>4

\* An identification is one query on the row of its peer.
LEMMA IdentQuery ==
  ASSUME NEW o, o.agent # None, IsAgent(o.agent), NEW ident \in Identification(o)
  PROVE  \E q : ident = <<q>> /\ IsQuery(q) /\ Key(q) = o.peer
<1>1. PICK c \in ParseClientType(o.agent) :
        ident = <<[kind |-> "peer", peer |-> o.peer, cols |-> c, latency |-> o.latency]>>
  BY Zenon DEF Identification
<1>2. c.version # None /\ c.os # None /\ c.arch # None
  BY ColumnsKnown
<1>. DEFINE q == [kind |-> "peer", peer |-> o.peer, cols |-> c, latency |-> o.latency]
<1>3. IsQuery(q) /\ Key(q) = o.peer
  BY <1>2 DEF IsQuery, Key
<1>. QED
  BY <1>1, <1>3

\* What a persister composes for an object are queries under the key of the object.
LEMMA ObjectQueries ==
  ASSUME NEW o \in Objects, NEW qs \in Queries(o)
  PROVE  /\ qs \in Seq(Range(qs))
         /\ qs # <<>>
         /\ \A q \in Range(qs) : IsQuery(q) /\ Key(q) = Key(o)
<1>0. IsObject(o)
  BY TablesAssumption
<1>1. CASE o.kind = "host"
  <2>1. PICK ident \in Identification(o) :
          qs = <<[kind |-> "host", peer |-> o.peer, ip |-> o.ip]>> \o ident \o o.attributes
    BY <1>1, Zenon DEF Queries, HostQueries
  <2>2. /\ o.ip # None /\ o.attributes \in Seq(Range(o.attributes))
        /\ \A a \in Range(o.attributes) : IsAttribute(a, o.peer)
        /\ o.agent # None => IsAgent(o.agent)
    BY <1>0, <1>1 DEF IsObject
  <2>. DEFINE Own(q) == IsQuery(q) /\ Key(q) = o.peer
              host == [kind |-> "host", peer |-> o.peer, ip |-> o.ip]
  <2>3. Own(host)
    BY <2>2 DEF IsQuery, Key
  <2>4. ident = <<>> \/ \E q : ident = <<q>> /\ Own(q)
    <3>1. CASE o.agent = None
      BY <3>1 DEF Identification
    <3>2. CASE o.agent # None
      BY <2>2, <3>2, IdentQuery
    <3>. QED
      BY <3>1, <3>2
  <2>5. \A a \in Range(o.attributes) : Own(a)
    BY <2>2 DEF IsAttribute, IsQuery, Key
  <2>. DEFINE U == {host} \cup Range(ident) \cup Range(o.attributes)
  <2>6. ident \in Seq(Range(ident)) /\ \A q \in Range(ident) : Own(q)
    <3>. HIDE DEF Own
    <3>1. CASE ident = <<>>
      BY <3>1 DEF Range
    <3>2. ASSUME NEW q, ident = <<q>>, Own(q)
          PROVE  ident \in Seq(Range(ident)) /\ \A x \in Range(ident) : Own(x)
      <4>1. Range(ident) = {q} /\ ident \in Seq({q})
        BY <3>2 DEF Range
      <4>. QED
        BY <3>2, <4>1
    <3>. QED
      BY <2>4, <3>1, <3>2
  <2>7. \A q \in U : Own(q)
    BY <2>3, <2>5, <2>6
  <2>. HIDE DEF Own, host
  <2>8. <<host>> \in Seq(U) /\ ident \in Seq(U) /\ o.attributes \in Seq(U)
    BY <2>2, <2>6
  <2>. HIDE DEF U
  <2>9. qs \in Seq(U) /\ Len(qs) >= 1
    <3>1. qs = <<host>> \o ident \o o.attributes
      BY <2>1 DEF host
    <3>. DEFINE front == <<host>> \o ident
    <3>2. front \in Seq(U) /\ Len(front) >= 1
      BY <2>8
    <3>. HIDE DEF front
    <3>3. qs = front \o o.attributes
      BY <3>1 DEF front
    <3>. QED
      BY <2>8, <3>2, <3>3
  <2>10. Range(qs) \subseteq U
    BY <2>9 DEF Range
  <2>11. qs \in Seq(Range(qs)) /\ qs # <<>>
    BY <2>9 DEF Range
  <2>. QED
    BY <1>1, <2>7, <2>10, <2>11 DEF Own, Key
<1>2. CASE o.kind \in {"attempt", "activity", "ip"}
  <2>1. qs = <<o>>
    BY <1>2 DEF Queries
  <2>2. IsQuery(o)
    BY <1>0, <1>2 DEF IsObject, IsQuery
  <2>3. Range(qs) = {o}
    BY <2>1 DEF Range
  <2>. QED
    BY <2>1, <2>2, <2>3
<1>3. CASE o.kind = "peer"
  <2>1. o.agent # None /\ IsAgent(o.agent)
    BY <1>0, <1>3 DEF IsObject
  <2>2. qs \in Identification(o) /\ Key(o) = o.peer
    BY <1>3 DEF Queries, Key
  <2>3. PICK q : qs = <<q>> /\ IsQuery(q) /\ Key(q) = Key(o)
    BY <2>1, <2>2, IdentQuery
  <2>4. Range(qs) = {q}
    BY <2>3 DEF Range
  <2>. QED
    BY <2>3, <2>4
<1>. QED
  BY <1>0, <1>1, <1>2, <1>3 DEF IsObject

-----------------------------------------------------------------------------
(* The rows follow the order of the objects.                               *)

\* The queries of a peer that are not committed are in one batch, in the order of
\* its objects, or the peer is crossed.
TablesInv ==
  /\ IsTables(tables) /\ IsTables(serial)
  /\ DOMAIN batch = Persisters
  /\ \A i \in Persisters :
       /\ batch[i] \in Seq(Range(batch[i]))
       /\ \A q \in Range(batch[i]) : IsQuery(q)
  /\ \A p \in Peers \ crossed :
       /\ NotHeld(p) => RowsOf(tables, p) = RowsOf(serial, p)
       /\ \A i \in Persisters : p \in Held(i) =>
            /\ \A j \in Persisters \ {i} : p \notin Held(j)
            /\ RowsOf(Replay(tables, batch[i]), p) = RowsOf(serial, p)

\* The keys of a batch are the keys of its queries.
LEMMA HeldKeys ==
  ASSUME NEW i
  PROVE  Held(i) = {Key(q) : q \in Range(batch[i])}
  BY Zenon DEF Held, Range

\* A peer that is held by one persister at most is level once its batch is committed.
LEMMA CommitLevels ==
  ASSUME TablesInv, NEW p \in Peers \ crossed, NEW i \in Persisters,
         \A j \in Persisters \ {i} : p \notin Held(j)
  PROVE  RowsOf(Replay(tables, batch[i]), p) = RowsOf(serial, p)
<1>1. CASE p \in Held(i)
  BY <1>1 DEF TablesInv
<1>2. CASE p \notin Held(i)
  <2>1. RowsOf(tables, p) = RowsOf(serial, p)
    BY <1>2 DEF TablesInv, NotHeld
  <2>2. /\ IsTables(tables) /\ batch[i] \in Seq(Range(batch[i]))
        /\ \A q \in Range(batch[i]) : IsQuery(q)
    BY DEF TablesInv
  <2>3. \A q \in Range(batch[i]) : Key(q) # p
    BY <1>2, HeldKeys
  <2>4. RowsOf(Replay(tables, batch[i]), p) = RowsOf(tables, p)
    BY <2>2, <2>3, ReplayOther
  <2>. QED
    BY <2>1, <2>4
<1>. QED
  BY <1>1, <1>2

\* A start finds tables and holds nothing.
LEMMA InitTables == Init => TablesInv
<1>. SUFFICES ASSUME Init PROVE TablesInv
  OBVIOUS
<1>1. IsTables(tables) /\ serial = tables
  BY TablesAssumption DEF Init
<1>2. DOMAIN batch = Persisters /\ \A i \in Persisters : batch[i] = <<>>
  BY DEF Init
<1>3. \A i \in Persisters : Range(batch[i]) = {}
  BY <1>2 DEF Range
<1>4. \A i \in Persisters : Held(i) = {}
  BY <1>3, HeldKeys
<1>5. \A i \in Persisters : batch[i] \in Seq(Range(batch[i]))
  BY <1>2, EmptySeq, Zenon
<1>. QED
  BY <1>1, <1>2, <1>3, <1>4, <1>5 DEF TablesInv

\* An object is taken: its queries go to the end of the batch.
LEMMA TakeTables ==
  ASSUME TablesInv, NEW i \in Persisters, Take(i)
  PROVE  TablesInv'
<1>0. PICK o \in Objects : \E qs \in Queries(o) :
        /\ batch' = [batch EXCEPT ![i] = batch[i] \o qs]
        /\ serial' = Replay(serial, qs)
        /\ crossed' = crossed \cup {Key(o) : j \in {j \in Persisters \ {i} : Key(o) \in Held(j)}}
  BY Zenon DEF Take
<1>1. PICK qs \in Queries(o) :
        /\ batch' = [batch EXCEPT ![i] = batch[i] \o qs]
        /\ serial' = Replay(serial, qs)
        /\ crossed' = crossed \cup {Key(o) : j \in {j \in Persisters \ {i} : Key(o) \in Held(j)}}
  BY <1>0, Zenon
<1>2. tables' = tables
  BY DEF Take
<1>. DEFINE x == Key(o)
            old == batch[i]
            U == Range(old) \cup Range(qs)
<1>3. /\ qs \in Seq(Range(qs)) /\ qs # <<>>
      /\ \A q \in Range(qs) : IsQuery(q) /\ Key(q) = x
  BY ObjectQueries
<1>4. /\ IsTables(tables) /\ IsTables(serial) /\ DOMAIN batch = Persisters
      /\ old \in Seq(Range(old)) /\ \A q \in Range(old) : IsQuery(q)
  BY DEF TablesInv
<1>5. /\ DOMAIN batch' = Persisters /\ batch'[i] = old \o qs
      /\ \A j \in Persisters \ {i} : batch'[j] = batch[j]
  BY <1>1, <1>4
<1>6. old \in Seq(U) /\ qs \in Seq(U)
  BY <1>3, <1>4
<1>7. batch'[i] \in Seq(Range(batch'[i])) /\ Range(batch'[i]) = U
  <2>1. Range(old \o qs) = Range(old) \cup Range(qs)
    <3>. HIDE DEF old
    <3>1. Range(old \o qs) \subseteq U
      BY <1>6 DEF Range
    <3>2. ASSUME NEW q \in Range(old) PROVE q \in Range(old \o qs)
      <4>1. PICK k \in 1..Len(old) : q = old[k]
        BY <1>6 DEF Range
      <4>2. k \in DOMAIN (old \o qs) /\ (old \o qs)[k] = q
        BY <1>6, <4>1
      <4>. QED
        BY <4>2 DEF Range
    <3>3. ASSUME NEW q \in Range(qs) PROVE q \in Range(old \o qs)
      <4>1. PICK k \in 1..Len(qs) : q = qs[k]
        BY <1>6 DEF Range
      <4>2. Len(old) + k \in DOMAIN (old \o qs) /\ (old \o qs)[Len(old) + k] = q
        BY <1>6, <4>1
      <4>. QED
        BY <4>2 DEF Range
    <3>. QED
      BY <3>1, <3>2, <3>3
  <2>2. old \o qs \in Seq(U)
    BY <1>6
  <2>. HIDE DEF old, U
  <2>. QED
    BY <1>5, <2>1, <2>2 DEF U
<1>8. Range(qs) # {}
  BY <1>3 DEF Range
<1>9. Held(i)' = Held(i) \cup {x}
  <2>1. Held(i)' = {Key(q) : q \in Range(batch'[i])}
    BY Zenon DEF Held, Range, Key
  <2>2. Held(i) = {Key(q) : q \in Range(old)}
    BY HeldKeys
  <2>. HIDE DEF x, old
  <2>. QED
    BY <1>3, <1>7, <1>8, <2>1, <2>2
<1>10. ASSUME NEW j \in Persisters \ {i} PROVE Held(j)' = Held(j)
  BY <1>5, <1>10 DEF Held, Key
<1>11. IsTables(serial')
  BY <1>1, <1>3, <1>4, ReplayKeeps
<1>. HIDE DEF x, old, U
<1>12. ASSUME NEW j \in Persisters
       PROVE  batch'[j] \in Seq(Range(batch'[j])) /\ \A q \in Range(batch'[j]) : IsQuery(q)
  <2>1. CASE j = i
    BY <1>3, <1>4, <1>7, <2>1 DEF U
  <2>2. CASE j # i
    BY <1>5, <2>2 DEF TablesInv
  <2>. QED
    BY <2>1, <2>2
<1>13. IsTables(Replay(tables, old))
  BY <1>4, ReplayKeeps
<1>14. Replay(tables, old \o qs) = Replay(Replay(tables, old), qs)
  BY <1>6, ReplayAppend
<1>15. ASSUME NEW p \in Peers, p \notin crossed'
       PROVE  /\ NotHeld(p)' => RowsOf(tables', p) = RowsOf(serial', p)
              /\ \A k \in Persisters : p \in Held(k)' =>
                   /\ \A j \in Persisters \ {k} : p \notin Held(j)'
                   /\ RowsOf(Replay(tables', batch'[k]), p) = RowsOf(serial', p)
  <2>0. p \in Peers \ crossed
    BY <1>1, <1>15
  <2>1. CASE p # x
    <3>1. \A k \in Persisters : p \in Held(k)' <=> p \in Held(k)
      BY <1>9, <1>10, <2>1
    <3>2. RowsOf(serial', p) = RowsOf(serial, p)
      BY <1>1, <1>3, <1>4, <2>1, ReplayOther
    <3>3. NotHeld(p)' => NotHeld(p)
      BY <3>1 DEF NotHeld
    <3>4. ASSUME NEW k \in Persisters, p \in Held(k)
          PROVE  RowsOf(Replay(tables', batch'[k]), p) = RowsOf(serial', p)
      <4>1. RowsOf(Replay(tables, batch[k]), p) = RowsOf(serial, p)
        BY <2>0, <3>4 DEF TablesInv
      <4>2. CASE k = i
        <5>1. RowsOf(Replay(Replay(tables, old), qs), p) = RowsOf(Replay(tables, old), p)
          BY <1>3, <1>13, <2>1, ReplayOther
        <5>. QED
          BY <1>2, <1>5, <1>14, <3>2, <4>1, <4>2, <5>1, Zenon DEF old
      <4>3. CASE k # i
        BY <1>2, <1>5, <3>2, <4>1, <4>3
      <4>. QED
        BY <4>2, <4>3
    <3>. QED
      BY <1>2, <2>0, <3>1, <3>2, <3>3, <3>4 DEF TablesInv
  <2>2. CASE p = x
    <3>1. \A j \in Persisters \ {i} : p \notin Held(j)
      BY <1>1, <1>15, <2>2 DEF x
    <3>2. p \in Held(i)' /\ \A j \in Persisters \ {i} : p \notin Held(j)'
      BY <1>9, <1>10, <2>2, <3>1
    <3>3. RowsOf(Replay(tables, old), p) = RowsOf(serial, p)
      BY <2>0, <3>1, CommitLevels DEF old
    <3>4. RowsOf(Replay(Replay(tables, old), qs), p) = RowsOf(Replay(serial, qs), p)
      BY <1>3, <1>4, <1>13, <3>3, ReplayLocal
    <3>5. RowsOf(Replay(tables', batch'[i]), p) = RowsOf(serial', p)
      BY <1>1, <1>2, <1>5, <1>14, <3>4, Zenon
    <3>. QED
      BY <3>2, <3>5 DEF NotHeld
  <2>. QED
    BY <2>1, <2>2
<1>. QED
  BY <1>2, <1>4, <1>5, <1>11, <1>12, <1>15, Zenon DEF TablesInv

\* A batch is committed: the rows of its peers that no one else holds become level.
LEMMA CommitTables ==
  ASSUME TablesInv, NEW i \in Persisters, Commit(i)
  PROVE  TablesInv'
<1>. DEFINE old == batch[i]
<1>1. /\ tables' = Replay(tables, old) /\ batch' = [batch EXCEPT ![i] = <<>>]
      /\ serial' = serial /\ crossed' = crossed
  BY DEF Commit
<1>2. /\ IsTables(tables) /\ IsTables(serial) /\ DOMAIN batch = Persisters
      /\ \A k \in Persisters :
           batch[k] \in Seq(Range(batch[k])) /\ \A q \in Range(batch[k]) : IsQuery(q)
  BY DEF TablesInv
<1>3. /\ DOMAIN batch' = Persisters /\ batch'[i] = <<>>
      /\ \A j \in Persisters \ {i} : batch'[j] = batch[j]
  BY <1>1, <1>2
<1>4. IsTables(tables')
  BY <1>1, <1>2, ReplayKeeps
<1>. HIDE DEF old
<1>5. Held(i)' = {}
  BY <1>3 DEF Held
<1>6. ASSUME NEW j \in Persisters \ {i} PROVE Held(j)' = Held(j)
  BY <1>3, <1>6 DEF Held, Key
<1>7. ASSUME NEW j \in Persisters
      PROVE  batch'[j] \in Seq(Range(batch'[j])) /\ \A q \in Range(batch'[j]) : IsQuery(q)
  <2>1. CASE j = i
    <3>1. Range(batch'[j]) = {}
      BY <1>3, <2>1 DEF Range
    <3>2. batch'[j] = <<>>
      BY <1>3, <2>1
    <3>. QED
      BY <3>1, <3>2, EmptySeq, Zenon
  <2>2. CASE j # i
    BY <1>2, <1>3, <2>2
  <2>. QED
    BY <2>1, <2>2
<1>8. ASSUME NEW p \in Peers, p \notin crossed
      PROVE  /\ NotHeld(p)' => RowsOf(tables', p) = RowsOf(serial, p)
             /\ \A k \in Persisters : p \in Held(k)' =>
                  /\ \A j \in Persisters \ {k} : p \notin Held(j)'
                  /\ RowsOf(Replay(tables', batch'[k]), p) = RowsOf(serial, p)
  <2>0. p \in Peers \ crossed
    BY <1>8
  <2>1. ASSUME NotHeld(p)' PROVE RowsOf(tables', p) = RowsOf(serial, p)
    <3>1. \A j \in Persisters \ {i} : p \notin Held(j)
      BY <1>6, <2>1 DEF NotHeld
    <3>. QED
      BY <1>1, <2>0, <3>1, CommitLevels DEF old
  <2>2. ASSUME NEW k \in Persisters, p \in Held(k)'
        PROVE  /\ \A j \in Persisters \ {k} : p \notin Held(j)'
               /\ RowsOf(Replay(tables', batch'[k]), p) = RowsOf(serial, p)
    <3>1. k # i /\ p \in Held(k)
      BY <1>5, <1>6, <2>2
    <3>2. /\ \A j \in Persisters \ {k} : p \notin Held(j)
          /\ RowsOf(Replay(tables, batch[k]), p) = RowsOf(serial, p)
      BY <2>0, <3>1 DEF TablesInv
    <3>3. \A j \in Persisters \ {k} : p \notin Held(j)'
      BY <1>5, <1>6, <3>2
    <3>4. \A q \in Range(old) : IsQuery(q) /\ Key(q) # p
      BY <1>2, <3>1, <3>2, HeldKeys DEF old
    <3>5. RowsOf(tables', p) = RowsOf(tables, p)
      BY <1>1, <1>2, <3>4, ReplayOther DEF old
    <3>6. RowsOf(Replay(tables', batch[k]), p) = RowsOf(Replay(tables, batch[k]), p)
      BY <1>2, <1>4, <3>5, ReplayLocal
    <3>. QED
      BY <1>3, <3>1, <3>2, <3>3, <3>6
  <2>. QED
    BY <2>1, <2>2
<1>. QED
  BY <1>1, <1>2, <1>3, <1>4, <1>7, <1>8, Zenon DEF TablesInv

\* Every step keeps the invariant of the tables.
LEMMA StepTables == TablesInv /\ [Next]_vars => TablesInv'
<1>. SUFFICES ASSUME TablesInv, [Next]_vars PROVE TablesInv'
  OBVIOUS
<1>1. ASSUME NEW i \in Persisters, PersisterStep(i) PROVE TablesInv'
  BY <1>1, TakeTables, CommitTables DEF PersisterStep
<1>2. CASE UNCHANGED <<tables, batch, serial, crossed>>
  <2>1. /\ tables' = tables /\ batch' = batch /\ serial' = serial /\ crossed' = crossed
    BY <1>2
  <2>2. \A k : Held(k)' = Held(k)
    BY <2>1 DEF Held, Key
  <2>3. \A p : NotHeld(p)' <=> NotHeld(p)
    BY <2>2 DEF NotHeld
  <2>. QED
    BY <2>1, <2>2, <2>3 DEF TablesInv
<1>3. BackupStep \/ Tick \/ QueryHosting \/ UpdateMetrics \/ QueryFails \/ Expire
        \/ UNCHANGED vars => UNCHANGED <<tables, batch, serial, crossed>>
  BY DEF BackupStep, ActivePeersBackup, Tick, QueryHosting, UpdateMetrics, QueryFails, Expire,
         tableVars, vars
<1>. QED
  BY <1>1, <1>2, <1>3, Zenon DEF Next

\* RowsFollowOrder for any number of persisters, peers and objects: a peer that is in
\* no batch has the rows of its objects in the order they were taken, unless two
\* persisters held it at once (server.go launchPersister).
THEOREM OrderOfRows == Spec => []RowsFollowOrder
<1>1. TablesInv => RowsFollowOrder
  BY DEF TablesInv, RowsFollowOrder, RowsOf
<1>. QED
  BY <1>1, InitTables, StepTables, PTL DEF Spec

-----------------------------------------------------------------------------
(* Sums over the labels.                                                   *)

Totals(f, D) ==
  CHOOSE total : total = [E \in SUBSET D |->
    IF E = {} THEN 0
    ELSE f[CHOOSE l \in E : TRUE] + total[E \ {CHOOSE l \in E : TRUE}]]

\* A function of the sets of labels that grows by f[l] with every label l is the sum.
LEMMA TotalIs ==
  ASSUME NEW f, NEW D, IsFiniteSet(D), NEW g, g[{}] = 0,
         \A E \in SUBSET D : \A l \in E : g[E] = f[l] + g[E \ {l}]
  PROVE  TotalOver(f, D) = g[D]
<1>. DEFINE Pick(E) == CHOOSE l \in E : TRUE
            T == Totals(f, D)
            h == [E \in SUBSET D |-> g[E]]
<1>1. ASSUME NEW E \in SUBSET D, E # {} PROVE Pick(E) \in E
  BY <1>1
<1>2. T = [E \in SUBSET D |-> IF E = {} THEN 0 ELSE f[Pick(E)] + T[E \ {Pick(E)}]]
  <2>1. ASSUME NEW E \in SUBSET D
        PROVE  h[E] = IF E = {} THEN 0 ELSE f[Pick(E)] + h[E \ {Pick(E)}]
    <3>. HIDE DEF Pick
    <3>1. E \ {Pick(E)} \in SUBSET D
      OBVIOUS
    <3>2. h[E] = g[E] /\ h[E \ {Pick(E)}] = g[E \ {Pick(E)}]
      BY <3>1
    <3>. QED
      BY <1>1, <3>2, Zenon
  <2>2. h = [E \in SUBSET D |-> h[E]]
    OBVIOUS
  <2>. HIDE DEF h
  <2>3. h = [E \in SUBSET D |-> IF E = {} THEN 0 ELSE f[Pick(E)] + h[E \ {Pick(E)}]]
    <3>. HIDE DEF Pick
    <3>. QED
      BY <2>1, <2>2, Zenon
  <2>4. \E u : u = [E \in SUBSET D |-> IF E = {} THEN 0 ELSE f[Pick(E)] + u[E \ {Pick(E)}]]
    BY <2>3, Zenon
  <2>. QED
    BY <2>4, Zenon DEF Totals
<1>3. TotalOver(f, D) = T[D]
  BY Zenon DEF TotalOver, Totals
<1>. HIDE DEF T, Pick, h
<1>4. T[{}] = 0 /\ \A E \in SUBSET D : E # {} => T[E] = f[Pick(E)] + T[E \ {Pick(E)}]
  BY <1>2, Zenon
<1>. DEFINE Same == {n \in Nat : \A E \in SUBSET D : Cardinality(E) = n => T[E] = g[E]}
<1>5. \A E \in SUBSET D : IsFiniteSet(E) /\ Cardinality(E) \in Nat
  BY FS_Subset, FS_CardinalityType
<1>6. 0 \in Same
  BY <1>4, <1>5, FS_EmptySet, Zenon
<1>7. ASSUME NEW n \in Nat, n \in Same PROVE n + 1 \in Same
  <2>. SUFFICES ASSUME NEW E \in SUBSET D, Cardinality(E) = n + 1 PROVE T[E] = g[E]
    OBVIOUS
  <2>1. E # {}
    <3>1. n + 1 # 0
      OBVIOUS
    <3>. QED
      BY <3>1, FS_EmptySet, Zenon
  <2>2. Pick(E) \in E /\ E \ {Pick(E)} \in SUBSET D
    BY <1>1, <2>1
  <2>3. Cardinality(E \ {Pick(E)}) = n
    <3>. DEFINE l == Pick(E)
    <3>1. l \in E /\ IsFiniteSet(E)
      BY <1>5, <2>2
    <3>. HIDE DEF l, Same
    <3>2. Cardinality(E \ {l}) = Cardinality(E) - 1
      BY <3>1, FS_RemoveElement, Zenon
    <3>. QED
      BY <3>2 DEF l
  <2>4. T[E \ {Pick(E)}] = g[E \ {Pick(E)}]
    BY <1>7, <2>2, <2>3
  <2>. QED
    BY <1>4, <2>1, <2>2, <2>4
<1>8. Nat \subseteq Same
  <2>. HIDE DEF Same
  <2>. QED
    BY <1>6, <1>7, Climb
<1>. QED
  BY <1>3, <1>5, <1>8

\* The counts of the labels add up to the rows with these labels.
LEMMA CountTotal ==
  ASSUME NEW S, IsFiniteSet(S), NEW label, NEW D, IsFiniteSet(D), NEW f,
         \A l \in D : f[l] = Cardinality({p \in S : label[p] = l})
  PROVE  TotalOver(f, D) = Cardinality({p \in S : label[p] \in D})
<1>. DEFINE With(E) == {p \in S : label[p] \in E}
            g == [E \in SUBSET D |-> Cardinality(With(E))]
<1>1. \A E : IsFiniteSet(With(E)) /\ Cardinality(With(E)) \in Nat
  BY FS_Subset, FS_CardinalityType
<1>2. g[{}] = 0
  <2>1. With({}) = {}
    OBVIOUS
  <2>. QED
    BY <2>1, FS_EmptySet
<1>3. ASSUME NEW E \in SUBSET D, NEW l \in E PROVE g[E] = f[l] + g[E \ {l}]
  <2>. DEFINE A == With({l})
              B == With(E \ {l})
  <2>1. A \cup B = With(E) /\ A \cap B = {}
    OBVIOUS
  <2>2. IsFiniteSet(A) /\ IsFiniteSet(B) /\ Cardinality(A) \in Nat /\ Cardinality(B) \in Nat
    BY <1>1, Zenon
  <2>3. f[l] = Cardinality(A)
    <3>1. A = {p \in S : label[p] = l}
      OBVIOUS
    <3>. QED
      BY <3>1
  <2>4. g[E] = Cardinality(A \cup B) /\ g[E \ {l}] = Cardinality(B)
    BY <2>1
  <2>. HIDE DEF A, B, g
  <2>5. Cardinality(A \cup B) = Cardinality(A) + Cardinality(B) - Cardinality({})
    BY <2>1, <2>2, FS_Union
  <2>. QED
    BY <2>2, <2>3, <2>4, <2>5, FS_EmptySet
<1>4. g[D] = Cardinality(With(D))
  OBVIOUS
<1>. HIDE DEF g
<1>5. TotalOver(f, D) = g[D]
  BY <1>2, <1>3, TotalIs
<1>. QED
  BY <1>4, <1>5

\* Equal counts add up to a product.
LEMMA ConstantTotal ==
  ASSUME NEW D, IsFiniteSet(D), NEW f, NEW n \in Nat, \A l \in D : f[l] = n
  PROVE  TotalOver(f, D) = n * Cardinality(D)
<1>. DEFINE g == [E \in SUBSET D |-> n * Cardinality(E)]
<1>1. \A E \in SUBSET D : IsFiniteSet(E) /\ Cardinality(E) \in Nat
  BY FS_Subset, FS_CardinalityType
<1>2. g[{}] = 0
  BY FS_EmptySet
<1>3. ASSUME NEW E \in SUBSET D, NEW l \in E PROVE g[E] = f[l] + g[E \ {l}]
  <2>1. E \ {l} \in SUBSET D
    OBVIOUS
  <2>2. Cardinality(E \ {l}) = Cardinality(E) - 1
    BY <1>1, FS_RemoveElement
  <2>3. g[E] = n * Cardinality(E) /\ g[E \ {l}] = n * Cardinality(E \ {l})
    BY <2>1
  <2>. HIDE DEF g
  <2>. QED
    BY <1>1, <2>2, <2>3
<1>4. g[D] = n * Cardinality(D)
  OBVIOUS
<1>. HIDE DEF g
<1>5. TotalOver(f, D) = g[D]
  BY <1>2, <1>3, TotalIs
<1>. QED
  BY <1>4, <1>5

-----------------------------------------------------------------------------
(* The summaries agree.                                                    *)

\* dist counts the rows S by their labels.
Counts(dist, S, label) ==
  /\ DOMAIN dist = {label[p] : p \in S}
  /\ IsFiniteSet(DOMAIN dist)
  /\ \A l \in DOMAIN dist : dist[l] = Cardinality({p \in S : label[p] = l})

\* A GROUP BY whose counted column is never NULL counts its rows.
LEMMA DistributionCounts ==
  ASSUME NEW S, IsFiniteSet(S), NEW label, label = [p \in S |-> label[p]],
         NEW column, \A p \in S : column[p] # None
  PROVE  Counts(Distribution(label, column), S, label)
<1>. DEFINE T == {label[p] : p \in S}
            dist == Distribution(label, column)
<1>1. DOMAIN label = S
  OBVIOUS
<1>2. IsFiniteSet(T)
  <2>1. label \in Surjection(S, T)
    BY DEF Surjection
  <2>. QED
    BY <2>1, FS_Surjection
<1>3. DOMAIN dist = T
  BY <1>1 DEF Distribution
<1>4. ASSUME NEW l \in T PROVE dist[l] = Cardinality({p \in S : label[p] = l})
  <2>1. {p \in DOMAIN label : label[p] = l /\ column[p] # None} = {p \in S : label[p] = l}
    BY <1>1
  <2>2. dist[l] = Cardinality({p \in DOMAIN label : label[p] = l /\ column[p] # None})
    BY <1>1 DEF Distribution
  <2>. QED
    BY <2>1, <2>2, Zenon
<1>. HIDE DEF dist
<1>. QED
  BY <1>2, <1>3, <1>4 DEF Counts, dist

\* The counts add up.
LEMMA CountsTotal ==
  ASSUME NEW S, IsFiniteSet(S), NEW label, NEW dist, Counts(dist, S, label)
  PROVE  /\ Total(dist) = Cardinality(S)
         /\ \A D \in SUBSET DOMAIN dist :
              TotalOver(dist, D) = Cardinality({p \in S : label[p] \in D})
<1>1. ASSUME NEW D \in SUBSET DOMAIN dist
      PROVE  TotalOver(dist, D) = Cardinality({p \in S : label[p] \in D})
  <2>1. IsFiniteSet(D)
    BY FS_Subset DEF Counts
  <2>2. \A l \in D : dist[l] = Cardinality({p \in S : label[p] = l})
    BY DEF Counts
  <2>. QED
    BY <2>1, <2>2, CountTotal
<1>2. {p \in S : label[p] \in DOMAIN dist} = S
  BY DEF Counts
<1>3. Total(dist) = Cardinality({p \in S : label[p] \in DOMAIN dist})
  BY <1>1 DEF Total
<1>. QED
  BY <1>1, <1>2, <1>3

\* The addresses, by the number of their nodes, weighted with that number.
LEMMA WeightedTotal ==
  ASSUME NEW S, IsFiniteSet(S), NEW label, NEW nodes, Counts(nodes, S, label), NEW weighted,
         DOMAIN weighted = {nodes[ip] : ip \in DOMAIN nodes},
         \A n \in DOMAIN weighted :
           weighted[n] = n * Cardinality({ip \in DOMAIN nodes : nodes[ip] = n})
  PROVE  Total(weighted) = Cardinality(S)
<1>. DEFINE I == DOMAIN nodes
            N == {nodes[ip] : ip \in I}
            size == [p \in S |-> nodes[label[p]]]
<1>1. /\ I = {label[p] : p \in S} /\ IsFiniteSet(I)
      /\ \A l \in I : nodes[l] = Cardinality({p \in S : label[p] = l})
  BY DEF Counts
<1>2. \A l \in I : nodes[l] \in Nat
  <2>1. \A l : {p \in S : label[p] = l} \in SUBSET S
    OBVIOUS
  <2>2. \A R \in SUBSET S : Cardinality(R) \in Nat
    BY FS_Subset, FS_CardinalityType
  <2>. QED
    BY <1>1, <2>1, <2>2, Zenon
<1>3. IsFiniteSet(N)
  <2>. DEFINE count == [l \in I |-> nodes[l]]
  <2>1. count \in Surjection(I, N)
    BY DEF Surjection
  <2>. QED
    BY <1>1, <2>1, FS_Surjection
<1>4. DOMAIN weighted = N /\ N = {size[p] : p \in S}
  BY <1>1
<1>5. ASSUME NEW n \in N PROVE weighted[n] = Cardinality({p \in S : size[p] = n})
  <2>. DEFINE J == {ip \in I : nodes[ip] = n}
  <2>1. weighted[n] = n * Cardinality(J)
    OBVIOUS
  <2>2. J \in SUBSET I /\ IsFiniteSet(J) /\ n \in Nat
    BY <1>1, <1>2, FS_Subset
  <2>3. TotalOver(nodes, J) = Cardinality({p \in S : label[p] \in J})
    BY <2>2, CountsTotal
  <2>4. TotalOver(nodes, J) = n * Cardinality(J)
    BY <2>2, ConstantTotal
  <2>5. {p \in S : label[p] \in J} = {p \in S : size[p] = n}
    BY <1>1
  <2>. HIDE DEF J, size
  <2>. QED
    BY <2>1, <2>3, <2>4, <2>5, Zenon
<1>. HIDE DEF N, size
<1>6. Counts(weighted, S, size)
  BY <1>3, <1>4, <1>5, Zenon DEF Counts
<1>. QED
  BY <1>6, CountsTotal

\* The rows of a summary have the columns that it counts.
LEMMA SummaryRows ==
  ASSUME NEW t, IsTables(t)
  PROVE  /\ \A R \in SUBSET Peers : IsFiniteSet(R) /\ Cardinality(R) \in Nat
         /\ Rows(t) \subseteq Peers /\ RecentNodes(t) \subseteq Peers
         /\ GetActivePeers(t) \subseteq Identified(t) /\ Identified(t) \subseteq Peers
         /\ Located(t) \subseteq GetActivePeers(t)
         /\ \A p \in Identified(t) :
              /\ Cols(t, p).name # None /\ Cols(t, p).version # None
              /\ Cols(t, p).os # None /\ Cols(t, p).arch # None
              /\ t.peer_info[p].ip # None /\ p # None
         /\ \A p \in Located(t) : Country[t.peer_info[p].ip] # None
         /\ \A p \in RecentNodes(t) :
              t.eth_nodes[p].enr.fork # None /\ t.eth_nodes[p].enr.attnets # None
<1>1. \A R \in SUBSET Peers : IsFiniteSet(R) /\ Cardinality(R) \in Nat
  BY TablesAssumption, FS_Subset, FS_CardinalityType
<1>2. /\ Rows(t) \subseteq Peers /\ RecentNodes(t) \subseteq Peers
      /\ GetActivePeers(t) \subseteq Identified(t) /\ Identified(t) \subseteq Rows(t)
      /\ Located(t) \subseteq GetActivePeers(t)
  BY Zenon DEF Rows, RecentNodes, GetActivePeers, Identified, GetNonDeprecatedPeers, Located
<1>3. ASSUME NEW p \in Identified(t)
      PROVE  /\ Cols(t, p).name # None /\ Cols(t, p).version # None
             /\ Cols(t, p).os # None /\ Cols(t, p).arch # None
             /\ t.peer_info[p].ip # None /\ p # None
  <2>1. p \in Peers /\ t.peer_info[p] # None
    BY <1>2 DEF Rows, Has
  <2>2. IsRow(t.peer_info[p])
    BY <2>1 DEF IsTables
  <2>3. t.peer_info[p].cols.name # None
    BY DEF Identified
  <2>. QED
    BY <2>1, <2>2, <2>3, TablesAssumption, Zenon DEF IsRow, Cols
<1>4. ASSUME NEW p \in Located(t) PROVE Country[t.peer_info[p].ip] # None
  <2>1. t.peer_info[p].ip \in IPs
    BY DEF Located, IsTables
  <2>. QED
    BY <2>1, TablesAssumption
<1>5. ASSUME NEW p \in RecentNodes(t)
      PROVE  t.eth_nodes[p].enr.fork # None /\ t.eth_nodes[p].enr.attnets # None
  BY DEF RecentNodes, IsTables, IsRecord
<1>. QED
  BY <1>1, <1>2, <1>3, <1>4, <1>5, Zenon

\* The agreement of the summaries, for any rows.
LEMMA SummariesAgree ==
  ASSUME IsTables(tables)
  PROVE  DistributionsAgree
<1>. DEFINE t == tables
            A == GetActivePeers(t)
            Q == Identified(t)
            L == Located(t)
            R == RecentNodes(t)
            name == [p \in A |-> Cols(t, p).name]
            version == [p \in A |-> <<Cols(t, p).name, Cols(t, p).version>>]
            os == [p \in A |-> Cols(t, p).os]
            arch == [p \in A |-> Cols(t, p).arch]
            country == [p \in L |-> Country[t.peer_info[p].ip]]
            bucket == [p \in Q |-> Bucket(t.peer_info[p].latency)]
            address == [p \in Q |-> t.peer_info[p].ip]
            fork == [p \in R |-> t.eth_nodes[p].enr.fork]
            attnets == [p \in R |-> t.eth_nodes[p].enr.attnets]
<1>1. /\ IsFiniteSet(A) /\ IsFiniteSet(Q) /\ IsFiniteSet(L) /\ IsFiniteSet(R)
      /\ A \subseteq Q /\ L \subseteq A
  BY SummaryRows, Zenon
<1>2. Counts(GetClientDistribution(t), A, name)
  <2>1. \A p \in A : name[p] # None
    BY SummaryRows, Zenon
  <2>2. name = [p \in A |-> name[p]]
    OBVIOUS
  <2>3. GetClientDistribution(t) = Distribution(name, name)
    BY Zenon DEF GetClientDistribution, Labels
  <2>. HIDE DEF name, A
  <2>. QED
    BY <1>1, <2>1, <2>2, <2>3, DistributionCounts
<1>3. Counts(GetVersionDistribution(t), A, version)
  <2>. DEFINE column == [p \in A |-> Cols(t, p).version]
  <2>1. \A p \in A : column[p] # None
    BY SummaryRows
  <2>2. version = [p \in A |-> version[p]]
    OBVIOUS
  <2>3. GetVersionDistribution(t) = Distribution(version, column)
    BY Zenon DEF GetVersionDistribution
  <2>. HIDE DEF version, column, A
  <2>. QED
    BY <1>1, <2>1, <2>2, <2>3, DistributionCounts
<1>4. Counts(GetOsDistribution(t), A, os)
  <2>1. \A p \in A : os[p] # None
    BY SummaryRows
  <2>2. os = [p \in A |-> os[p]]
    OBVIOUS
  <2>3. GetOsDistribution(t) = Distribution(os, os)
    BY Zenon DEF GetOsDistribution, Labels
  <2>. HIDE DEF os, A
  <2>. QED
    BY <1>1, <2>1, <2>2, <2>3, DistributionCounts
<1>5. Counts(GetArchDistribution(t), A, arch)
  <2>1. \A p \in A : arch[p] # None
    BY SummaryRows
  <2>2. arch = [p \in A |-> arch[p]]
    OBVIOUS
  <2>3. GetArchDistribution(t) = Distribution(arch, arch)
    BY Zenon DEF GetArchDistribution, Labels
  <2>. HIDE DEF arch, A
  <2>. QED
    BY <1>1, <2>1, <2>2, <2>3, DistributionCounts
<1>6. Counts(GetGeoDistribution(t), L, country)
  <2>1. \A p \in L : country[p] # None
    BY SummaryRows
  <2>2. country = [p \in L |-> country[p]]
    OBVIOUS
  <2>3. GetGeoDistribution(t) = Distribution(country, country)
    BY Zenon DEF GetGeoDistribution, Labels
  <2>. HIDE DEF country, L
  <2>. QED
    BY <1>1, <2>1, <2>2, <2>3, DistributionCounts
<1>7. Counts(GetRTTDistribution(t), Q, bucket)
  <2>. DEFINE column == [p \in Q |-> p]
  <2>1. \A p \in Q : column[p] # None
    BY SummaryRows
  <2>2. bucket = [p \in Q |-> bucket[p]]
    OBVIOUS
  <2>3. GetRTTDistribution(t) = Distribution(bucket, column)
    BY Zenon DEF GetRTTDistribution
  <2>. HIDE DEF bucket, column, Q
  <2>. QED
    BY <1>1, <2>1, <2>2, <2>3, DistributionCounts
<1>8. Counts(NodesOfIP(t), Q, address)
  <2>1. \A p \in Q : address[p] # None
    BY SummaryRows
  <2>2. address = [p \in Q |-> address[p]]
    OBVIOUS
  <2>3. NodesOfIP(t) = Distribution(address, address)
    BY Zenon DEF NodesOfIP, Labels
  <2>. HIDE DEF address, Q
  <2>. QED
    BY <1>1, <2>1, <2>2, <2>3, DistributionCounts
<1>9. Counts(GetNodePerForkDistribution(t), R, fork)
  <2>1. \A p \in R : fork[p] # None
    BY SummaryRows
  <2>2. fork = [p \in R |-> fork[p]]
    OBVIOUS
  <2>3. GetNodePerForkDistribution(t) = Distribution(fork, fork)
    BY Zenon DEF GetNodePerForkDistribution, Labels
  <2>. HIDE DEF fork, R
  <2>. QED
    BY <1>1, <2>1, <2>2, <2>3, DistributionCounts
<1>10. Counts(GetAttnetsDistribution(t), R, attnets)
  <2>1. \A p \in R : attnets[p] # None
    BY SummaryRows
  <2>2. attnets = [p \in R |-> attnets[p]]
    OBVIOUS
  <2>3. GetAttnetsDistribution(t) = Distribution(attnets, attnets)
    BY Zenon DEF GetAttnetsDistribution, Labels
  <2>. HIDE DEF attnets, R
  <2>. QED
    BY <1>1, <2>1, <2>2, <2>3, DistributionCounts
<1>11. Total(GetClientDistribution(t)) = Cardinality(A)
  BY <1>1, <1>2, CountsTotal
<1>12. Total(GetOsDistribution(t)) = Cardinality(A) /\ Total(GetArchDistribution(t)) = Cardinality(A)
  BY <1>1, <1>4, <1>5, CountsTotal
<1>13. Total(GetGeoDistribution(t)) = Cardinality(L)
  BY <1>1, <1>6, CountsTotal
<1>14. Total(GetRTTDistribution(t)) = Cardinality(Q)
  BY <1>1, <1>7, CountsTotal
<1>15. Total(GetNodePerForkDistribution(t)) = Total(GetAttnetsDistribution(t))
  BY <1>1, <1>9, <1>10, CountsTotal
<1>16. ASSUME NEW c \in DOMAIN GetClientDistribution(t)
       PROVE  GetClientDistribution(t)[c] =
                TotalOver(GetVersionDistribution(t),
                          {l \in DOMAIN GetVersionDistribution(t) : l[1] = c})
  <2>. DEFINE V == DOMAIN GetVersionDistribution(t)
              D == {l \in V : l[1] = c}
  <2>1. GetClientDistribution(t)[c] = Cardinality({p \in A : name[p] = c})
    <3>. HIDE DEF name, A
    <3>. QED
      BY <1>2 DEF Counts
  <2>2. TotalOver(GetVersionDistribution(t), D) = Cardinality({p \in A : version[p] \in D})
    <3>1. D \in SUBSET DOMAIN GetVersionDistribution(t)
      OBVIOUS
    <3>. HIDE DEF version, A, V, D
    <3>2. \A E \in SUBSET DOMAIN GetVersionDistribution(t) :
            TotalOver(GetVersionDistribution(t), E) = Cardinality({p \in A : version[p] \in E})
      BY <1>1, <1>3, CountsTotal
    <3>. QED
      BY <3>1, <3>2, Zenon
  <2>3. V = {version[p] : p \in A}
    <3>. HIDE DEF version, A
    <3>. QED
      BY <1>3 DEF Counts
  <2>4. {p \in A : version[p] \in D} = {p \in A : name[p] = c}
    <3>. HIDE DEF V
    <3>1. \A p \in A : version[p] \in V /\ version[p][1] = name[p]
      BY <2>3
    <3>. HIDE DEF version, name, A
    <3>. QED
      BY <3>1
  <2>. QED
    BY <2>1, <2>2, <2>4, Zenon
<1>17. ASSUME NEW k \in HostKinds PROVE GetHostingDistribution(t, k) <= Cardinality(L)
  <2>. DEFINE H == {p \in L : t.peer_info[p].ip \in Hosted[k]}
  <2>1. GetHostingDistribution(t, k) = Cardinality(H)
    BY DEF GetHostingDistribution
  <2>2. H \in SUBSET L
    OBVIOUS
  <2>. HIDE DEF H, L
  <2>. QED
    BY <1>1, <2>1, <2>2, FS_Subset
<1>18. Cardinality(A) <= Cardinality(Q)
  BY <1>1, FS_Subset
<1>19. LET nodes == GetIPDistribution(t)
       IN  Total([n \in DOMAIN nodes |-> n * nodes[n]]) = Cardinality(Q)
  <2>. DEFINE addresses == NodesOfIP(t)
              N == {addresses[ip] : ip \in DOMAIN addresses}
              weighted == [n \in DOMAIN GetIPDistribution(t) |-> n * GetIPDistribution(t)[n]]
  <2>1. GetIPDistribution(t) =
          [n \in N |-> Cardinality({ip \in DOMAIN addresses : addresses[ip] = n})]
    BY Zenon DEF GetIPDistribution
  <2>. HIDE DEF addresses, address, Q
  <2>2. /\ DOMAIN weighted = N
        /\ \A n \in N :
             weighted[n] = n * Cardinality({ip \in DOMAIN addresses : addresses[ip] = n})
    BY <2>1
  <2>3. Counts(addresses, Q, address)
    BY <1>8 DEF addresses
  <2>. HIDE DEF weighted
  <2>4. Total(weighted) = Cardinality(Q)
    BY <1>1, <2>2, <2>3, WeightedTotal
  <2>. QED
    BY <2>4 DEF weighted
<1>20. Cardinality(GetNonDeprecatedPeers(t)) + GetDeprecatedNodes(t) = Cardinality(Rows(t))
  <2>. DEFINE X == GetNonDeprecatedPeers(t)
              Y == {p \in Rows(t) : t.peer_info[p].deprecated}
  <2>1. X \cup Y = Rows(t) /\ X \cap Y = {}
    BY DEF GetNonDeprecatedPeers
  <2>2. IsFiniteSet(X) /\ IsFiniteSet(Y) /\ Cardinality(X) \in Nat /\ Cardinality(Y) \in Nat
    BY SummaryRows DEF GetNonDeprecatedPeers
  <2>3. GetDeprecatedNodes(t) = Cardinality(Y)
    BY DEF GetDeprecatedNodes
  <2>. HIDE DEF X, Y
  <2>4. Cardinality(X \cup Y) = Cardinality(X) + Cardinality(Y) - Cardinality({})
    BY <2>1, <2>2, FS_Union
  <2>. QED
    BY <2>1, <2>2, <2>3, <2>4, FS_EmptySet DEF X
<1>. HIDE DEF name, version, os, arch, country, bucket, address, fork, attnets
<1>. QED
  BY <1>11, <1>12, <1>13, <1>14, <1>15, <1>16, <1>17, <1>18, <1>19, <1>20, Zenon
 DEF DistributionsAgree

\* DistributionsAgree for any number of peers, addresses and persisters: whatever was
\* committed, the summaries count the same rows (crawler_metrics.go, eth_metrics.go).
THEOREM SummariesConsistent == Spec => []DistributionsAgree
<1>1. TablesInv => DistributionsAgree
  BY SummariesAgree DEF TablesInv
<1>. QED
  BY <1>1, InitTables, StepTables, PTL DEF Spec

=============================================================================
