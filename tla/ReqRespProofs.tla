--------------------------- MODULE ReqRespProofs ---------------------------
(***************************************************************************)
(* The requests between the crawler and its peers, for any connections,    *)
(* streams, sizes and statuses: who is to blame when a request that fits   *)
(* is refused, that overlapping updates never take the local status behind *)
(* what it was before them, and that the callback finds an error to        *)
(* dereference.                                                            *)
(***************************************************************************)
EXTENDS ReqResp, TLAPS

-----------------------------------------------------------------------------
(* The inductive invariants.                                               *)

\* A stream that has read its length, if it reads one, and assigned the limit.
Past(t) == stream[t].pc \notin {"none", "head", "check", "encode", "assign"}
Assigned(m) == \E t \in Streams : stream[t].m = m /\ Past(t)
Spoilt(m) == \E t \in Streams : stream[t].m = m /\ stream[t].invalid /\ Past(t)

\* What a limit that is read may be, and why.
LimitForm(m) ==
  \/ limit[m] = MaxByteLen(m)
  \/ Spoilt(m)
  \/ limit[m] >= MaxByteLen(m) + 32 /\ Assigned(m)

\* What is said of a request that is refused although it fits.
Blame(s) ==
  /\ stream[s].m # "metadata"
  /\ \E t \in Streams : stream[t].m = stream[s].m /\ stream[t].invalid
  /\ \E t \in Streams \ {s} :
       stream[t].m = stream[s].m /\ stream[t].pc \notin {"none", "head", "check", "encode"}

Refusable(s) ==
  stream[s].invalid \/ ~Decode(stream[s].m, stream[s].reqLen, stream[s].N, stream[s].body)

\* The request was found valid.
Valid(r) == ~r.invalid /\ r.reqLen = r.len /\ r.len >= MinByteLen(r.m)

StreamForm(s) ==
  LET r == stream[s]
  IN  /\ r.pc \in {"check", "encode", "assign", "bound"} => r.m # "metadata"
      /\ r.pc \in {"none", "head", "check"} => r.reqLen = 0 /\ ~r.invalid
      /\ r.pc \in {"encode", "bound"} => Valid(r)
      /\ r.pc = "assign" =>
           IF r.invalid THEN Fits(s) => Blame(s)
           ELSE Valid(r) /\ (Spoilt(r.m) \/ r.next >= MaxByteLen(r.m) + 32)
      /\ r.pc = "listen" /\ Fits(s) /\ Refusable(s) => Blame(s)
      /\ r.resp = "error" => r.pc = "done" /\ (Fits(s) => Blame(s))

\* The limits and the streams that share them.
LimitInv ==
  /\ limit["metadata"] = 0
  /\ \A m \in Methods : LimitForm(m)
  /\ \A s \in Streams : StreamForm(s)

Active(pc) == pc \in {"root", "slot"}

\* The local status, and every status that is being copied over it, has at least
\* slot n.
AtLeast(n) ==
  /\ LocalStatus.slot >= n
  /\ \A s \in Streams : Active(stream[s].pc) => stream[s].body >= n
  /\ \A c \in Conns : Active(asked[c].status.pc) => asked[c].status.slot >= n

\* The identification of a callback has left an error when it is done.
IdentInv ==
  \A c \in Conns : /\ asked[c].pc # "panicked"
                   /\ asked[c].ident = "done" => asked[c].hinfoErr = "error"

-----------------------------------------------------------------------------
(* Lengths.                                                                *)

\* Status and ping have one length each, that fits an encoding; metadata has no request.
LEMMA Lengths ==
  /\ \A m \in Methods : MinByteLen(m) \in Nat /\ MaxByteLen(m) = MinByteLen(m)
  /\ \A m \in Methods : m # "metadata" =>
       MaxByteLen(m) >= 1 /\ 32 + MaxByteLen(m) + MaxByteLen(m) \div 6 <= MaxUint32
  /\ MaxByteLen("metadata") = 0
  /\ MaxUint32 \in Nat
BY RpcAssumption DEF MinByteLen, MaxByteLen, Methods

\* A raw length has an encoded length that is larger, or none.
LEMMA Encoded ==
  ASSUME NEW n \in Nat
  PROVE  /\ MaxEncodedLen(n) \in Int
         /\ MaxEncodedLen(n) # -1 => /\ MaxEncodedLen(n) \in Nat
                                     /\ MaxEncodedLen(n) >= n + 32
                                     /\ MaxEncodedLen(n) <= MaxUint32
<1>1. n \div 6 \in Nat
  OBVIOUS
<1>. QED
  BY <1>1, Lengths DEF MaxEncodedLen

\* The size of a codec can be encoded.
LEMMA CodecEncodes ==
  ASSUME NEW m \in Methods, m # "metadata"
  PROVE  MaxEncodedLen(MaxByteLen(m)) # -1
<1>1. MaxByteLen(m) \in Nat
  BY Lengths
<1>2. MaxByteLen(m) \div 6 \in Nat
  BY <1>1
<1>. QED
  BY <1>1, <1>2, Lengths DEF MaxEncodedLen

-----------------------------------------------------------------------------
(* Types.  A step of a stream changes its own record, and so does a step   *)
(* of a callback.                                                          *)

StreamOK(r) == r \in StreamRecords /\ (r.pc \in {"test", "root", "slot"} => r.body \in Slots)

\* What the type says of streams and callbacks.
LEMMA Typing ==
  TypeOK => /\ limit \in [Methods -> Nat]
            /\ stream \in [Streams -> StreamRecords]
            /\ \A s \in Streams : StreamOK(stream[s])
            /\ \A c \in Conns : asked[c] \in CallbackRecords
BY DEF TypeOK, StreamOK

\* A step of one stream keeps the type of all.
LEMMA OneStream ==
  ASSUME TypeOK, NEW s \in Streams, NEW r, StreamOK(r),
         stream' = [stream EXCEPT ![s] = r],
         limit' \in [Methods -> Nat],
         UNCHANGED <<asked>>,
         LocalStatus' \in Status
  PROVE  TypeOK'
<1>1. stream' \in [Streams -> StreamRecords]
  BY DEF TypeOK, StreamOK
<1>2. \A t \in Streams : stream'[t].pc \in {"test", "root", "slot"} => stream'[t].body \in Slots
  BY DEF TypeOK, StreamOK
<1>. QED
  BY <1>1, <1>2 DEF TypeOK

\* A step of one callback keeps the type of all.
LEMMA OneCallback ==
  ASSUME TypeOK, NEW c \in Conns, NEW r \in CallbackRecords,
         asked' = [asked EXCEPT ![c] = r],
         UNCHANGED <<limit, stream>>,
         LocalStatus' \in Status
  PROVE  TypeOK'
BY DEF TypeOK

\* The types hold at first.
LEMMA InitTyped == Init => TypeOK
<1>. SUFFICES ASSUME Init PROVE TypeOK
  OBVIOUS
<1>1. limit \in [Methods -> Nat]
  BY Lengths DEF Init
<1>2. NewStreamRecord \in StreamRecords /\ NewStreamRecord.pc = "none"
  BY DEF NewStreamRecord, NewStream, StreamRecords, Methods, StreamPcs
<1>3. NewRequestRecord \in RequestRecords
  BY DEF NewRequestRecord, RequestRecords, RequestPcs
<1>4. NewCallbackRecord \in CallbackRecords
  BY <1>3 DEF NewCallbackRecord, CallbackRecords
<1>5. LocalStatus \in Status
  BY DEF Init, ZeroStatus, Status
<1>. QED
  BY <1>1, <1>2, <1>4, <1>5, Zenon DEF Init, TypeOK

-----------------------------------------------------------------------------
(* What each step of a stream makes of its record.                         *)

Moves(s) ==
  /\ stream' = [stream EXCEPT ![s] = stream'[s]]
  /\ StreamOK(stream'[s])

\* The request of the stream stays.
Keeps(s) ==
  /\ stream'[s].m = stream[s].m
  /\ stream'[s].len = stream[s].len
  /\ stream'[s].body = stream[s].body

\* A stream is opened.
LEMMA OpenShape ==
  ASSUME TypeOK, NEW s \in Streams, Open(s)
  PROVE  /\ Moves(s)
         /\ stream[s].pc = "none"
         /\ stream'[s].pc = "head" /\ stream'[s].reqLen = 0 /\ ~stream'[s].invalid
         /\ stream'[s].resp = "none"
<1>1. PICK q \in RemoteRequests :
        stream' = [stream EXCEPT ![s] = NewStream(q.m, q.len, q.body, "head")]
  BY Zenon DEF Open
<1>2. q \in [m : Methods, len : Nat \cup {Garbled}, body : Slots \cup {Garbled}]
  BY RpcAssumption
<1>. DEFINE r == NewStream(q.m, q.len, q.body, "head")
<1>3. /\ r \in StreamRecords
      /\ r.pc = "head" /\ r.reqLen = 0 /\ r.invalid = FALSE /\ r.resp = "none"
  BY <1>2 DEF StreamRecords, StreamPcs, NewStream
<1>. HIDE DEF r
<1>4. stream' = [stream EXCEPT ![s] = r] /\ stream'[s] = r
  BY <1>1, Typing DEF r
<1>5. Moves(s)
  BY <1>3, <1>4, Zenon DEF Moves, StreamOK
<1>6. stream[s].pc = "none"
  BY DEF Open
<1>. QED
  BY <1>3, <1>4, <1>5, <1>6

\* The handler reads the length only if the limit is not 0.
LEMMA StartShape ==
  ASSUME TypeOK, NEW s \in Streams, Start(s)
  PROVE  /\ Moves(s) /\ Keeps(s)
         /\ stream[s].pc = "head"
         /\ stream'[s].pc = IF limit[stream[s].m] = 0 THEN "listen" ELSE "check"
         /\ stream'[s].reqLen = stream[s].reqLen /\ stream'[s].invalid = stream[s].invalid
         /\ stream'[s].N = stream[s].N /\ stream'[s].resp = stream[s].resp
<1>. DEFINE r == [stream[s] EXCEPT !.pc = IF limit[stream[s].m] = 0 THEN "listen" ELSE "check"]
<1>1. stream' = [stream EXCEPT ![s] = r] /\ stream'[s] = r
  BY Typing DEF Start
<1>2. stream[s] \in StreamRecords
  BY Typing DEF StreamOK
<1>. QED
  BY <1>1, <1>2, Zenon DEF Moves, Keeps, StreamOK, StreamRecords, StreamPcs, Start

\* The length is compared with the limit as it is at that moment.
LEMMA CheckShape ==
  ASSUME TypeOK, NEW s \in Streams, CheckLength(s)
  PROVE  LET r   == stream[s]
             bad == \/ r.len = Garbled
                    \/ r.len < MinByteLen(r.m)
                    \/ r.len > limit[r.m]
         IN  /\ Moves(s) /\ Keeps(s)
             /\ r.pc = "check" /\ stream'[s].pc = IF bad THEN "assign" ELSE "encode"
             /\ stream'[s].invalid = bad
             /\ stream'[s].reqLen = IF r.len = Garbled THEN 0 ELSE r.len
             /\ stream'[s].next = r.next
             /\ stream'[s].resp = r.resp
<1>. DEFINE bad == \/ stream[s].len = Garbled
                   \/ stream[s].len < MinByteLen(stream[s].m)
                   \/ stream[s].len > limit[stream[s].m]
            pc == IF bad THEN "assign" ELSE "encode"
            length == IF stream[s].len = Garbled THEN 0 ELSE stream[s].len
            r == [stream[s] EXCEPT !.pc = pc, !.invalid = bad, !.reqLen = length]
<1>1. stream[s] \in StreamRecords
  BY Typing DEF StreamOK
<1>2. length \in Nat /\ bad \in BOOLEAN /\ pc \in {"assign", "encode"}
  BY <1>1 DEF StreamRecords
<1>3. stream' = [stream EXCEPT ![s] = r] /\ stream'[s] = r
  BY Typing DEF CheckLength
<1>. HIDE DEF bad, length, pc
<1>4. /\ r \in StreamRecords /\ r.pc = pc
      /\ r.invalid = bad /\ r.reqLen = length /\ r.next = stream[s].next
      /\ r.resp = stream[s].resp
      /\ r.m = stream[s].m /\ r.len = stream[s].len /\ r.body = stream[s].body
  BY <1>1, <1>2, Zenon DEF StreamRecords, StreamPcs
<1>. HIDE DEF r
<1>5. /\ Moves(s) /\ Keeps(s)
      /\ stream'[s].pc = pc /\ stream'[s].next = stream[s].next
      /\ stream'[s].invalid = bad /\ stream'[s].reqLen = length
      /\ stream'[s].resp = stream[s].resp
  BY <1>2, <1>3, <1>4, Zenon DEF Moves, Keeps, StreamOK
<1>6. stream[s].pc = "check"
  BY DEF CheckLength
<1>. QED
  BY <1>5, <1>6 DEF bad, length, pc

\* The adjusted limit is computed from the limit as it is at that moment.
LEMMA EncodeShape ==
  ASSUME TypeOK, NEW s \in Streams, EncodeLimit(s)
  PROVE  LET e == MaxEncodedLen(limit[stream[s].m])
         IN  /\ Moves(s) /\ Keeps(s)
             /\ stream[s].pc = "encode" /\ stream'[s].pc = "assign"
             /\ stream'[s].invalid = (e = -1)
             /\ stream'[s].next = IF e = -1 THEN 0 ELSE e
             /\ stream'[s].reqLen = stream[s].reqLen
             /\ stream'[s].resp = stream[s].resp
<1>. DEFINE e == MaxEncodedLen(limit[stream[s].m])
            bad == e = -1
            next == IF e = -1 THEN 0 ELSE e
            r == [stream[s] EXCEPT !.pc = "assign", !.invalid = bad, !.next = next]
<1>1. stream[s] \in StreamRecords
  BY Typing DEF StreamOK
<1>2. limit[stream[s].m] \in Nat
  BY <1>1, Typing DEF StreamRecords
<1>3. next \in Nat /\ bad \in BOOLEAN
  BY <1>2, Encoded
<1>4. stream' = [stream EXCEPT ![s] = r] /\ stream'[s] = r
  BY <1>1, Typing, Zenon DEF EncodeLimit
<1>. HIDE DEF bad, next
<1>5. /\ r \in StreamRecords /\ r.pc = "assign"
      /\ r.invalid = bad /\ r.next = next /\ r.reqLen = stream[s].reqLen
      /\ r.resp = stream[s].resp
      /\ r.m = stream[s].m /\ r.len = stream[s].len /\ r.body = stream[s].body
  BY <1>1, <1>3, Zenon DEF StreamRecords, StreamPcs
<1>. HIDE DEF r
<1>6. Moves(s) /\ Keeps(s)
  BY <1>4, <1>5, Zenon DEF Moves, Keeps, StreamOK
<1>7. stream[s].pc = "encode"
  BY DEF EncodeLimit
<1>. QED
  BY <1>4, <1>5, <1>6, <1>7 DEF bad, next

\* The limit of the closure is replaced.
LEMMA AssignShape ==
  ASSUME TypeOK, NEW s \in Streams, AssignLimit(s)
  PROVE  /\ Moves(s) /\ Keeps(s)
         /\ stream[s].pc = "assign"
         /\ stream'[s].pc = IF stream[s].invalid THEN "listen" ELSE "bound"
         /\ stream'[s].reqLen = stream[s].reqLen /\ stream'[s].invalid = stream[s].invalid
         /\ stream'[s].resp = stream[s].resp
         /\ limit' = [limit EXCEPT ![stream[s].m] =
                         IF stream[s].invalid THEN 0 ELSE stream[s].next]
         /\ limit' \in [Methods -> Nat]
<1>. DEFINE r == [stream[s] EXCEPT !.next = 0,
                                   !.pc = IF stream[s].invalid THEN "listen" ELSE "bound"]
<1>1. stream[s] \in StreamRecords
  BY Typing DEF StreamOK
<1>2. stream' = [stream EXCEPT ![s] = r] /\ stream'[s] = r
  BY <1>1, Typing, Zenon DEF AssignLimit
<1>3. /\ limit' = [limit EXCEPT ![stream[s].m] =
                     IF stream[s].invalid THEN 0 ELSE stream[s].next]
      /\ stream[s].pc = "assign"
  BY DEF AssignLimit
<1>4. limit' \in [Methods -> Nat]
  BY <1>1, <1>3, Typing DEF StreamRecords
<1>5. /\ r \in StreamRecords /\ r.pc = IF stream[s].invalid THEN "listen" ELSE "bound"
      /\ r.invalid = stream[s].invalid /\ r.reqLen = stream[s].reqLen /\ r.resp = stream[s].resp
      /\ r.m = stream[s].m /\ r.len = stream[s].len /\ r.body = stream[s].body
  BY <1>1, Zenon DEF StreamRecords, StreamPcs
<1>. HIDE DEF r
<1>6. Moves(s) /\ Keeps(s)
  BY <1>2, <1>5, Zenon DEF Moves, Keeps, StreamOK
<1>. QED
  BY <1>2, <1>3, <1>4, <1>5, <1>6

\* The reader is bounded by the limit as it is at that moment.
LEMMA BoundShape ==
  ASSUME TypeOK, NEW s \in Streams, BoundReader(s)
  PROVE  LET max == limit[stream[s].m]
             e   == MaxEncodedLen(max)
         IN  /\ Moves(s) /\ Keeps(s)
             /\ stream[s].pc = "bound" /\ stream'[s].pc = "listen"
             /\ stream'[s].N = IF e = -1 THEN max ELSE e
             /\ stream'[s].reqLen = stream[s].reqLen /\ stream'[s].invalid = stream[s].invalid
             /\ stream'[s].resp = stream[s].resp
<1>. DEFINE max == limit[stream[s].m]
            e == MaxEncodedLen(max)
            n == IF e = -1 THEN max ELSE e
            r == [stream[s] EXCEPT !.N = n, !.pc = "listen"]
<1>1. stream[s] \in StreamRecords
  BY Typing DEF StreamOK
<1>2. max \in Nat
  BY <1>1, Typing DEF StreamRecords
<1>3. n \in Nat
  BY <1>2, Encoded
<1>4. stream' = [stream EXCEPT ![s] = r] /\ stream'[s] = r
  BY <1>1, Typing, Zenon DEF BoundReader
<1>. HIDE DEF n
<1>5. /\ r \in StreamRecords /\ r.pc = "listen" /\ r.N = n
      /\ r.invalid = stream[s].invalid /\ r.reqLen = stream[s].reqLen /\ r.resp = stream[s].resp
      /\ r.m = stream[s].m /\ r.len = stream[s].len /\ r.body = stream[s].body
  BY <1>1, <1>3, Zenon DEF StreamRecords, StreamPcs
<1>. HIDE DEF r
<1>7. Moves(s) /\ Keeps(s)
  BY <1>4, <1>5, Zenon DEF Moves, Keeps, StreamOK
<1>6. stream[s].pc = "bound"
  BY DEF BoundReader
<1>. QED
  BY <1>4, <1>5, <1>6, <1>7 DEF n

\* The listener has ended, or goes on with the status it read.
LEMMA RefuseShape ==
  ASSUME TypeOK, NEW s \in Streams, RefuseRequest(s)
  PROVE  /\ Moves(s) /\ Keeps(s)
         /\ stream[s].pc = "listen" /\ Refusable(s)
         /\ stream'[s].pc = "done" /\ stream'[s].invalid = stream[s].invalid
         /\ stream'[s].resp = "error"
<1>. DEFINE r == [stream[s] EXCEPT !.pc = "done", !.N = 0, !.resp = "error"]
<1>1. stream[s] \in StreamRecords
  BY Typing DEF StreamOK
<1>2. stream' = [stream EXCEPT ![s] = r] /\ stream'[s] = r
  BY <1>1, Typing, Zenon DEF RefuseRequest
<1>3. /\ r \in StreamRecords /\ r.pc = "done" /\ r.resp = "error"
      /\ r.invalid = stream[s].invalid
      /\ r.m = stream[s].m /\ r.len = stream[s].len /\ r.body = stream[s].body
  BY <1>1, Zenon DEF StreamRecords, StreamPcs
<1>. HIDE DEF r
<1>4. Moves(s) /\ Keeps(s)
  BY <1>2, <1>3, Zenon DEF Moves, Keeps, StreamOK
<1>5. stream[s].pc = "listen" /\ Refusable(s)
  BY DEF RefuseRequest, Refusable
<1>. QED
  BY <1>2, <1>3, <1>4, <1>5

ServeBeacon(s) == ServeBeaconPing(s) \/ ServeBeaconMetadata(s) \/ ServeBeaconStatus(s)

\* A request is answered, or the stream is lost.
LEMMA ServeShape ==
  ASSUME TypeOK, NEW s \in Streams, ServeBeacon(s)
  PROVE  /\ Moves(s) /\ Keeps(s)
         /\ UNCHANGED <<limit, asked, LocalStatus>>
         /\ stream[s].pc = "listen"
         /\ stream'[s].pc \in {"done", "test"} /\ stream'[s].invalid = stream[s].invalid
         /\ stream'[s].resp \in {"success", "lost"}
<1>1. stream[s] \in StreamRecords
  BY Typing DEF StreamOK
<1>2. PICK then \in {"done", "test"} :
        /\ WriteResponseChunk(s, then)
        /\ then = "test" => stream[s].m = "status"
  BY DEF ServeBeacon, ServeBeaconPing, ServeBeaconMetadata, ServeBeaconStatus
<1>3. PICK resp \in StreamChunk :
        stream' = [stream EXCEPT ![s].N = 0, ![s].resp = resp,
                                 ![s].pc = IF resp = "success" THEN then ELSE "done"]
  BY <1>2, Zenon DEF WriteResponseChunk
<1>4. then = "test" => stream[s].body \in Slots
  BY <1>1, <1>2 DEF WriteResponseChunk, Decode, StreamRecords
<1>. DEFINE pc == IF resp = "success" THEN then ELSE "done"
            r == [stream[s] EXCEPT !.N = 0, !.resp = resp, !.pc = pc]
<1>5. stream' = [stream EXCEPT ![s] = r] /\ stream'[s] = r
  BY <1>1, <1>3, Typing, Zenon
<1>6. pc \in {"done", "test"} /\ (pc = "test" => then = "test")
  BY <1>2
<1>. HIDE DEF pc
<1>7. resp \in {"success", "lost"}
  BY <1>3 DEF StreamChunk
<1>8. /\ r \in StreamRecords /\ r.pc = pc /\ r.resp = resp
      /\ r.invalid = stream[s].invalid
      /\ r.m = stream[s].m /\ r.len = stream[s].len /\ r.body = stream[s].body
  BY <1>1, <1>6, <1>7, Zenon DEF StreamRecords, StreamPcs
<1>. HIDE DEF r
<1>9. Moves(s) /\ Keeps(s)
  BY <1>4, <1>5, <1>6, <1>8, Zenon DEF Moves, Keeps, StreamOK
<1>10. stream[s].pc = "listen" /\ UNCHANGED <<limit, asked, LocalStatus>>
  BY <1>2 DEF WriteResponseChunk
<1>. QED
  BY <1>5, <1>6, <1>7, <1>8, <1>9, <1>10

\* A step of UpdateStatus in a stream.
ServedUpdate(s) == ServedTest(s) \/ ServedRoot(s) \/ ServedSlot(s)

\* One part of an update of the local status.
LEMMA UpdateShape ==
  ASSUME TypeOK, NEW s \in Streams, NEW pc \in {"root", "slot", "done"},
         stream[s].pc \in {"test", "root", "slot"},
         stream' = [stream EXCEPT ![s].pc = pc]
  PROVE  /\ Moves(s) /\ Keeps(s)
         /\ stream'[s].pc = pc
         /\ stream'[s].invalid = stream[s].invalid /\ stream'[s].resp = stream[s].resp
<1>. DEFINE r == [stream[s] EXCEPT !.pc = pc]
<1>1. stream[s] \in StreamRecords /\ stream[s].body \in Slots
  BY Typing DEF StreamOK
<1>2. stream' = [stream EXCEPT ![s] = r] /\ stream'[s] = r
  BY <1>1, Typing
<1>3. /\ r \in StreamRecords /\ r.pc = pc /\ r.resp = stream[s].resp
      /\ r.invalid = stream[s].invalid
      /\ r.m = stream[s].m /\ r.len = stream[s].len /\ r.body = stream[s].body
  BY <1>1 DEF StreamRecords, StreamPcs
<1>. HIDE DEF r
<1>. QED
  BY <1>1, <1>2, <1>3, Zenon DEF Moves, Keeps, StreamOK

\* An update on behalf of a served stream.
LEMMA ServedUpdateShape ==
  ASSUME TypeOK, NEW s \in Streams, ServedUpdate(s)
  PROVE  /\ Moves(s) /\ Keeps(s)
         /\ UNCHANGED <<limit, asked>>
         /\ stream[s].pc \in {"test", "root", "slot"}
         /\ stream'[s].pc \in {"root", "slot", "done"}
         /\ stream'[s].invalid = stream[s].invalid /\ stream'[s].resp = stream[s].resp
         /\ LocalStatus' \in Status
<1>0. stream[s].pc \in {"test", "root", "slot"} => stream[s].body \in Slots
  BY Typing DEF StreamOK
<1>1. CASE ServedTest(s)
  <2>1. AfterTest(stream[s].body) \in {"root", "done"}
    BY DEF AfterTest
  <2>2. stream[s].pc = "test" /\ stream' = [stream EXCEPT ![s].pc = AfterTest(stream[s].body)]
    BY <1>1 DEF ServedTest
  <2>3. LocalStatus' \in Status /\ UNCHANGED <<limit, asked>>
    BY <1>0, <1>1 DEF ServedTest, TypeOK
  <2>. QED
    BY <2>1, <2>2, <2>3, UpdateShape, Zenon
<1>2. CASE ServedRoot(s)
  <2>2. stream[s].pc = "root" /\ stream' = [stream EXCEPT ![s].pc = "slot"]
    BY <1>2 DEF ServedRoot
  <2>3. LocalStatus' \in Status /\ UNCHANGED <<limit, asked>>
    BY <1>0, <1>2 DEF ServedRoot, CopyRoot, TypeOK, Status
  <2>. QED
    BY <2>2, <2>3, UpdateShape, Zenon
<1>3. CASE ServedSlot(s)
  <2>2. stream[s].pc = "slot" /\ stream' = [stream EXCEPT ![s].pc = "done"]
    BY <1>3 DEF ServedSlot
  <2>3. LocalStatus' \in Status /\ UNCHANGED <<limit, asked>>
    BY <1>0, <1>3 DEF ServedSlot, CopySlot, TypeOK, Status
  <2>. QED
    BY <2>2, <2>3, UpdateShape, Zenon
<1>. QED
  BY <1>1, <1>2, <1>3 DEF ServedUpdate
-----------------------------------------------------------------------------
(* What each step of a callback makes of its record.                       *)

Kinds == {"status", "metadata"}

Turns(c) ==
  /\ asked' = [asked EXCEPT ![c] = asked'[c]]
  /\ asked'[c] \in CallbackRecords

\* The results of the requests stay.
KeepsResults(c) ==
  asked'[c].status = asked[c].status /\ asked'[c].metadata = asked[c].metadata

\* The identification stays.
KeepsIdent(c) ==
  asked'[c].ident = asked[c].ident /\ asked'[c].hinfoErr = asked[c].hinfoErr

\* A callback starts, or its connection ends.
LEMMA ConnectShape ==
  ASSUME TypeOK, NEW c \in Conns, ConnectF(c) \/ Disconnect(c)
  PROVE  /\ Turns(c) /\ KeepsResults(c) /\ KeepsIdent(c)
         /\ asked'[c].pc = "wait"
         /\ UNCHANGED <<limit, stream, LocalStatus>>
<1>1. asked[c] \in CallbackRecords /\ asked \in [Conns -> CallbackRecords]
  BY DEF TypeOK
<1>2. CASE ConnectF(c)
  <2>. DEFINE r == [asked[c] EXCEPT !.pc = "wait"]
  <2>1. asked' = [asked EXCEPT ![c] = r] /\ asked'[c] = r
    BY <1>1, <1>2 DEF ConnectF
  <2>2. /\ r \in CallbackRecords /\ r.pc = "wait"
        /\ r.status = asked[c].status /\ r.metadata = asked[c].metadata
        /\ r.ident = asked[c].ident /\ r.hinfoErr = asked[c].hinfoErr
    BY <1>1 DEF CallbackRecords
  <2>. HIDE DEF r
  <2>. QED
    BY <1>2, <2>1, <2>2, Zenon DEF Turns, KeepsResults, KeepsIdent, ConnectF
<1>3. CASE Disconnect(c)
  <2>. DEFINE r == [asked[c] EXCEPT !.alive = FALSE]
  <2>1. asked' = [asked EXCEPT ![c] = r] /\ asked'[c] = r
    BY <1>1, <1>3 DEF Disconnect
  <2>2. /\ r \in CallbackRecords /\ r.pc = asked[c].pc
        /\ r.status = asked[c].status /\ r.metadata = asked[c].metadata
        /\ r.ident = asked[c].ident /\ r.hinfoErr = asked[c].hinfoErr
    BY <1>1, Zenon DEF CallbackRecords
  <2>. HIDE DEF r
  <2>. QED
    BY <1>3, <2>1, <2>2, Zenon DEF Turns, KeepsResults, KeepsIdent, Disconnect
<1>. QED
  BY <1>2, <1>3

\* One request of the callback goes on; if it is the status, its slot is only to be
\* tested.
LEMMA ResultShape ==
  ASSUME TypeOK, NEW c \in Conns, NEW k \in Kinds, NEW q \in RequestRecords,
         asked' = [asked EXCEPT ![c][k] = q]
  PROVE  /\ Turns(c)
         /\ asked'[c].pc = asked[c].pc /\ KeepsIdent(c)
         /\ asked'[c].status = IF k = "status" THEN q ELSE asked[c].status
         /\ asked'[c].metadata = IF k = "metadata" THEN q ELSE asked[c].metadata
<1>1. asked[c] \in CallbackRecords /\ asked \in [Conns -> CallbackRecords]
  BY DEF TypeOK
<1>. DEFINE r == [asked[c] EXCEPT ![k] = q]
<1>2. asked' = [asked EXCEPT ![c] = r] /\ asked'[c] = r
  BY <1>1
<1>3. CASE k = "status"
  <2>1. /\ r \in CallbackRecords /\ r.pc = asked[c].pc
        /\ r.ident = asked[c].ident /\ r.hinfoErr = asked[c].hinfoErr
        /\ r.status = q /\ r.metadata = asked[c].metadata
    BY <1>1, <1>3 DEF CallbackRecords
  <2>. HIDE DEF r
  <2>. QED
    BY <1>2, <1>3, <2>1, Zenon DEF Turns, KeepsIdent
<1>4. CASE k = "metadata"
  <2>1. /\ r \in CallbackRecords /\ r.pc = asked[c].pc
        /\ r.ident = asked[c].ident /\ r.hinfoErr = asked[c].hinfoErr
        /\ r.status = asked[c].status /\ r.metadata = q
    BY <1>1, <1>4 DEF CallbackRecords
  <2>. HIDE DEF r
  <2>. QED
    BY <1>2, <1>4, <2>1, Zenon DEF Turns, KeepsIdent
<1>. QED
  BY <1>3, <1>4 DEF Kinds

\* A request ends with a result.
LEMMA EndedShape ==
  ASSUME TypeOK, NEW c \in Conns, NEW k \in Kinds,
         NEW err \in BOOLEAN, NEW slot \in Slots \cup {0}, Ended(c, k, err, slot)
  PROVE  \E q \in RequestRecords :
           q.pc \in {"test", "done"} /\ asked' = [asked EXCEPT ![c][k] = q]
<1>. DEFINE q == IF k = "status" THEN ReqBeaconStatus(err, slot) ELSE ReqBeaconMetadata(err)
<1>1. ReqBeaconStatus(err, slot) \in RequestRecords /\ ReqBeaconStatus(err, slot).pc = "test"
  BY DEF ReqBeaconStatus, RequestRecords, RequestPcs
<1>2. ReqBeaconMetadata(err) \in RequestRecords /\ ReqBeaconMetadata(err).pc = "done"
  BY DEF ReqBeaconMetadata, RequestRecords, RequestPcs
<1>3. q \in RequestRecords /\ q.pc \in {"test", "done"}
  BY <1>1, <1>2
<1>4. asked' = [asked EXCEPT ![c][k] = q]
  BY DEF Ended
<1>. QED
  BY <1>3, <1>4, Zenon

\* A request makes one step.
LEMMA RequestShape ==
  ASSUME TypeOK, NEW c \in Conns, NEW k \in Kinds, RequestStep(c, k)
  PROVE  /\ \E q \in RequestRecords :
              q.pc \in {"read", "test", "done"} /\ asked' = [asked EXCEPT ![c][k] = q]
         /\ asked[c][k].pc \in {"request", "read"}
         /\ UNCHANGED <<limit, stream, LocalStatus>>
<1>1. asked[c] \in CallbackRecords /\ asked \in [Conns -> CallbackRecords]
  BY DEF TypeOK
<1>2. asked[c][k] \in RequestRecords
  BY <1>1 DEF CallbackRecords, Kinds
<1>3. asked[c][k].pc \in {"request", "read"} /\ UNCHANGED <<limit, stream, LocalStatus>>
  BY Zenon DEF RequestStep, RunRequest, ReadEnd, ReadChunk
<1>4. \/ asked' = [asked EXCEPT ![c][k].pc = "read"]
      \/ \E err \in BOOLEAN, slot \in Slots \cup {0} : Ended(c, k, err, slot)
  <2>1. CASE RunRequest(c, k)
    BY <2>1, Zenon DEF RunRequest
  <2>2. CASE ReadEnd(c, k)
    BY <2>2, Zenon DEF ReadEnd
  <2>3. CASE ReadChunk(c, k)
    <3>1. PICK ch \in Chunks :
            IF \/ ch.size > ChunkLimit(ch.code)
               \/ ch.body = Garbled
               \/ ch.code \notin {SuccessCode} \cup ErrorCodes
            THEN Ended(c, k, TRUE, 0)
            ELSE Ended(c, k, FALSE, IF ch.code = SuccessCode THEN ch.body ELSE 0)
      BY <2>3, Zenon DEF ReadChunk
    <3>2. ch.body \in Slots \cup {Garbled}
      BY DEF Chunks
    <3>3. CASE Ended(c, k, TRUE, 0)
      BY <3>3, Zenon
    <3>4. CASE ch.body # Garbled /\ Ended(c, k, FALSE, IF ch.code = SuccessCode THEN ch.body ELSE 0)
      <4>1. (IF ch.code = SuccessCode THEN ch.body ELSE 0) \in Slots \cup {0}
        BY <3>2, <3>4
      <4>. QED
        BY <3>4, <4>1, Zenon
    <3>. QED
      BY <3>1, <3>3, <3>4, Zenon
  <2>. QED
    BY <2>1, <2>2, <2>3 DEF RequestStep
<1>5. CASE asked' = [asked EXCEPT ![c][k].pc = "read"]
  <2>. DEFINE q == [asked[c][k] EXCEPT !.pc = "read"]
  <2>1. q \in RequestRecords /\ q.pc = "read"
    BY <1>2 DEF RequestRecords, RequestPcs
  <2>2. asked' = [asked EXCEPT ![c][k] = q]
    BY <1>5
  <2>. QED
    BY <1>3, <2>1, <2>2, Zenon
<1>. QED
  BY <1>3, <1>4, <1>5, EndedShape
\* A step of UpdateStatus in the goroutine that asked for the status.
LEMMA AskedUpdateShape ==
  ASSUME TypeOK, NEW c \in Conns, UpdateStep(c)
  PROVE  \E pc \in {"root", "slot", "done"} :
           /\ asked[c].status.pc \in {"test", "root", "slot"}
           /\ asked' = [asked EXCEPT ![c].status.pc = pc]
           /\ Turns(c)
           /\ asked'[c].status.pc = pc
           /\ asked'[c].status.slot = asked[c].status.slot
           /\ asked'[c].pc = asked[c].pc /\ KeepsIdent(c)
           /\ UNCHANGED <<limit, stream>>
           /\ LocalStatus' \in Status
<1>1. asked[c] \in CallbackRecords /\ asked \in [Conns -> CallbackRecords]
  BY DEF TypeOK
<1>2. asked[c].status \in RequestRecords /\ asked[c].status.slot \in Slots \cup {0}
  BY <1>1 DEF CallbackRecords, RequestRecords
<1>3. ASSUME NEW pc \in {"root", "slot", "done"}, asked' = [asked EXCEPT ![c].status.pc = pc]
      PROVE  /\ Turns(c) /\ asked'[c].status.pc = pc
             /\ asked'[c].status.slot = asked[c].status.slot
             /\ asked'[c].pc = asked[c].pc /\ KeepsIdent(c)
  <2>. DEFINE q == [asked[c].status EXCEPT !.pc = pc]
              r == [asked[c] EXCEPT !.status = q]
  <2>1. q \in RequestRecords /\ q.pc = pc /\ q.slot = asked[c].status.slot
    BY <1>2 DEF RequestRecords, RequestPcs
  <2>2. asked' = [asked EXCEPT ![c] = r] /\ asked'[c] = r
    BY <1>1, <1>3
  <2>. HIDE DEF q
  <2>3. /\ r \in CallbackRecords /\ r.status = q /\ r.pc = asked[c].pc
        /\ r.ident = asked[c].ident /\ r.hinfoErr = asked[c].hinfoErr
    BY <1>1, <2>1 DEF CallbackRecords
  <2>. HIDE DEF r
  <2>. QED
    BY <2>1, <2>2, <2>3, Zenon DEF Turns, KeepsIdent
<1>4. CASE AskedTest(c)
  <2>1. AfterTest(asked[c].status.slot) \in {"root", "done"}
    BY DEF AfterTest
  <2>2. /\ asked[c].status.pc = "test"
        /\ asked' = [asked EXCEPT ![c].status.pc = AfterTest(asked[c].status.slot)]
        /\ UNCHANGED <<limit, stream>>
    BY <1>4 DEF AskedTest
  <2>3. LocalStatus' \in Status
    BY <1>2, <1>4 DEF AskedTest, TypeOK
  <2>. QED
    BY <1>3, <2>1, <2>2, <2>3, Zenon
<1>5. CASE AskedRoot(c)
  <2>2. /\ asked[c].status.pc = "root"
        /\ asked' = [asked EXCEPT ![c].status.pc = "slot"]
        /\ UNCHANGED <<limit, stream>>
    BY <1>5 DEF AskedRoot
  <2>3. LocalStatus' \in Status
    BY <1>2, <1>5 DEF AskedRoot, CopyRoot, TypeOK, Status
  <2>. QED
    BY <1>3, <2>2, <2>3
<1>6. CASE AskedSlot(c)
  <2>2. /\ asked[c].status.pc = "slot"
        /\ asked' = [asked EXCEPT ![c].status.pc = "done"]
        /\ UNCHANGED <<limit, stream>>
    BY <1>6 DEF AskedSlot
  <2>3. LocalStatus' \in Status
    BY <1>2, <1>6 DEF AskedSlot, CopySlot, TypeOK, Status
  <2>. QED
    BY <1>3, <2>2, <2>3
<1>. QED
  BY <1>4, <1>5, <1>6 DEF UpdateStep

\* The identification leaves an error.
LEMMA IdentShape ==
  ASSUME TypeOK, NEW c \in Conns, ReqHostInfo(c)
  PROVE  /\ Turns(c) /\ KeepsResults(c)
         /\ asked'[c].pc = "wait" /\ asked'[c].hinfoErr = "error"
         /\ UNCHANGED <<limit, stream, LocalStatus>>
<1>1. asked[c] \in CallbackRecords /\ asked \in [Conns -> CallbackRecords]
  BY DEF TypeOK
<1>. DEFINE r == [asked[c] EXCEPT !.ident = "done", !.hinfoErr = "error"]
<1>2. asked' = [asked EXCEPT ![c] = r] /\ asked'[c] = r
  BY <1>1, Zenon DEF ReqHostInfo
<1>3. /\ r \in CallbackRecords /\ r.pc = asked[c].pc /\ r.hinfoErr = "error"
      /\ r.status = asked[c].status /\ r.metadata = asked[c].metadata
  BY <1>1, Zenon DEF CallbackRecords
<1>. HIDE DEF r
<1>. QED
  BY <1>2, <1>3, Zenon DEF Turns, KeepsResults, ReqHostInfo

\* A callback reports when all its goroutines have ended.
LEMMA ReportShape ==
  ASSUME TypeOK, NEW c \in Conns, Report(c)
  PROVE  /\ Turns(c)
         /\ asked'[c].pc = IF asked[c].hinfoErr = "nil" THEN "panicked" ELSE "returned"
         /\ asked[c].ident = "done" /\ asked'[c].ident = "run"
         /\ asked[c].status.pc = "done" /\ asked'[c].status.pc = "request"
         /\ UNCHANGED <<limit, stream, LocalStatus>>
<1>1. asked[c] \in CallbackRecords /\ asked \in [Conns -> CallbackRecords]
  BY DEF TypeOK
<1>. DEFINE pc == IF asked[c].hinfoErr = "nil" THEN "panicked" ELSE "returned"
            r == [NewCallbackRecord EXCEPT !.pc = pc, !.alive = asked[c].alive,
                                           !.atts = Attributes(c)]
<1>2. asked' = [asked EXCEPT ![c] = r] /\ asked'[c] = r
  BY <1>1, Zenon DEF Report
<1>3. \A k \in Kinds : asked[c][k].slot \in Slots \cup {0}
  BY <1>1 DEF Kinds, CallbackRecords, RequestRecords
<1>4. Attributes(c) \in SUBSET [k : {"status", "metadata"}, slot : Slots \cup {0}]
  BY <1>3 DEF Attributes, Kinds
<1>5. NewRequestRecord \in RequestRecords /\ NewRequestRecord.pc = "request"
  BY DEF NewRequestRecord, RequestRecords, RequestPcs
<1>6. asked[c].alive \in BOOLEAN /\ pc \in {"panicked", "returned"}
  BY <1>1 DEF CallbackRecords
<1>. HIDE DEF pc
<1>7. /\ r \in CallbackRecords /\ r.pc = pc /\ r.ident = "run"
      /\ r.status = NewRequestRecord
  BY <1>4, <1>5, <1>6 DEF CallbackRecords, NewCallbackRecord
<1>. HIDE DEF r
<1>8. Turns(c) /\ asked'[c].pc = pc /\ asked'[c].ident = "run" /\ asked'[c].status.pc = "request"
  BY <1>2, <1>5, <1>7, Zenon DEF Turns
<1>. QED
  BY <1>8 DEF Report, pc

-----------------------------------------------------------------------------
(* Types, and the error of the identification.                             *)

StreamStep(s) ==
  \/ Open(s) \/ Start(s) \/ CheckLength(s) \/ EncodeLimit(s) \/ AssignLimit(s) \/ BoundReader(s)
  \/ RefuseRequest(s) \/ ServeBeacon(s) \/ ServedUpdate(s)

\* The steps, by the process that takes them.
LEMMA NextCases ==
  ASSUME Next
  PROVE  \/ \E s \in Streams : StreamStep(s)
         \/ \E c \in Conns : ConnectF(c) \/ Disconnect(c)
         \/ \E c \in Conns : ReqHostInfo(c) \/ Report(c)
         \/ \E c \in Conns : UpdateStep(c)
         \/ \E c \in Conns, k \in Kinds : RequestStep(c, k)
BY DEF Next, ServeStep, StreamStep, ServeBeacon, ServedUpdate, Kinds

\* A step of a stream touches no other stream and no callback.
LEMMA StreamMoves ==
  ASSUME TypeOK, NEW s \in Streams, StreamStep(s)
  PROVE  Moves(s) /\ UNCHANGED asked /\ limit' \in [Methods -> Nat]
<1>1. CASE ServedUpdate(s)
  BY <1>1, ServedUpdateShape, Typing
<1>2. CASE ServeBeacon(s)
  BY <1>2, ServeShape, Typing
<1>3. CASE AssignLimit(s)
  BY <1>3, AssignShape, Zenon DEF AssignLimit
<1>4. CASE Open(s)
  BY <1>4, OpenShape, Typing, Zenon DEF Open
<1>5. CASE Start(s)
  BY <1>5, StartShape, Typing, Zenon DEF Start
<1>6. CASE CheckLength(s)
  BY <1>6, CheckShape, Typing, Zenon DEF CheckLength
<1>9. CASE EncodeLimit(s)
  BY <1>9, EncodeShape, Typing, Zenon DEF EncodeLimit
<1>7. CASE BoundReader(s)
  BY <1>7, BoundShape, Typing, Zenon DEF BoundReader
<1>8. CASE RefuseRequest(s)
  BY <1>8, RefuseShape, Typing, Zenon DEF RefuseRequest
<1>. QED
  BY <1>1, <1>2, <1>3, <1>4, <1>5, <1>6, <1>7, <1>8, <1>9 DEF StreamStep

\* Every step keeps the types.
LEMMA StepTyped == TypeOK /\ [Next]_vars => TypeOK'
<1>. SUFFICES ASSUME TypeOK, [Next]_vars PROVE TypeOK'
  OBVIOUS
<1>0. LocalStatus \in Status
  BY DEF TypeOK
<1>1. ASSUME NEW s \in Streams, StreamStep(s) PROVE TypeOK'
  <2>1. LocalStatus' \in Status
    <3>1. CASE ServedUpdate(s)
      BY <3>1, ServedUpdateShape
    <3>2. CASE UNCHANGED LocalStatus
      BY <1>0, <3>2
    <3>. QED
      BY <1>1, <3>1, <3>2, ServeShape
         DEF StreamStep, Open, Start, CheckLength, EncodeLimit, AssignLimit, BoundReader, RefuseRequest
  <2>2. Moves(s) /\ UNCHANGED asked /\ limit' \in [Methods -> Nat]
    BY <1>1, StreamMoves
  <2>. QED
    BY <2>1, <2>2, OneStream DEF Moves
<1>2. ASSUME NEW c \in Conns, ConnectF(c) \/ Disconnect(c) PROVE TypeOK'
  BY <1>0, <1>2, ConnectShape, OneCallback DEF Turns
<1>3. ASSUME NEW c \in Conns, ReqHostInfo(c) \/ Report(c) PROVE TypeOK'
  BY <1>0, <1>3, IdentShape, ReportShape, OneCallback DEF Turns
<1>4. ASSUME NEW c \in Conns, UpdateStep(c) PROVE TypeOK'
  BY <1>4, AskedUpdateShape, OneCallback DEF Turns
<1>5. ASSUME NEW c \in Conns, NEW k \in Kinds, RequestStep(c, k) PROVE TypeOK'
  BY <1>0, <1>5, RequestShape, ResultShape, OneCallback DEF Turns
<1>6. CASE UNCHANGED vars
  BY <1>6 DEF vars, TypeOK
<1>. QED
  BY <1>1, <1>2, <1>3, <1>4, <1>5, <1>6, NextCases

\* Every step keeps the invariant of the identifications.
LEMMA StepIdent == TypeOK /\ IdentInv /\ [Next]_vars => IdentInv'
<1>. SUFFICES ASSUME TypeOK, IdentInv, [Next]_vars PROVE IdentInv'
  OBVIOUS
<1>. DEFINE Good(r) == r.pc # "panicked" /\ (r.ident = "done" => r.hinfoErr = "error")
<1>0. \A d \in Conns : Good(asked[d])
  BY DEF IdentInv
<1>1. ASSUME NEW c \in Conns, Turns(c), Good(asked'[c]) PROVE IdentInv'
  BY <1>0, <1>1 DEF Turns, TypeOK, IdentInv
<1>2. ASSUME UNCHANGED asked PROVE IdentInv'
  BY <1>2 DEF IdentInv
<1>3. ASSUME NEW c \in Conns, Turns(c), KeepsIdent(c),
             asked'[c].pc = "wait" \/ asked'[c].pc = asked[c].pc
      PROVE  IdentInv'
  BY <1>0, <1>1, <1>3 DEF KeepsIdent
<1>4. ASSUME NEW c \in Conns, ConnectF(c) \/ Disconnect(c) PROVE IdentInv'
  BY <1>3, <1>4, ConnectShape
<1>5. ASSUME NEW c \in Conns, ReqHostInfo(c) PROVE IdentInv'
  BY <1>1, <1>5, IdentShape
<1>6. ASSUME NEW c \in Conns, Report(c) PROVE IdentInv'
  BY <1>0, <1>1, <1>6, ReportShape
<1>7. ASSUME NEW c \in Conns, UpdateStep(c) PROVE IdentInv'
  BY <1>3, <1>7, AskedUpdateShape
<1>8. ASSUME NEW c \in Conns, NEW k \in Kinds, RequestStep(c, k) PROVE IdentInv'
  BY <1>3, <1>8, RequestShape, ResultShape
<1>9. ASSUME NEW s \in Streams, StreamStep(s) PROVE IdentInv'
  BY <1>2, <1>9, StreamMoves
<1>10. CASE UNCHANGED vars
  BY <1>2, <1>10 DEF vars
<1>. QED
  BY <1>4, <1>5, <1>6, <1>7, <1>8, <1>9, <1>10, NextCases

-----------------------------------------------------------------------------
(* The limits.  A stream goes forward, so who is to blame stays to blame.  *)

Forward(s) ==
  /\ stream[s].pc \notin {"none", "head", "check", "encode"} =>
       stream'[s].pc \notin {"none", "head", "check", "encode"}
  /\ Past(s) => stream'[s].pc \notin {"none", "head", "check", "encode", "assign"}
  /\ stream[s].invalid => stream'[s].invalid
  /\ \/ Keeps(s)
     \/ stream[s].pc = "none" /\ ~stream[s].invalid

\* A limit that was assigned or spoilt stays so, and so does the blame for it.
LEMMA Stable ==
  ASSUME TypeOK, NEW s \in Streams, Moves(s), Forward(s)
  PROVE  /\ \A m \in Methods : (Assigned(m) => Assigned(m)') /\ (Spoilt(m) => Spoilt(m)')
         /\ \A t \in Streams : t # s \/ Keeps(s) =>
              (Blame(t) => Blame(t)') /\ (Fits(t)' = Fits(t))
<1>1. \A t \in Streams : t # s => stream'[t] = stream[t]
  BY DEF Moves, TypeOK
<1>2. \A t \in Streams : Past(t) => Past(t)' /\ stream'[t].m = stream[t].m
  BY <1>1 DEF Forward, Keeps, Past
<1>3. \A t \in Streams : stream[t].invalid => stream'[t].invalid /\ stream'[t].m = stream[t].m
  BY <1>1 DEF Forward, Keeps
<1>4. \A t \in Streams : stream[t].pc \notin {"none", "head", "check", "encode"} =>
        stream'[t].pc \notin {"none", "head", "check", "encode"} /\ stream'[t].m = stream[t].m
  BY <1>1 DEF Forward, Keeps
<1>5. \A m \in Methods : (Assigned(m) => Assigned(m)') /\ (Spoilt(m) => Spoilt(m)')
  BY <1>2, <1>3 DEF Assigned, Spoilt
<1>6. ASSUME NEW t \in Streams, t # s \/ Keeps(s)
      PROVE  (Blame(t) => Blame(t)') /\ (Fits(t)' = Fits(t))
  <2>1. stream'[t].m = stream[t].m /\ stream'[t].len = stream[t].len
          /\ stream'[t].body = stream[t].body
    BY <1>1, <1>6 DEF Keeps
  <2>2. Fits(t)' = Fits(t)
    BY <2>1 DEF Fits
  <2>3. Blame(t) => Blame(t)'
    BY <1>3, <1>4, <2>1 DEF Blame
  <2>. QED
    BY <2>2, <2>3
<1>. QED
  BY <1>5, <1>6

\* The other streams of a step keep their form.
LEMMA OthersKeep ==
  ASSUME TypeOK, LimitInv, NEW s \in Streams, Moves(s), Forward(s),
         NEW t \in Streams, t # s
  PROVE  StreamForm(t)'
<1>1. stream'[t] = stream[t]
  BY DEF Moves, TypeOK
<1>2. /\ (Blame(t) => Blame(t)') /\ (Fits(t)' = Fits(t))
      /\ \A m \in Methods : Spoilt(m) => Spoilt(m)'
  BY Stable
<1>3. Refusable(t)' = Refusable(t)
  BY <1>1 DEF Refusable
<1>4. StreamForm(t) /\ stream[t].m \in Methods
  BY Typing DEF LimitInv, StreamOK, StreamRecords
<1>. QED
  BY <1>1, <1>2, <1>3, <1>4 DEF StreamForm

\* A step that does not assign the limit has to keep the form of its own stream.
LEMMA LimitKept ==
  ASSUME TypeOK, LimitInv, NEW s \in Streams, Moves(s), Forward(s),
         limit' = limit, StreamForm(s)'
  PROVE  LimitInv'
<1>1. \A m \in Methods : LimitForm(m)'
  BY Stable DEF LimitInv, LimitForm
<1>2. \A t \in Streams : StreamForm(t)'
  BY OthersKeep
<1>. QED
  BY <1>1, <1>2 DEF LimitInv
\* The streams that assigned a limit, found a request invalid, or both, are others
\* than one that has not come so far.
LEMMA OthersBlamed ==
  ASSUME TypeOK, NEW s \in Streams, stream[s].m # "metadata"
  PROVE  /\ ~Past(s) /\ Spoilt(stream[s].m) => Blame(s)
         /\ ~stream[s].invalid /\ Spoilt(stream[s].m) => Blame(s)
BY DEF Blame, Spoilt, Past

\* The invariant of the limits holds at first.
LEMMA InitLimits == Init => LimitInv
<1>. SUFFICES ASSUME Init PROVE LimitInv
  OBVIOUS
<1>1. /\ NewStreamRecord.pc = "none" /\ NewStreamRecord.reqLen = 0
      /\ NewStreamRecord.invalid = FALSE /\ NewStreamRecord.resp = "none"
  BY DEF NewStreamRecord, NewStream
<1>2. \A s \in Streams : StreamForm(s)
  BY <1>1 DEF Init, StreamForm
<1>3. limit["metadata"] = 0 /\ \A m \in Methods : LimitForm(m)
  BY Lengths DEF Init, LimitForm, Methods
<1>. QED
  BY <1>2, <1>3 DEF LimitInv

\* Start keeps the invariant of the limits ...
LEMMA StartLimits ==
  ASSUME TypeOK, LimitInv, NEW s \in Streams, Start(s)
  PROVE  LimitInv'
<1>1. /\ Moves(s) /\ Keeps(s)
      /\ stream[s].pc = "head"
      /\ stream'[s].pc = IF limit[stream[s].m] = 0 THEN "listen" ELSE "check"
      /\ stream'[s].reqLen = stream[s].reqLen /\ stream'[s].invalid = stream[s].invalid
      /\ stream'[s].resp = stream[s].resp
  BY StartShape
<1>2. StreamForm(s) /\ stream[s].m \in Methods
  BY Typing DEF LimitInv, StreamOK, StreamRecords
<1>3. stream[s].reqLen = 0 /\ ~stream[s].invalid /\ stream[s].resp # "error"
  BY <1>1, <1>2 DEF StreamForm
<1>4. Forward(s)
  BY <1>1 DEF Forward, Past
<1>5. stream[s].m = "metadata" => stream'[s].pc = "listen" /\ ~Refusable(s)'
  BY <1>1, <1>3 DEF LimitInv, Refusable, Keeps, Decode
<1>6. stream[s].m # "metadata" /\ limit[stream[s].m] = 0 => Blame(s)'
  <2>. SUFFICES ASSUME stream[s].m # "metadata", limit[stream[s].m] = 0 PROVE Blame(s)'
    OBVIOUS
  <2>1. Spoilt(stream[s].m)
    BY <1>2, Lengths DEF LimitInv, LimitForm
  <2>2. Blame(s)
    BY <1>1, <2>1, OthersBlamed DEF Past
  <2>. QED
    BY <1>1, <1>4, <2>2, Stable
<1>7. StreamForm(s)'
  BY <1>1, <1>3, <1>5, <1>6 DEF StreamForm, Keeps
<1>. QED
  BY <1>1, <1>4, <1>7, LimitKept DEF Start

\* A request that was found invalid although it fits met a limit that another stream
\* assigned.
LEMMA InvalidBlamed ==
  ASSUME TypeOK, LimitInv, NEW s \in Streams, Moves(s), Keeps(s), Forward(s),
         ~Past(s), stream[s].m # "metadata", stream'[s].invalid,
         Fits(s) => Spoilt(stream[s].m) \/ Assigned(stream[s].m)
  PROVE  Fits(s)' => Blame(s)'
<1>1. Fits(s) => \E t \in Streams \ {s} : stream[t].m = stream[s].m /\ Past(t)
  BY DEF Spoilt, Assigned
<1>2. Fits(s)' = Fits(s)
  BY Stable
<1>3. \A t \in Streams \ {s} : stream'[t] = stream[t]
  BY DEF Moves, TypeOK
<1>. QED
  BY <1>1, <1>2, <1>3 DEF Blame, Past, Keeps

\* ... so does the check, which knows the stream that changed the limit ...
LEMMA CheckLimits ==
  ASSUME TypeOK, LimitInv, NEW s \in Streams, CheckLength(s)
  PROVE  LimitInv'
<1>. DEFINE m == stream[s].m
            len == stream[s].len
            bad == len = Garbled \/ len < MinByteLen(m) \/ len > limit[m]
<1>1. /\ Moves(s) /\ Keeps(s)
      /\ stream[s].pc = "check" /\ stream'[s].pc = IF bad THEN "assign" ELSE "encode"
      /\ stream'[s].invalid = bad
      /\ stream'[s].reqLen = IF len = Garbled THEN 0 ELSE len
      /\ stream'[s].next = stream[s].next
      /\ stream'[s].resp = stream[s].resp
  BY CheckShape, Zenon
<1>2. StreamForm(s) /\ m \in Methods /\ len \in Nat \cup {Garbled} /\ stream[s].invalid \in BOOLEAN
  BY Typing DEF LimitInv, StreamOK, StreamRecords
<1>3. m # "metadata" /\ stream[s].resp # "error" /\ ~stream[s].invalid /\ ~Past(s)
  BY <1>1, <1>2 DEF StreamForm, Past
<1>5. LimitForm(m) /\ limit[m] \in Nat
  BY <1>2, Typing DEF LimitInv
<1>6. MinByteLen(m) \in Nat /\ MaxByteLen(m) = MinByteLen(m)
  BY <1>2, Lengths
<1>7. CASE bad
  <2>1. stream'[s].invalid = TRUE /\ stream'[s].pc = "assign"
    BY <1>1, <1>7, Zenon
  <2>2. Forward(s)
    BY <1>1, <1>3, <2>1 DEF Forward
  <2>3. Fits(s) => Spoilt(m) \/ Assigned(m)
    <3>. SUFFICES ASSUME Fits(s), limit[m] = MaxByteLen(m) PROVE FALSE
      BY <1>5 DEF LimitForm
    <3>1. len = MaxByteLen(m)
      BY <1>3 DEF Fits
    <3>. QED
      BY <1>6, <1>7, <3>1, RpcAssumption
  <2>4. Fits(s)' => Blame(s)'
    BY <1>1, <1>3, <2>1, <2>2, <2>3, InvalidBlamed
  <2>5. StreamForm(s)'
    BY <1>1, <1>3, <2>1, <2>4 DEF StreamForm, Keeps
  <2>. QED
    BY <1>1, <2>2, <2>5, LimitKept DEF CheckLength
<1>8. CASE ~bad
  <2>1. stream'[s].invalid = FALSE /\ stream'[s].pc = "encode" /\ stream'[s].reqLen = len
    BY <1>1, <1>8, Zenon
  <2>2. len >= MinByteLen(m)
    BY <1>2, <1>6, <1>8
  <2>3. Forward(s)
    BY <1>1, <1>3 DEF Forward
  <2>4. StreamForm(s)'
    BY <1>1, <1>3, <2>1, <2>2 DEF StreamForm, Keeps, Valid
  <2>. QED
    BY <1>1, <2>3, <2>4, LimitKept DEF CheckLength
<1>. QED
  BY <1>7, <1>8

\* ... so does the adjustment of the limit, which may be another by now ...
LEMMA EncodeLimits ==
  ASSUME TypeOK, LimitInv, NEW s \in Streams, EncodeLimit(s)
  PROVE  LimitInv'
<1>. DEFINE e == MaxEncodedLen(limit[stream[s].m])
<1>0. PICK m : m = stream[s].m
  OBVIOUS
<1>1. /\ Moves(s) /\ Keeps(s)
      /\ stream[s].pc = "encode" /\ stream'[s].pc = "assign"
      /\ stream'[s].invalid = (e = -1)
      /\ stream'[s].next = IF e = -1 THEN 0 ELSE e
      /\ stream'[s].reqLen = stream[s].reqLen
      /\ stream'[s].resp = stream[s].resp
  BY EncodeShape, Zenon
<1>2. StreamForm(s) /\ m \in Methods
  BY <1>0, Typing DEF LimitInv, StreamOK, StreamRecords
<1>3. m # "metadata" /\ stream[s].resp # "error" /\ Valid(stream[s]) /\ ~Past(s)
  BY <1>0, <1>1, <1>2 DEF StreamForm, Past
<1>4. LimitForm(m) /\ limit[m] \in Nat
  BY <1>2, Typing DEF LimitInv
<1>5. MaxByteLen(m) \in Nat
  BY <1>2, Lengths
<1>6. Forward(s)
  BY <1>1, <1>3 DEF Forward, Valid
<1>7. CASE e = -1
  <2>1. stream'[s].invalid = TRUE /\ stream'[s].next = 0
    BY <1>1, <1>7, Zenon
  <2>2. limit[m] # MaxByteLen(m)
    BY <1>0, <1>2, <1>3, <1>7, CodecEncodes
  <2>3. Spoilt(m) \/ Assigned(m)
    BY <1>4, <2>2 DEF LimitForm
  <2>4. Fits(s)' => Blame(s)'
    BY <1>0, <1>1, <1>3, <1>6, <2>1, <2>3, InvalidBlamed
  <2>5. StreamForm(s)'
    BY <1>0, <1>1, <1>3, <2>1, <2>4 DEF StreamForm, Keeps
  <2>. QED
    BY <1>1, <1>6, <2>5, LimitKept DEF EncodeLimit
<1>8. CASE e # -1
  <2>1. stream'[s].invalid = FALSE /\ stream'[s].next = e
    BY <1>1, <1>8, Zenon
  <2>2. e \in Nat /\ e >= limit[m] + 32
    BY <1>0, <1>4, <1>8, Encoded
  <2>3. Spoilt(m) \/ e >= MaxByteLen(m) + 32
    BY <1>4, <1>5, <2>2 DEF LimitForm
  <2>4. Spoilt(m) => Spoilt(m)'
    BY <1>1, <1>2, <1>6, Stable
  <2>5. Valid(stream'[s])
    BY <1>1, <1>3, <2>1 DEF Valid, Keeps
  <2>6. stream'[s].m = m /\ (Spoilt(m)' \/ stream'[s].next >= MaxByteLen(m) + 32)
    BY <1>0, <1>1, <2>1, <2>3, <2>4 DEF Keeps
  <2>7. StreamForm(s)'
    BY <1>1, <1>3, <2>1, <2>5, <2>6 DEF StreamForm, Keeps
  <2>. QED
    BY <1>1, <1>6, <2>7, LimitKept DEF EncodeLimit
<1>. QED
  BY <1>7, <1>8

\* ... so does the assignment, which spoils the limit for the streams after it ...
LEMMA AssignLimits ==
  ASSUME TypeOK, LimitInv, NEW s \in Streams, AssignLimit(s)
  PROVE  LimitInv'
<1>. DEFINE next == IF stream[s].invalid THEN 0 ELSE stream[s].next
<1>0. PICK m : m = stream[s].m
  OBVIOUS
<1>1. /\ Moves(s) /\ Keeps(s)
      /\ stream[s].pc = "assign"
      /\ stream'[s].pc = IF stream[s].invalid THEN "listen" ELSE "bound"
      /\ stream'[s].reqLen = stream[s].reqLen /\ stream'[s].invalid = stream[s].invalid
      /\ stream'[s].resp = stream[s].resp
      /\ limit' = [limit EXCEPT ![m] = next]
  BY <1>0, AssignShape
<1>2. StreamForm(s) /\ m \in Methods /\ next \in Nat
  BY <1>0, Typing DEF LimitInv, StreamOK, StreamRecords
<1>3. m # "metadata" /\ stream[s].resp # "error"
  BY <1>0, <1>1, <1>2 DEF StreamForm
<1>4. Forward(s)
  BY <1>1 DEF Forward, Past
<1>6. /\ limit'[m] = next
      /\ \A k \in Methods \ {m} : limit'[k] = limit[k]
  BY <1>1, <1>2, Typing
<1>7. /\ stream[s].invalid => (Fits(s) => Blame(s))
      /\ ~stream[s].invalid => Valid(stream[s]) /\ (Spoilt(m) \/ next >= MaxByteLen(m) + 32)
  BY <1>0, <1>1, <1>2 DEF StreamForm
<1>8. Spoilt(m) => Spoilt(m)'
  BY <1>1, <1>2, <1>4, Stable
<1>9. Past(s)' /\ stream'[s].m = m
  BY <1>0, <1>1 DEF Past, Keeps
<1>10. LimitForm(m)'
  <2>1. CASE stream[s].invalid
    BY <1>1, <1>6, <1>7, <1>9, <2>1, Zenon DEF LimitForm, Spoilt
  <2>2. CASE ~stream[s].invalid
    BY <1>6, <1>7, <1>8, <1>9, <2>2 DEF LimitForm, Assigned
  <2>. QED
    BY <2>1, <2>2
<1>11. \A k \in Methods : LimitForm(k)'
  <2>. SUFFICES ASSUME NEW k \in Methods, k # m PROVE LimitForm(k)'
    BY <1>10
  <2>1. LimitForm(k) /\ limit'[k] = limit[k]
    BY <1>6 DEF LimitInv
  <2>2. (Assigned(k) => Assigned(k)') /\ (Spoilt(k) => Spoilt(k)')
    BY <1>1, <1>4, Stable
  <2>. QED
    BY <2>1, <2>2 DEF LimitForm
<1>12. StreamForm(s)'
  <2>1. (Blame(s) => Blame(s)') /\ (Fits(s)' = Fits(s))
    BY <1>1, <1>4, Stable
  <2>2. CASE stream[s].invalid
    BY <1>0, <1>1, <1>3, <1>7, <2>1, <2>2 DEF StreamForm, Keeps
  <2>3. CASE ~stream[s].invalid
    BY <1>0, <1>1, <1>3, <1>7, <2>3, Zenon DEF StreamForm, Keeps, Valid
  <2>. QED
    BY <2>2, <2>3
<1>14. \A t \in Streams : StreamForm(t)'
  BY <1>1, <1>4, <1>12, OthersKeep
<1>15. limit'["metadata"] = 0
  BY <1>3, <1>6 DEF LimitInv, Methods
<1>. QED
  BY <1>11, <1>14, <1>15 DEF LimitInv

\* ... and the bound of the reader.
LEMMA BoundLimits ==
  ASSUME TypeOK, LimitInv, NEW s \in Streams, BoundReader(s)
  PROVE  LimitInv'
<1>. DEFINE m == stream[s].m
            len == stream[s].len
            max == limit[m]
            e == MaxEncodedLen(max)
            N == IF e = -1 THEN max ELSE e
<1>1. /\ Moves(s) /\ Keeps(s)
      /\ stream[s].pc = "bound" /\ stream'[s].pc = "listen"
      /\ stream'[s].N = N
      /\ stream'[s].reqLen = stream[s].reqLen /\ stream'[s].invalid = stream[s].invalid
      /\ stream'[s].resp = stream[s].resp
  BY BoundShape
<1>2. StreamForm(s) /\ m \in Methods
  BY Typing DEF LimitInv, StreamOK, StreamRecords
<1>3. /\ m # "metadata" /\ stream[s].resp # "error" /\ ~stream[s].invalid
      /\ stream[s].reqLen = len
  BY <1>1, <1>2 DEF StreamForm, Valid
<1>4. Forward(s)
  BY <1>1 DEF Forward, Past
<1>5. MaxByteLen(m) \in Nat /\ MaxByteLen(m) >= 1 /\ MinByteLen(m) = MaxByteLen(m)
  BY <1>2, <1>3, Lengths
<1>6. LimitForm(m) /\ max \in Nat
  BY <1>2, Typing DEF LimitInv
<1>7. CASE Spoilt(m)
  <2>1. Blame(s)
    BY <1>3, <1>7, OthersBlamed
  <2>2. Blame(s)'
    BY <1>1, <1>4, <2>1, Stable
  <2>3. StreamForm(s)'
    BY <1>1, <1>3, <2>2 DEF StreamForm, Keeps
  <2>. QED
    BY <1>1, <1>4, <2>3, LimitKept DEF BoundReader
<1>8. CASE ~Spoilt(m)
  <2>1. max = MaxByteLen(m) \/ max >= MaxByteLen(m) + 32
    BY <1>6, <1>8 DEF LimitForm
  <2>2. N \in Nat /\ N >= max /\ (e # -1 => N >= max + 32)
    BY <1>6, Encoded
  <2>9. max = MaxByteLen(m) => e # -1
    BY <1>2, <1>3, CodecEncodes
  <2>. HIDE DEF N
  <2>3. N >= MaxByteLen(m) + 32
    BY <1>5, <1>6, <2>1, <2>2, <2>9
  <2>4. Fits(s) => BufRead(N, Framed(len)) = Framed(len) /\ len = MaxByteLen(m)
    BY <1>3, <1>5, <2>2, <2>3 DEF BufRead, Framed, Fits
  <2>5. Fits(s) => Decode(m, len, N, stream[s].body)
    BY <1>3, <1>5, <2>4 DEF Decode, Fits
  <2>6. Fits(s)' = Fits(s)
    BY <1>1, <1>4, Stable
  <2>7. Fits(s)' => ~Refusable(s)'
    BY <1>1, <1>3, <2>5, <2>6 DEF Refusable, Keeps
  <2>8. StreamForm(s)'
    BY <1>1, <1>3, <2>7 DEF StreamForm, Keeps
  <2>. QED
    BY <1>1, <1>4, <2>8, LimitKept DEF BoundReader
<1>. QED
  BY <1>7, <1>8

\* Every step keeps the invariant of the limits.
LEMMA StepLimits == TypeOK /\ LimitInv /\ [Next]_vars => LimitInv'
<1>. SUFFICES ASSUME TypeOK, LimitInv, [Next]_vars PROVE LimitInv'
  OBVIOUS
<1>0. \A s \in Streams : StreamForm(s)
  BY DEF LimitInv
<1>1. ASSUME NEW s \in Streams, Open(s) PROVE LimitInv'
  <2>1. /\ Moves(s) /\ stream[s].pc = "none"
        /\ stream'[s].pc = "head" /\ stream'[s].reqLen = 0 /\ ~stream'[s].invalid
        /\ stream'[s].resp = "none"
    BY <1>1, OpenShape
  <2>2. ~stream[s].invalid
    BY <1>0, <2>1 DEF StreamForm
  <2>3. Forward(s)
    BY <2>1, <2>2 DEF Forward, Past
  <2>4. StreamForm(s)'
    BY <2>1 DEF StreamForm
  <2>. QED
    BY <1>1, <2>1, <2>3, <2>4, LimitKept DEF Open
<1>2. ASSUME NEW s \in Streams, RefuseRequest(s) PROVE LimitInv'
  <2>1. /\ Moves(s) /\ Keeps(s)
        /\ stream[s].pc = "listen" /\ Refusable(s)
        /\ stream'[s].pc = "done" /\ stream'[s].invalid = stream[s].invalid
    BY <1>2, RefuseShape
  <2>2. Forward(s)
    BY <2>1 DEF Forward, Past
  <2>3. Fits(s)' => Blame(s)'
    BY <1>0, <2>1, <2>2, Stable DEF StreamForm
  <2>4. StreamForm(s)'
    BY <2>1, <2>3 DEF StreamForm
  <2>. QED
    BY <1>2, <2>1, <2>2, <2>4, LimitKept DEF RefuseRequest
<1>3. ASSUME NEW s \in Streams, ServeBeacon(s) \/ ServedUpdate(s) PROVE LimitInv'
  <2>1. /\ Moves(s) /\ Keeps(s) /\ limit' = limit
        /\ stream[s].pc \in {"listen", "test", "root", "slot"}
        /\ stream'[s].pc \in {"test", "root", "slot", "done"}
        /\ stream'[s].invalid = stream[s].invalid
    BY <1>3, ServeShape, ServedUpdateShape
  <2>2. stream'[s].resp # "error"
    <3>1. stream[s].resp # "error"
      BY <1>0, <2>1 DEF StreamForm
    <3>. QED
      BY <1>3, <3>1, ServeShape, ServedUpdateShape
  <2>3. Forward(s)
    BY <2>1 DEF Forward, Past
  <2>4. StreamForm(s)'
    BY <2>1, <2>2 DEF StreamForm
  <2>. QED
    BY <2>1, <2>3, <2>4, LimitKept
<1>4. ASSUME UNCHANGED <<limit, stream>> PROVE LimitInv'
  <2>1. \A m \in Methods : (Spoilt(m)' <=> Spoilt(m)) /\ (Assigned(m)' <=> Assigned(m))
    BY <1>4 DEF Spoilt, Assigned, Past
  <2>2. \A m \in Methods : LimitForm(m)'
    BY <1>4, <2>1 DEF LimitInv, LimitForm
  <2>3. \A s \in Streams :
          (Blame(s)' <=> Blame(s)) /\ (Fits(s)' <=> Fits(s)) /\ (Refusable(s)' <=> Refusable(s))
    BY <1>4 DEF Blame, Fits, Refusable
  <2>4. \A s \in Streams : StreamForm(s)'
    BY <1>0, <1>4, <2>1, <2>3, Typing DEF StreamForm, StreamOK, StreamRecords
  <2>. QED
    BY <1>4, <2>2, <2>4 DEF LimitInv
<1>5. ASSUME NEW c \in Conns, ConnectF(c) \/ Disconnect(c) \/ ReqHostInfo(c) \/ Report(c) \/ UpdateStep(c)
      PROVE  LimitInv'
  BY <1>4, <1>5, ConnectShape, IdentShape, ReportShape, AskedUpdateShape
<1>6. ASSUME NEW c \in Conns, NEW k \in Kinds, RequestStep(c, k) PROVE LimitInv'
  BY <1>4, <1>6, RequestShape
<1>7. ASSUME NEW s \in Streams, StreamStep(s) PROVE LimitInv'
  BY <1>1, <1>2, <1>3, <1>7, StartLimits, CheckLimits, EncodeLimits, AssignLimits, BoundLimits
     DEF StreamStep
<1>8. CASE UNCHANGED vars
  BY <1>4, <1>8 DEF vars
<1>. QED
  BY <1>5, <1>6, <1>7, <1>8, NextCases
-----------------------------------------------------------------------------
(* The local status.                                                       *)

\* A status that passes the test is newer than the local one, and so not older than
\* slot n either: an update for a served stream keeps AtLeast(n) ...
LEMMA ServedAtLeast ==
  ASSUME TypeOK, NEW n \in Slots, AtLeast(n), NEW s \in Streams, ServedUpdate(s)
  PROVE  AtLeast(n)'
<1>1. /\ Moves(s) /\ stream'[s].body = stream[s].body /\ asked' = asked
      /\ stream[s].body \in Slots
  BY ServedUpdateShape, Typing DEF Keeps, StreamOK
<1>2. /\ n \in Nat /\ stream[s].body \in Nat /\ LocalStatus.slot \in Nat
      /\ LocalStatus \in Status
  BY <1>1, RpcAssumption DEF TypeOK, Status
<1>3. \A t \in Streams \ {s} : stream'[t] = stream[t]
  BY <1>1 DEF Moves, TypeOK
<1>4. LocalStatus'.slot >= n /\ (Active(stream'[s].pc) => stream[s].body >= n)
  <2>1. CASE ServedTest(s)
    <3>1. LocalStatus' = LocalStatus /\ stream'[s].pc = AfterTest(stream[s].body)
      BY <2>1, Typing DEF ServedTest, StreamOK, StreamRecords
    <3>. QED
      BY <1>2, <3>1 DEF AtLeast, AfterTest, Active
  <2>2. CASE ServedRoot(s)
    BY <1>2, <2>2 DEF ServedRoot, CopyRoot, AtLeast, Active, Status
  <2>3. CASE ServedSlot(s)
    BY <1>2, <2>3 DEF ServedSlot, CopySlot, AtLeast, Active, Status
  <2>. QED
    BY <2>1, <2>2, <2>3 DEF ServedUpdate
<1>. QED
  BY <1>1, <1>3, <1>4 DEF AtLeast

\* ... and so does an update for a callback.
LEMMA AskedAtLeast ==
  ASSUME TypeOK, NEW n \in Slots, AtLeast(n), NEW c \in Conns, UpdateStep(c)
  PROVE  AtLeast(n)'
<1>1. Turns(c) /\ asked'[c].status.slot = asked[c].status.slot /\ stream' = stream
  BY AskedUpdateShape
<1>2. asked[c].status.slot \in Slots \cup {0}
  BY Typing DEF CallbackRecords, RequestRecords
<1>0. Slots \subseteq Nat /\ 0 \in Nat
  BY RpcAssumption
<1>3. /\ n \in Nat /\ asked[c].status.slot \in Nat /\ LocalStatus.slot \in Nat
      /\ LocalStatus \in Status
  BY <1>0, <1>2 DEF TypeOK, Status
<1>4. \A d \in Conns \ {c} : asked'[d] = asked[d]
  BY <1>1 DEF Turns, TypeOK
<1>5. LocalStatus'.slot >= n /\ (Active(asked'[c].status.pc) => asked[c].status.slot >= n)
  <2>1. CASE AskedTest(c)
    <3>1. /\ asked \in [Conns -> CallbackRecords] /\ asked[c] \in CallbackRecords
          /\ asked[c].status \in RequestRecords
      BY DEF TypeOK, CallbackRecords
    <3>2. LocalStatus' = LocalStatus /\ asked'[c].status.pc = AfterTest(asked[c].status.slot)
      BY <2>1, <3>1 DEF AskedTest, CallbackRecords, RequestRecords
    <3>. QED
      BY <1>3, <3>2 DEF AtLeast, AfterTest, Active
  <2>2. CASE AskedRoot(c)
    BY <1>3, <2>2 DEF AskedRoot, CopyRoot, AtLeast, Active, Status
  <2>3. CASE AskedSlot(c)
    BY <1>3, <2>3 DEF AskedSlot, CopySlot, AtLeast, Active, Status
  <2>. QED
    BY <2>1, <2>2, <2>3 DEF UpdateStep
<1>. QED
  BY <1>1, <1>4, <1>5 DEF AtLeast

\* The other steps let no copy begin.
LEMMA StepAtLeast ==
  ASSUME NEW n \in Slots
  PROVE  TypeOK /\ AtLeast(n) /\ [Next]_vars => AtLeast(n)'
<1>. SUFFICES ASSUME TypeOK, AtLeast(n), [Next]_vars PROVE AtLeast(n)'
  OBVIOUS
<1>1. ASSUME NEW s \in Streams, Moves(s), ~Active(stream'[s].pc), UNCHANGED <<asked, LocalStatus>>
      PROVE  AtLeast(n)'
  <2>1. \A t \in Streams \ {s} : stream'[t] = stream[t]
    BY <1>1 DEF Moves, TypeOK
  <2>. QED
    BY <1>1, <2>1 DEF AtLeast
<1>2. ASSUME NEW c \in Conns, Turns(c), UNCHANGED <<stream, LocalStatus>>,
             asked'[c].status = asked[c].status \/ ~Active(asked'[c].status.pc)
      PROVE  AtLeast(n)'
  <2>1. \A d \in Conns \ {c} : asked'[d] = asked[d]
    BY <1>2 DEF Turns, TypeOK
  <2>. QED
    BY <1>2, <2>1 DEF AtLeast
<1>3. ASSUME NEW s \in Streams, StreamStep(s) PROVE AtLeast(n)'
  <2>1. CASE ServedUpdate(s)
    BY <2>1, ServedAtLeast
  <2>2. CASE ~ServedUpdate(s)
    <3>1. UNCHANGED LocalStatus /\ UNCHANGED asked /\ Moves(s)
      BY <1>3, <2>2, ServeShape, StreamMoves
         DEF StreamStep, Open, Start, CheckLength, EncodeLimit, AssignLimit, BoundReader,
             RefuseRequest
    <3>2. ~Active(stream'[s].pc)
      <4>1. CASE CheckLength(s)
        BY <4>1, CheckShape, Zenon DEF Active
      <4>2. CASE EncodeLimit(s)
        BY <4>2, EncodeShape, Zenon DEF Active
      <4>3. CASE BoundReader(s)
        BY <4>3, BoundShape, Zenon DEF Active
      <4>. QED
        BY <1>3, <2>2, <4>1, <4>2, <4>3, OpenShape, StartShape, AssignShape, RefuseShape,
           ServeShape DEF StreamStep, Active
    <3>. QED
      BY <1>1, <3>1, <3>2
  <2>. QED
    BY <2>1, <2>2
<1>4. ASSUME NEW c \in Conns, ConnectF(c) \/ Disconnect(c) \/ ReqHostInfo(c) PROVE AtLeast(n)'
  BY <1>2, <1>4, ConnectShape, IdentShape DEF KeepsResults
<1>5. ASSUME NEW c \in Conns, Report(c) PROVE AtLeast(n)'
  BY <1>2, <1>5, ReportShape DEF Active
<1>6. ASSUME NEW c \in Conns, NEW k \in Kinds, RequestStep(c, k) PROVE AtLeast(n)'
  <2>1. PICK q \in RequestRecords :
          q.pc \in {"read", "test", "done"} /\ asked' = [asked EXCEPT ![c][k] = q]
    BY <1>6, RequestShape
  <2>2. UNCHANGED <<stream, LocalStatus>>
    BY <1>6, RequestShape
  <2>3. Turns(c) /\ asked'[c].status = IF k = "status" THEN q ELSE asked[c].status
    BY <2>1, ResultShape, Zenon
  <2>. QED
    BY <1>2, <2>1, <2>2, <2>3 DEF Active
<1>7. CASE UNCHANGED vars
  BY <1>7 DEF vars, AtLeast
<1>. QED
  BY <1>3, <1>4, <1>5, <1>6, <1>7, AskedAtLeast, NextCases

-----------------------------------------------------------------------------
(* Theorems.                                                               *)

\* The variables keep their types, and a status that UpdateStatus takes over from a
\* request could be read (beacon_status.go, ServeBeaconStatus).
THEOREM Typed == Spec => []TypeOK
<1>. QED
  BY InitTyped, StepTyped, PTL DEF Spec

\* Who is to blame: a stream is told that its fitting request is bad only after
\* another one of the method has read the limit they share in order to assign it
\* (handle_request.go:61-70), and after a request was found invalid; metadata are
\* always served.
THEOREM FittingBlamed == Spec => []FittingRefusedOnlyAfterSpoiling
<1>1. LimitInv => FittingRefusedOnlyAfterSpoiling
  BY DEF LimitInv, StreamForm, Blame, FittingRefusedOnlyAfterSpoiling
<1>. QED
  BY <1>1, InitLimits, StepLimits, Typed, PTL DEF Spec

\* UpdateStatus (enode.go:76) has no lock, but however many of its calls overlap, for
\* any number of streams and connections, they never take the slot of the local
\* status below what it was when none was in flight.
THEOREM StatusKept == Spec => StatusNeverFallsBack
<1>1. ASSUME NEW n \in Slots
      PROVE  Spec => [](~Copying /\ LocalStatus.slot >= n => [](LocalStatus.slot >= n))
  <2>1. ~Copying /\ LocalStatus.slot >= n => AtLeast(n)
    BY DEF Copying, AtLeast, Active
  <2>2. AtLeast(n) => LocalStatus.slot >= n
    BY DEF AtLeast
  <2>3. TypeOK /\ AtLeast(n) /\ [Next]_vars => AtLeast(n)'
    BY StepAtLeast
  <2>. QED
    BY <2>1, <2>2, <2>3, Typed, PTL DEF Spec
<1>. QED
  BY <1>1 DEF StatusNeverFallsBack

\* The identification has left no error at first, and is not done.
LEMMA InitIdent == Init => IdentInv
<1>1. NewCallbackRecord.pc = "none" /\ NewCallbackRecord.ident = "run"
  BY DEF NewCallbackRecord
<1>. QED
  BY <1>1 DEF Init, IdentInv

\* The callback finds an error to dereference (notify.go:142) in every order of its
\* three goroutines: it waits for ReqHostInfo, which never leaves a nil one.
THEOREM CallbackNeverPanics == Spec => []CallbackSurvives
<1>1. IdentInv => CallbackSurvives
  BY DEF IdentInv, CallbackSurvives
<1>. QED
  BY <1>1, InitIdent, StepIdent, Typed, PTL DEF Spec

=============================================================================
