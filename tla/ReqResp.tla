------------------------------ MODULE ReqResp ------------------------------
(***************************************************************************)
(* The requests between the crawler and a remote peer:                     *)
(*   src/pkg/networks/ethereum/rpc/reqresp/   (streams, chunks, codecs)    *)
(*   src/pkg/networks/ethereum/rpc/methods/   (ping, status, metadata)     *)
(*   src/pkg/networks/ethereum/beacon_*.go    (what is served and asked)   *)
(*   src/pkg/networks/ethereum/enode.go       (the local status)           *)
(*   src/pkg/hosts/notify.go, identify.go     (the callback that asks)     *)
(*                                                                         *)
(* Every stream that a remote peer opens is served by a goroutine of its   *)
(* own, but all streams of a method share one variable, the size limit     *)
(* that MakeStreamHandler captures and assigns.  All goroutines share the  *)
(* local status, which UpdateStatus tests and assigns without a lock.  An  *)
(* assignment of the status copies several words; the model copies its     *)
(* root and then its slot, and a reader may come between the two.          *)
(*                                                                         *)
(* A message is its declared length, its encoded length and the status in  *)
(* it.  Its bytes, the varint of the length and the frames of snappy are   *)
(* external.  ServeBeaconGoodbye and the methods for blocks are not used.  *)
(***************************************************************************)
EXTENDS Integers, FiniteSets

CONSTANTS
  Conns,          \* bound: the connections whose peers are asked
  MaxStreams,     \* bound: the streams opened by remote peers
  PingLen, StatusLen,   \* bytes of a ping and of a status
  MaxUint32,      \* largest length that snappy encodes
  RemoteRequests, \* bound: what remote peers send, [m, len, body]
  Slots,          \* bound: head slots of the statuses of remote peers
  Garbled         \* stands for a length or a message that cannot be read

Streams == 1..MaxStreams
Methods == {"ping", "status", "metadata"}

ASSUME RpcAssumption ==
  /\ IsFiniteSet(Conns)
  /\ MaxStreams \in Nat
  /\ PingLen \in Nat \ {0} /\ StatusLen \in Nat \ {0}
  /\ MaxUint32 \in Nat
  /\ \A n \in {PingLen, StatusLen} : 32 + n + n \div 6 <= MaxUint32
  /\ RemoteRequests \subseteq
       [m : Methods, len : Nat \cup {Garbled}, body : Slots \cup {Garbled}]
  /\ Slots \subseteq Nat \ {0}
  /\ Garbled \notin Nat

\* A status is a root and the slot of it; the root stands for all other fields.
Status == [root : Slots \cup {0}, slot : Slots \cup {0}]
ZeroStatus == [root |-> 0, slot |-> 0]
StatusAt(n) == [root |-> n, slot |-> n]

VARIABLES
  limit,        \* maxreqrespContentSize of each method
  stream,       \* the streams that are served
  asked,        \* the callback of each connection
  LocalStatus

vars == <<limit, stream, asked, LocalStatus>>

-----------------------------------------------------------------------------
(* Codecs.                                                                 *)

MinByteLen(m) == CASE m = "ping" -> PingLen [] m = "status" -> StatusLen [] OTHER -> 0
MaxByteLen(m) == CASE m = "ping" -> PingLen [] m = "status" -> StatusLen [] OTHER -> 0

\* snappy.MaxEncodedLen; -1 is the error.
MaxEncodedLen(n) ==
  LET e == 32 + n + n \div 6
  IN  IF n > MaxUint32 \/ e > MaxUint32 THEN -1 ELSE e

\* BufLimitReader.Read: at most N bytes, none when N is used up.
BufRead(N, want) == IF N <= 0 THEN 0 ELSE IF want > N THEN N ELSE want

\* One frame of snappy: the stream identifier, a header and a checksum.
Framed(n) == n + 18

\* SSZCodec.Decode: a method without a request wants no bytes, the others want
\* the bytes of their object, and leave those after it.
Decode(m, reqLen, N, body) ==
  IF m = "metadata" THEN reqLen = 0
  ELSE /\ reqLen >= MinByteLen(m)
       /\ body # Garbled
       /\ BufRead(N, Framed(reqLen)) = Framed(reqLen)

-----------------------------------------------------------------------------

NewStream(m, len, body, pc) ==
  [m |-> m, len |-> len, body |-> body, pc |-> pc, reqLen |-> 0, next |-> 0, N |-> 0,
   invalid |-> FALSE, resp |-> "none"]
NewStreamRecord == NewStream("ping", Garbled, Garbled, "none")

NewRequestRecord == [pc |-> "request", err |-> FALSE, slot |-> 0]

\* The goroutines of a callback: two requests and the identification, whose error
\* (hinfoErr) is nil until it has one.
NewCallbackRecord ==
  [pc |-> "none", alive |-> TRUE, status |-> NewRequestRecord,
   metadata |-> NewRequestRecord, ident |-> "run", hinfoErr |-> "nil", atts |-> {}]

\* NewLocalEthereumNode ignores the status it is given.
Init ==
  /\ limit = [m \in Methods |-> MaxByteLen(m)]
  /\ stream = [s \in Streams |-> NewStreamRecord]
  /\ asked = [c \in Conns |-> NewCallbackRecord]
  /\ LocalStatus = ZeroStatus

-----------------------------------------------------------------------------
(* Serving a stream: MakeStreamHandler.  A local variable that is not read *)
(* again goes back to its first value.                                     *)

\* A remote peer opens the next stream.  A length that is Garbled is one that does
\* not come, too: after 20 seconds the stream is closed.
Open(s) ==
  /\ stream[s].pc = "none"
  /\ \A t \in Streams : t < s => stream[t].pc # "none"
  /\ \E r \in RemoteRequests :
       stream' = [stream EXCEPT ![s] = NewStream(r.m, r.len, r.body, "head")]
  /\ UNCHANGED <<limit, asked, LocalStatus>>

\* A method without a request: the length is not even read.
Start(s) ==
  /\ stream[s].pc = "head"
  /\ stream' = [stream EXCEPT ![s].pc =
                  IF limit[stream[s].m] = 0 THEN "listen" ELSE "check"]
  /\ UNCHANGED <<limit, asked, LocalStatus>>

\* The length is read and compared with the limit as it is now.
CheckLength(s) ==
  LET r   == stream[s]
      bad == \/ r.len = Garbled
             \/ r.len < MinByteLen(r.m)
             \/ r.len > limit[r.m]
  IN  /\ r.pc = "check"
      /\ stream' = [stream EXCEPT ![s] =
           [r EXCEPT !.pc = IF bad THEN "assign" ELSE "encode", !.invalid = bad,
                     !.reqLen = IF r.len = Garbled THEN 0 ELSE r.len]]
      /\ UNCHANGED <<limit, asked, LocalStatus>>

\* The limit is read again, and adjusted for the compression.
EncodeLimit(s) ==
  LET e == MaxEncodedLen(limit[stream[s].m])
  IN  /\ stream[s].pc = "encode"
      /\ stream' = [stream EXCEPT ![s].pc = "assign", ![s].invalid = (e = -1),
                                  ![s].next = IF e = -1 THEN 0 ELSE e]
      /\ UNCHANGED <<limit, asked, LocalStatus>>

\* Mutant: an invalid request of one method spoils them all.
AssignLimitOfAll(s) ==
  /\ stream[s].pc = "assign"
  /\ limit' = IF stream[s].invalid THEN [m \in Methods |-> 0]
              ELSE [limit EXCEPT ![stream[s].m] = stream[s].next]
  /\ stream' = [stream EXCEPT ![s].next = 0,
                              ![s].pc = IF stream[s].invalid THEN "listen" ELSE "bound"]
  /\ UNCHANGED <<asked, LocalStatus>>

\* The assignment of the captured limit outlives the stream.
AssignLimit(s) ==
  /\ stream[s].pc = "assign"
  /\ limit' = [limit EXCEPT ![stream[s].m] =
                  IF stream[s].invalid THEN 0 ELSE stream[s].next]
  /\ stream' = [stream EXCEPT ![s].next = 0,
                              ![s].pc = IF stream[s].invalid THEN "listen" ELSE "bound"]
  /\ UNCHANGED <<asked, LocalStatus>>

\* The bound of the reader is computed from the limit as it is now.
BoundReader(s) ==
  LET max == limit[stream[s].m]
      e   == MaxEncodedLen(max)
  IN  /\ stream[s].pc = "bound"
      /\ stream' = [stream EXCEPT ![s].N = IF e = -1 THEN max ELSE e,
                                  ![s].pc = "listen"]
      /\ UNCHANGED <<limit, asked, LocalStatus>>

\* The listener reads the request, and answers with an error if it cannot.
RefuseRequest(s) ==
  LET r == stream[s]
  IN  /\ r.pc = "listen"
      /\ r.invalid \/ ~Decode(r.m, r.reqLen, r.N, r.body)
      /\ stream' = [stream EXCEPT ![s].pc = "done", ![s].N = 0, ![s].resp = "error"]
      /\ UNCHANGED <<limit, asked, LocalStatus>>

\* A chunk that is written reaches the peer, or the stream is gone.
StreamChunk == {"success", "lost"}

\* The listener reads the request and answers; it goes on at pc "then" when the
\* answer could be written.
WriteResponseChunk(s, then) ==
  LET r == stream[s]
  IN  /\ r.pc = "listen"
      /\ ~r.invalid /\ Decode(r.m, r.reqLen, r.N, r.body)
      /\ \E resp \in StreamChunk :
           stream' = [stream EXCEPT ![s].N = 0, ![s].resp = resp,
                                    ![s].pc = IF resp = "success" THEN then ELSE "done"]
      /\ UNCHANGED <<limit, asked, LocalStatus>>

\* A ping is echoed; the metadata of the node is sent; so is its status, and the
\* status of the request is taken over after that.
ServeBeaconPing(s) == stream[s].m = "ping" /\ WriteResponseChunk(s, "done")
ServeBeaconMetadata(s) == stream[s].m = "metadata" /\ WriteResponseChunk(s, "done")
ServeBeaconStatus(s) == stream[s].m = "status" /\ WriteResponseChunk(s, "test")

-----------------------------------------------------------------------------
(* UpdateStatus: a test and an assignment, with no lock around them.       *)

\* Calls between the test and the end of the assignment.
Copying ==
  \/ \E s \in Streams : stream[s].pc \in {"root", "slot"}
  \/ \E c \in Conns : asked[c].status.pc \in {"root", "slot"}

\* Mutant: a status is taken over if it is another one.
AfterTestOther(slot) == IF slot # LocalStatus.slot THEN "root" ELSE "done"

AfterTest(slot) == IF slot > LocalStatus.slot THEN "root" ELSE "done"

CopyRoot(slot) == LocalStatus' = [LocalStatus EXCEPT !.root = slot]
CopySlot(slot) == LocalStatus' = [LocalStatus EXCEPT !.slot = slot]

ServedTest(s) ==
  /\ stream[s].pc = "test"
  /\ stream' = [stream EXCEPT ![s].pc = AfterTest(stream[s].body)]
  /\ UNCHANGED <<limit, asked, LocalStatus>>

ServedRoot(s) ==
  /\ stream[s].pc = "root"
  /\ CopyRoot(stream[s].body)
  /\ stream' = [stream EXCEPT ![s].pc = "slot"]
  /\ UNCHANGED <<limit, asked>>

ServedSlot(s) ==
  /\ stream[s].pc = "slot"
  /\ CopySlot(stream[s].body)
  /\ stream' = [stream EXCEPT ![s].pc = "done"]
  /\ UNCHANGED <<limit, asked>>

-----------------------------------------------------------------------------
(* Asking a peer: standardConnectF and its goroutines.                     *)

ConnectF(c) ==
  /\ asked[c].pc = "none"
  /\ asked' = [asked EXCEPT ![c].pc = "wait"]
  /\ UNCHANGED <<limit, stream, LocalStatus>>

\* The connection is lost.
Disconnect(c) ==
  /\ asked[c].pc = "wait"
  /\ asked[c].alive
  /\ asked' = [asked EXCEPT ![c].alive = FALSE]
  /\ UNCHANGED <<limit, stream, LocalStatus>>

\* Mutant: a peer that could be identified leaves no error.
ReqHostInfoNil(c) ==
  /\ asked[c].pc = "wait" /\ asked[c].ident = "run"
  /\ \E err \in {"nil", "error"} :
       asked' = [asked EXCEPT ![c].ident = "done", ![c].hinfoErr = err]
  /\ UNCHANGED <<limit, stream, LocalStatus>>

\* The identification ends, at the timeout of the callback at the latest, and
\* touches nothing that the requests do.  It leaves an error in any case: the one
\* of a peer that could be identified has the text "None".
ReqHostInfo(c) ==
  /\ asked[c].pc = "wait" /\ asked[c].ident = "run"
  /\ asked' = [asked EXCEPT ![c].ident = "done", ![c].hinfoErr = "error"]
  /\ UNCHANGED <<limit, stream, LocalStatus>>

\* The status goes to UpdateStatus even after an error, when it is the zero status.
\* Nothing looks into the metadata.
ReqBeaconStatus(err, slot) == [pc |-> "test", err |-> err, slot |-> slot]
ReqBeaconMetadata(err) == [pc |-> "done", err |-> err, slot |-> 0]

\* A request that has ended.
Ended(c, k, err, slot) ==
  asked' = [asked EXCEPT ![c][k] =
    IF k = "status" THEN ReqBeaconStatus(err, slot) ELSE ReqBeaconMetadata(err)]

\* The stream is opened and the request written, or one of them fails.  Here the
\* timeout of the callback counts.
RunRequest(c, k) ==
  /\ asked[c].pc = "wait"
  /\ asked[c][k].pc = "request"
  /\ \/ asked[c].alive /\ asked' = [asked EXCEPT ![c][k].pc = "read"]
     \/ Ended(c, k, TRUE, 0)
  /\ UNCHANGED <<limit, stream, LocalStatus>>

MaxErrSize == 256
SuccessCode == 0
ErrorCodes == {1, 2}

ChunkLimit(code) == IF code \in ErrorCodes THEN MaxErrSize ELSE MaxEncodedLen(StatusLen)

\* What a peer may answer: an error code has a message, success a status.
Chunks ==
  [code : {0, 1, 3}, size : {StatusLen, MaxErrSize + 1}, body : Slots \cup {Garbled}]

\* Mutant: an error of the stream is tried again.
ReadEndAgain(c, k) ==
  /\ asked[c][k].pc = "read"
  /\ asked[c].alive
  /\ Ended(c, k, FALSE, 0)
  /\ UNCHANGED <<limit, stream, LocalStatus>>

\* The peer closes the stream with no chunk, which is no error, or the stream
\* breaks, which is one.
ReadEnd(c, k) ==
  /\ asked[c][k].pc = "read"
  /\ \/ asked[c].alive /\ Ended(c, k, FALSE, 0)
     \/ Ended(c, k, TRUE, 0)
  /\ UNCHANGED <<limit, stream, LocalStatus>>

\* One chunk is read.  An error that the peer reports is no error of the request.
\* The slot is the last field of a status: one that cannot be read has none.
ReadChunk(c, k) ==
  /\ asked[c][k].pc = "read"
  /\ asked[c].alive
  /\ \E ch \in Chunks :
       IF \/ ch.size > ChunkLimit(ch.code)
          \/ ch.body = Garbled
          \/ ch.code \notin {SuccessCode} \cup ErrorCodes
       THEN Ended(c, k, TRUE, 0)
       ELSE Ended(c, k, FALSE, IF ch.code = SuccessCode THEN ch.body ELSE 0)
  /\ UNCHANGED <<limit, stream, LocalStatus>>

AskedTest(c) ==
  /\ asked[c].status.pc = "test"
  /\ asked' = [asked EXCEPT ![c].status.pc = AfterTest(asked[c].status.slot)]
  /\ UNCHANGED <<limit, stream, LocalStatus>>

AskedRoot(c) ==
  /\ asked[c].status.pc = "root"
  /\ CopyRoot(asked[c].status.slot)
  /\ asked' = [asked EXCEPT ![c].status.pc = "slot"]
  /\ UNCHANGED <<limit, stream>>

AskedSlot(c) ==
  /\ asked[c].status.pc = "slot"
  /\ CopySlot(asked[c].status.slot)
  /\ asked' = [asked EXCEPT ![c].status.pc = "done"]
  /\ UNCHANGED <<limit, stream>>

\* The requests without an error become attributes of the HostInfo.
Attributes(c) ==
  {[k |-> k, slot |-> asked[c][k].slot] : k \in
     {j \in {"status", "metadata"} : ~asked[c][j].err}}

\* wg.Wait has returned.  The error of the identification is dereferenced for the
\* event of the connection.  The variables of the goroutines are gone.
Report(c) ==
  /\ asked[c].pc = "wait"
  /\ asked[c].status.pc = "done" /\ asked[c].metadata.pc = "done"
  /\ asked[c].ident = "done"
  /\ asked' = [asked EXCEPT ![c] =
       [NewCallbackRecord EXCEPT
          !.pc = IF asked[c].hinfoErr = "nil" THEN "panicked" ELSE "returned",
          !.alive = asked[c].alive, !.atts = Attributes(c)]]
  /\ UNCHANGED <<limit, stream, LocalStatus>>

-----------------------------------------------------------------------------

ServeStep(s) ==
  \/ Start(s) \/ CheckLength(s) \/ EncodeLimit(s) \/ AssignLimit(s) \/ BoundReader(s)
  \/ RefuseRequest(s)
  \/ ServeBeaconPing(s) \/ ServeBeaconMetadata(s) \/ ServeBeaconStatus(s)
  \/ ServedTest(s) \/ ServedRoot(s) \/ ServedSlot(s)

RequestStep(c, k) == RunRequest(c, k) \/ ReadEnd(c, k) \/ ReadChunk(c, k)

UpdateStep(c) == AskedTest(c) \/ AskedRoot(c) \/ AskedSlot(c)

Next ==
  \/ \E s \in Streams : Open(s) \/ ServeStep(s)
  \/ \E c \in Conns :
       \/ ConnectF(c) \/ Disconnect(c) \/ ReqHostInfo(c) \/ Report(c)
       \/ UpdateStep(c)
       \/ \E k \in {"status", "metadata"} : RequestStep(c, k)

Spec == Init /\ [][Next]_vars

\* Opening a stream and identifying have a timeout; the read of an answer ends, if
\* not before, when the connection is lost.
RequestGoes(c, k) == RunRequest(c, k) \/ (~asked[c].alive /\ ReadEnd(c, k))

Fairness ==
  \A c \in Conns :
       /\ WF_vars(ReqHostInfo(c))
       /\ WF_vars(Report(c))
       /\ WF_vars(UpdateStep(c))
       /\ WF_vars(RequestGoes(c, "status"))
       /\ WF_vars(RequestGoes(c, "metadata"))

FairSpec == Spec /\ Fairness

-----------------------------------------------------------------------------
(* Properties.                                                             *)

StreamPcs ==
  {"none", "head", "check", "encode", "assign", "bound", "listen", "test", "root", "slot",
   "done"}
RequestPcs == {"request", "read", "test", "root", "slot", "done"}

StreamRecords ==
  [m : Methods, len : Nat \cup {Garbled}, body : Slots \cup {Garbled}, pc : StreamPcs,
   reqLen : Nat, next : Nat, N : Nat, invalid : BOOLEAN,
   resp : {"none", "error", "success", "lost"}]
RequestRecords == [pc : RequestPcs, err : BOOLEAN, slot : Slots \cup {0}]
CallbackRecords ==
  [pc : {"none", "wait", "returned", "panicked"}, alive : BOOLEAN,
   status : RequestRecords, metadata : RequestRecords,
   ident : {"run", "done"}, hinfoErr : {"nil", "error"},
   atts : SUBSET [k : {"status", "metadata"}, slot : Slots \cup {0}]]

\* The types of the variables.  A status that is taken over could be read.
TypeOK ==
  /\ limit \in [Methods -> Nat]
  /\ stream \in [Streams -> StreamRecords]
  /\ \A s \in Streams : stream[s].pc \in {"test", "root", "slot"} => stream[s].body \in Slots
  /\ asked \in [Conns -> CallbackRecords]
  /\ LocalStatus \in Status

Fits(s) ==
  LET r == stream[s]
  IN  r.m = "metadata" \/ (r.len = MaxByteLen(r.m) /\ r.body # Garbled)

\* A request that fits its method is refused only after another stream of the
\* method has assigned the captured limit, and after one was found invalid
\* (handle_request.go:65 and :70).  The metadata, which have no request, are never
\* refused.
FittingRefusedOnlyAfterSpoiling ==
  \A s \in Streams : Fits(s) /\ stream[s].resp = "error" =>
    /\ stream[s].m # "metadata"
    /\ \E t \in Streams : stream[t].m = stream[s].m /\ stream[t].invalid
    /\ \E t \in Streams \ {s} :
         stream[t].m = stream[s].m /\ stream[t].pc \notin {"none", "head", "check", "encode"}

\* UpdateStatus ("check if the new one is newer than ours", enode.go:76) tests and
\* copies with no lock, so overlapping calls may leave the older of their statuses,
\* or the root of one with the slot of another.  They never undo an earlier call:
\* once no call is in flight, the slot does not fall below what it is then, however
\* many calls overlap later.
StatusNeverFallsBack ==
  \A n \in Slots :
    [](~Copying /\ LocalStatus.slot >= n => [](LocalStatus.slot >= n))

\* The callback dereferences the error of the identification (notify.go:142) after
\* the wait group: by then ReqHostInfo has left one, even for a peer that it could
\* identify, whatever the other goroutines of the callback did first.
CallbackSurvives == \A c \in Conns : asked[c].pc # "panicked"

\* The callback of a connection that is lost returns: no request waits for ever.
CallbacksEnd ==
  \A c \in Conns : ~asked[c].alive ~> asked[c].pc = "returned"

\* "Check against raw content size limit (without compression applied)"
\* (handle_request.go:57): a request that is read is not longer than its codec
\* allows.  The limit that is checked has grown by the compression of every
\* request before.
RawSizeChecked ==
  \A s \in Streams :
    stream[s].pc # "check" /\ ~stream[s].invalid => stream[s].reqLen <= MaxByteLen(stream[s].m)

=============================================================================
