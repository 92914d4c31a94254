# A TLA+ model of armiarma

armiarma crawls the consensus-layer network of Ethereum. It discovers peers,
dials them again and again, identifies those that answer, reads the gossip they
relay, and keeps what it learns in PostgreSQL. The program is a set of goroutines
around a few shared structures and channels; most of what is hard to test in it is
in the order in which they take their steps. This directory models those parts,
checks them on small instances with TLC and proves the most important invariants,
for every instance, with TLAPS.

All paths are relative to the root of the repository; `src/` holds the code.

## 1. Inventory

| part | state | hard behaviour | what should hold |
|---|---|---|---|
| **Peering** `pkg/peering` | PeerQueue (map, list, pointer), channels of peers and tokens, delay of each peer | check-then-get, unlocked writes during the sort, removal under the pointer, peers dialled twice, shutdown | tokens balanced, no self-deadlock, map and list agree, no repeat in an iteration, overdue peers leave, new peers are dialled |
| **Connection events** `pkg/hosts`, `pkg/peering`, `pkg/db/models/connevents.go` | two notification channels, one buffered ConnEvent per peer | disconnection before the identification ends, full channels, ConnEvent shared by pointer with the persister | a row has a beginning and an end of its peer, the last pair is written in the end; callbacks return |
| **Database writer** `server.go`, `batch.go` | persistC, a batch per persister | failed query, lost answer of a commit, retry, ticker, Close and cancel at any time | items are in one place, batches are atomic, repeated writes are bounded, everything is stored, a shutdown loses little |
| **Tables and metrics** `pkg/db/postgresql`, `pkg/metrics` | the rows, the gauges | two persisters commit in any order; queries of the metrics fail, or see different rows | rows follow the order of the writes, distributions agree, gauges converge |
| **IP locator** `pkg/utils/apis` | list, channel, two routines, table ips | scan without lock, address in flight in neither list nor table, rate limit, full list | every accepted address is answered once, in order; callers return |
| **Discovery** `pkg/discovery`, `dv5` | nodeNotC, done flag | Stop closes a channel that is still read | the iterator ends first; Stop ends |
| **Kademlia discovery** `pkg/discovery/kdht` | list of peers with three pointers, wait group | check-then-add, append and pointer in two steps, Done deferred in a loop | the iterator never reads behind the end, each entry notified once and in order |
| **Request/response** `rpc`, `enode.go`, `notify.go` | a limit per method, the local status, results of a callback | limit shared by all streams of a method, status compared and copied with no lock | a fitting request is refused only for a reason; overlapping updates do not undo earlier ones; the callback finds its error, and ends |
| **Gossip** `pkg/gossipsub`, `network_info.go`, `config` | topics, readers, persistC, batches, two tables | failed join, trimmed digests, subnets at the ends of their range, a batch given up, shutdown under the readers | joining fails on repeats only, rows are messages, every message is stored or was in a batch given up |
| **Crawler** `pkg/crawler`, `cmd` | step of New, Run and Close, context | order of the shutdown | the iterator ends before its channel is closed; Stop of the discovery returns |

Discovery and the callbacks of the host feed the writer and the IP locator; the
iterator of the peering service reads back the active rows of peer_info, its
recorder writes the outcome of every attempt and pairs connection events on their
way to the writer; the readers of the gossip topics use the same writer; the
metrics only read.

## 2. Modules

| module | models | builds on |
|---|---|---|
| `PrunedPeer` | delay classes, back-off and deprecation of one peer, as operators on a record | |
| `PruningStrategy` | iterator, workers, recorder, PeerQueue, their channels, the rows of peer_info, discovery, shutdown | `PrunedPeer` |
| `BatchStore` | abstract: items are gathered in batches, which are written or lost as a whole | |
| `DBPersister` | persistC, the persisters and Close | implements `BatchStore` |
| `ConnEvents` | a connection from the callbacks of the host to conn_events and peer_info | |
| `LookupQueue` | abstract: a bounded queue, served in order | |
| `IpLocator` | LocateIP, the list, the two routines, the IP-API | implements `LookupQueue` |
| `Discovery` | the discv5 iterator, its channel, the handler | `IpLocator` |
| `Crawler` | New, Run and Close of the crawler, composed with the two above | `Discovery` |
| `KdhtDiscovery` | the Kademlia discovery | |
| `ReqResp` | served streams, the local status, the callback of a new connection | |
| `UserAgent` | ParseClientType | |
| `Tables` | rows, upserts and SELECTs | `UserAgent` |
| `Metrics` | the updater and its gauges | `Tables` |
| `Gossip` | flags, names of topics, joining, readers, batches and rows of messages | |
| `...Proofs` | theorems about a module (`PeeringProofs`: about `PruningStrategy`) | that module |
| `MC...` | instances for TLC | |

**PruningStrategy.** `peerMap`, `peerList` and `peerPtr` are the fields of
PeerQueue. The goroutines are `iterPc` with the locals of peerIteratorRoutine,
`worker` and `recorder`; `nextPeerChan` is a number, because tokens are alike, and
`peerStreamChan` a sequence. One action is one critical section, one channel
operation or one unlocked write: the check of the next peer and its read are two
actions because the code takes the lock twice, and an attempt is recorded in three
because UpdateDelay writes three fields with no lock. While it does, a sort of the
list compares values that change, so `SortedLists` then allows any order. `peerPtr`
is an index from 0 in the code; the sequence starts at 1. `db` and `persistC` stand
for the whole database: a write is applied in any order, because two persisters
commit independently, or dropped, because a batch may be given up. A panic ends the
process. A cancelled process may exit at any time, or go on with closed channels.

**DBPersister.** Items are numbered as they are accepted. A persister is its
program counter, `readyToFinish`, and its batch: the items in it, its number of
queries, the tries so far. An item needs some number of queries (`Weights`), none
if its type is not recognised. Each try of persistBatch commits, fails, commits with
the answer lost, or fails in a query; the last case rolls back and returns no
error, so no other try is made. `stored` counts how often the rows of an item were
written: a try after a commit whose answer was lost writes them again, which an
upsert does not show and an INSERT of conn_events does. wg.Add runs inside the
goroutine, so Close may overtake a persister that has not started. `BatchStore` is
what the writer promises: an accepted item waits, is gathered in the batch of one
writer or needs no query; one transaction writes exactly the items of one batch; a
writer that does not know of its commit keeps the batch, takes no item into it, and
may write it again, up to `MaxWrites` times in all; or the batch is lost as a whole.

**ConnEvents.** A connection has two callbacks. `opening` walks through the
identification, the report of the connection and that of the identification;
`closing` through the report of the disconnection, possibly before the
identification ends. Each report may block on a full channel. A peer may connect
several times, also at once. The peering service forwards one event at a time to the
strategy, which pairs them in `buffer`, where the ConnEvent of a peer stays after it
was persisted. It is handed to the database by pointer, so `ComposeQueries` reads the
buffer, not a copy. A time is only copied and tested for zero; it is named by the
connection whose callback read it.

**IpLocator, Discovery, Crawler.** A client of LocateIP scans the list, asks the
database, and adds; the scan takes no lock, so one that a removal overlaps may find
anything. The reader moves addresses to the channel, the caller asks the API:
answers are ok, ok with a delay, an error, too many requests (tried again, and the
addresses behind it wait), or one without the header X-Ttl, which is indexed all
the same and panics. `Crawler` walks through the error returns of
NewEthereumCrawler, the services of Run, and Close service by service, with
inbound connections using LocateIP beside the discovery: the host listens from its
construction in New on, so they come before the rest of New and before Run too.

**KdhtDiscovery.** The list of peers grows under a mutex, its write pointer after
it; the lookup of a peer and its insertion are two steps; so are the test of the
walk's pointer and the read at it. The wait group counts as the code's does, with
one deferred Done for every turn of the loop.

**ReqResp.** A served stream reads its length, compares it with the limit of its
method, reads the limit again to compute the size of its encoding, assigns that, and
bounds its reader: five actions of MakeStreamHandler between which other streams of
the method run. A status is its root and its slot, written one after the other. The
callback of a new connection asks for the status and the metadata while ReqHostInfo
identifies the peer, waits for all three, and dereferences the error that ReqHostInfo
left.

**Tables, Metrics.** One operator per query, on a record of tables. An object becomes
a list of queries when a persister takes it, and is committed later, query by query
(`Replay`). Times are numbers: `last_activity` and the timestamp of a node take the
time in the object, and `horizon` is where the queries that look back 180 days, or
one day for nodes, stop; it moves as time passes (`Expire`). The queries of the
metrics are operators too; count(column) passes over NULL, so a distribution says
which column it counts. The hosting metric makes three queries, between which the
tables change. A metric whose query fails leaves its gauge alone (`QueryFails`).
`TablesAssumption` says what the objects are that the crawler sends: attributes of a
host are about that host, a record has its fork and its subnets, an address is never
NULL, and what a start finds in the tables was written by the same queries.

**Gossip.** The flags become a configuration, the configuration topics, and the
topics readers. Digests and subnet numbers are sequences of characters because the
code trims and splits them. After that, messages arrive, are read, decoded, and taken
by persisters; a batch, of blocks and attestations mixed, is committed when it is
full or at the ticker, and inserted in two tables with one row per identifier, or it
is given up as a whole. A persister that is told to finish drops its batch, and Close
waits for ever when both run.

## 3. Runs

| run | question | instance | result |
|---|---|---|---|
| `shutdown` | can iterator and workers block each other? | 1 peer, 2 workers, 2 ticks, cancellation at any point | holds: tokens balance, no send of the exchange blocks, no overdue peer stays queued |
| `peering_live` | does the queue stay whole, and is a new peer dialled? | 2 peers, 1 worker, 1 tick | holds |
| `range` | is the read of the next peer in range, as its guard intends? | 1 peer, 2 workers | **violated** |
| `writer` | is an item accounted for, and how often may it be written? | 2 persisters, 3 items, batches of 2, 1 retry, all faults, shutdown | holds: an item is in one place, and is written once per try at most, so twice here; BatchStore is implemented; a shutdown drops less than one batch unless the context is cancelled |
| `events` | what becomes of a connection, and of the next one of its peer? | 2 connections, of one peer or of two, channels of 1 | holds: rows pair times of their peer; a connection that is alone gets its row |
| `crawler` | are addresses served once and in order, and what ends before what? | 2 addresses, list and channel of 1, 1 peer, 1 callback | holds; LookupQueue is implemented; Stop of the discovery returns. That the whole of Close comes through is not claimed: see below |
| `kdht` | does the iterator read only what is there? | a bootstrap and a random worker, 2 peers | holds; a peer may be listed once per worker |
| `rpc` | what do streams of one method, and updates of the status, do to each other? | 2 streams, 1 connection | holds: only a stream before it makes a fitting request be refused |
| `rpc_limit` | is the raw size checked, as the comment says? | 2 pings | **violated** |
| `tables` | do rows and gauges say what was written? | 2 persisters, 2 peers, 2 of 8 objects, metrics client and hosted, one step of time | holds, for rows whose commits did not cross |
| `enr_seq` | does the row of a node keep its newest record, as the comment says? | the same | **violated** |
| `gossip` | do flags become the right topics, and messages rows? | 7 configurations, 6 messages, 2 deliveries, 2 persisters, batches of 2, buffers and channel of 1 | holds, except for digests with a zero at an end, under which nothing is heard |

### What the violated properties show

* `range`: ValidNextPeer and GetNextPeer are two critical sections. Two workers
  dial the same peer (the next iteration hands it out again while its first
  outcome is unrecorded); the outcome that makes it deprecable is recorded between
  the check and the read; the list is one shorter and the read is out of range.
* `rpc_limit`: the limit is a variable of the handler's closure. Every valid request
  replaces it by the size of an encoding, so the next stream is compared with a
  larger limit and may be longer than its codec allows. (An invalid request sets it
  to 0: then no length is read, and the requests after it are refused. That is what
  `FittingRefusedOnlyAfterSpoiling` is stated around.)
* `enr_seq`: the upsert of a record overwrites seq and all other columns without
  comparing them. Two records of a node, the newer persisted first (two persisters
  hold them, or the discovery meets the old record again), leave the row with the
  lower sequence number.

### What the models show besides

These are consequences of the models that the properties above are stated around;
each follows from a few lines of the code.

* UpdateConnAttempt writes `deprecated = false` for every attempt that is not
  deprecable; committed after the write that deprecated the row, it revives it
  without any contact (`RowsFollowOrder` excepts crossed commits).
* A commit whose answer is lost is tried again: the rows of conn_events, which are
  inserted without a conflict clause, are then there twice. `WritesBounded` says how
  often at most.
* A persister that is to finish drops its batch (`server.go:206`), and Close sends
  one message for two persisters (`server.go:360`): the other goes on, and the wait
  group does not get to zero unless the context is cancelled too, which the crawler
  does after this call. With both persisters running, Close of the crawler does not
  come to its end, which `crawler` and `gossip` reach too. The comment at
  `server.go:359` ("Let the persister finish cleaning the batch") does not fit the
  batch that is dropped; `LossBounded` says how much that can be.
* The ConnEvent of a peer is not replaced after it was persisted
  (`pruning_strategy.go:280`): the second connection of a peer is paired with the
  end of the first, in a row of its own. `RowsOfThePeer` claims no more than that both
  times are of the peer, and `EventuallyRecorded` is for a connection that is alone.
* An error chunk or an empty answer to a status request gives no error, and a zero
  status is recorded. ReqHostInfo always leaves an error, and the callback relies on
  it: it dereferences that error for every peer (`CallbackSurvives`). The
  reads of an answer do not heed the timeout of 5 seconds.
* The local status is compared and copied with no lock. Of two updates that overlap
  the older may stay, against the comment at `enode.go:76`; `StatusNeverFallsBack`
  is about what was there before they began.
* A fork digest loses its zeros at the ends in the topics and in the local record
  (`network_info.go:104`): the crawler joins topics that no other peer names, and
  hears nothing on them. A digest without "0x" is accepted, and then no discovered
  node matches it; a fork given by its name gives the empty digest. Subnets 1 to 64
  are accepted, 0 is not; "all" behind a number repeats a topic, and the constructor panics.
* Gauges are never reset: a label that no row has any more keeps its last value.
  Two metrics are named "geographical_distribution", and one overwrites the other in
  the summary.
* Two workers of the Kademlia walk test its pointer before they take the mutex
  (`service.go:366`), so one may read behind the end of the list; their deferred
  calls of Done make the wait group negative. `EveryEntryNotified` and `StopReturns`
  except these panics. The run has one such worker, for the size of its state
  space; with two, and none at random, the same properties hold on 337,033 states.
* Stop of the discovery closes nodeNotC before the handler has ended, so the handler
  may read a nil peer (`StopReturns` excepts the panic).

### Bounds

Two workers are needed for a peer to be in two hands at once, two peers for an order
of the list and for a removal in front of the pointer, one tick for a deprecation
(`DeprecationTime = 1`) and two for a second life of the peer. The delays of
`MCPruningStrategy` keep the order of the real ones. Batches of two queries are full,
half full or overfull with items of up to two queries; one retry distinguishes the
first from the last try. In `events` channels of one slot make every callback wait,
two connections are enough for a pair that is mixed or written over while it is on
its way, and one persister suffices to be behind the recorder. In `crawler` a list
and a channel of one place are full with the second address. In `kdht` two workers
suffice for the overlaps of addPeer, and the walk of a second bootstrap worker is
described above. In `rpc` two streams are the spoiler and the spoilt; `MaxUint32 =
60` is above the encoding of the longest message and below that of its encoding, so
the computation fails after a few requests, as it does at the real bound. In `tables`
two objects, beside what the last start has left, are enough for two commits of a
peer to cross, and the objects differ in sequence number, time and address. In
`gossip` ten subnets give a number of two digits whose first digit is a subnet too;
two deliveries fill a batch, and one fills a buffer. `MaxDegree` saturates the degree
of a Timeout peer where its delay is past the cap anyway (`DelayAssumption`).

Deadlock is checked where the system never stops. It is off in `crawler`, `kdht` and
`gossip` (the process ends or panics), and in the `rpc` runs (all streams have been
served).

### Fairness

* Peering: iterator, workers and recorder go on while they can; a goroutine blocked
  on a channel is served in turn by the Go runtime, hence strong fairness for the
  meeting of a worker with the recorder and for the send to the writer. The query of
  the iterator does not fail for ever.
* Writer: a persister goes on; its select picks among the ready cases at random, so
  neither the channel nor the ticker is passed over for ever (strong fairness).
* Connection events: every goroutine goes on. Requests: every callback goes on, and
  its requests need not end before its connection does; nothing is assumed of the
  served streams.
* Crawler: every goroutine goes on; the network keeps answering the iterator of
  geth, and the API does not limit the same address for ever (strong fairness).
  Both are external.
* Kademlia: workers and iterator go on, and a Stop that was called. Metrics and
  gossip: tickers keep firing, the updater, the readers and the persisters go on; no
  query of the metrics fails for ever (strong fairness).

Nothing is assumed of what comes from outside: discovery, connections,
disconnections, messages, the clock, the signal that ends the crawler.

## 4. Proofs

All theorems hold for every value of the constants that the named assumptions of
the modules allow: any set of peers, connections, streams, addresses and
persisters, any finite set of workers, any batch size, number of retries and
capacity.

**PeeringProofs.** For the service, `Inv` is inductive (`InvHolds`), and the properties
follow: `TokensConserved`, `NoSendBlocks`, `QueueAgrees`, `NoRepeat`,
`OverdueRemoved`. The strengthening says when the iterator holds a
token (`TokenHeld`), that an iteration starts with no attempted peer
(`FreshIteration`), whom iterator and recorder are busy with (`PeerInHand`,
`RecorderBusy`), and that no stamp is in the future (`StampedInThePast`).
TokenConservation alone is not inductive: the token in the hand of the iterator is
tied to its program counter by TokenHeld only. NoSendBlocks is a counting argument
from it: a worker that is about to ask is not waiting, so fewer tokens than workers
are in the channel. NoRepeat needs that the list has no repetitions, and that
RemovePeer only moves later entries to the front.

**DBPersisterProofs.** `Inv` (types, accounting, no item twice on the channel, no
item written more often than its batch was tried) is inductive; `Accounted` and
`WritesLimited` follow. WritesBounded alone is not inductive: it needs the number of
tries of the batch that still holds the item. `Implements` shows that every step of
the writer is a step of BatchStore or a stutter. A try that commits is a StoreBatch
of exactly the items of the batch, which is emptied, or kept when the answer is lost;
giving a batch up, or leaving the loop with it, is a LoseBatch; taking an item is a
Gather, or a Skip for one without queries. `LossLimited` bounds what a shutdown drops.
Its invariant `LossInv` says that one message to finish is all that Close sends:
before it is received nothing is dropped, and the one persister that receives it
drops a batch below the limit.

**ConnEventsProofs.** `RowsBelong`, for any connections of any peers, from an
invariant (`Inductive`) that follows the times from the callbacks to the rows: an
event comes from a callback that has run (`EventsOK`), the times in the buffer are of
the peer they are kept for (`BufferOK`), a ConnEvent that was handed over is complete,
and stays so whatever is written over it (`ObjectsOK`), so what a persister finds
behind the pointer is a pair (`WritesOK`).

**CrawlerProofs.** The queue: every step of the locator appends one address to
`Pending`, removes its first, or leaves it alone (`Joins`, `Serves`, `Waits`); from
that `Accounted` and the refinement `InOrder`. `Distinct` needs only that addItem
tests the list again under its lock. The shutdown: `Control` says which services
are down at each step of Close, and gives `IteratorFirst`.

**KdhtDiscoveryProofs.** Types; `InRange` from the invariant that the write pointer
and the workers between append and increment together make up the length of the
list; `InOrder`. `CopiesLimited`: the entries of a peer and the workers that are about
to append it are together no more than the workers (`CopiesInv`): a worker gets
there only while the peer is not in the map, and a listed peer is.

**MetricsProofs.** `OrderOfRows` is RowsFollowOrder. As it stands it says nothing of a
peer in a batch; `TablesInv` adds that the queries of a peer which is not crossed are
in one batch at most, and that committing that batch would give the peer its serial
rows. A commit of another batch then changes nothing, because what a list of queries
makes of the rows of a peer depends on these rows alone (`ReplayLocal`), and not on
queries under other keys (`ReplayOther`). `SummariesConsistent` is
DistributionsAgree: the columns that a summary counts are never NULL in the rows it
selects, so every distribution is a count of its rows by label (`Counts`), and such
counts add up to the number of the rows (`CountsTotal`). TablesInv was checked with
TLC on the instance of `tables` before.

**GossipProofs.** For any configuration of the command line, any map of digests and
any messages; subnets have at most two digits (`GossipAssumption`: SubnetLimit is
below 100, 64 in the code), since names are read digit by digit. `PanicsOnRepeats`:
the readers are those of a prefix of the topics, so a Join that fails has met its
topic before (`JoinInv`), and a topic comes twice only if it was asked for twice or
two subnets are out of range. `RowsFromMessages`: from the buffer of a reader through
channel and batch to the row of either table, what is kept is the row of a delivered
message of another peer (`RowsInv`), and the handler reads from the name of its topic
the subnet that the message was sent on.

**ReqRespProofs.** `FittingBlamed`: while no stream of a method has assigned its
limit the limit is the codec's, and every assignment is 0 or larger than it, so a
fitting request is refused only after an invalid one. `StatusKept`: if the
slot is at least n while nothing is copied, then every status that passes the test
later is, too (`AtLeast`), so no order of copies takes the slot below n.
`CallbackNeverPanics`: the identification has left an error when it is done, and the
callback dereferences it after the wait group only (`IdentInv`).

Data are counted and summed in these proofs without the induction theorems of the
library, whose operator parameters the provers cannot instantiate: a set of numbers
with 0 that is closed under successor has no least missing number (`Climb` in
MetricsProofs, `Smallest` in GossipProofs), and induction is done with such sets.

**Only model-checked.** The liveness properties, because the prover does not treat
fairness: `NewPeerReachesWorker`, `EventuallyStored`, `EventuallyRecorded`,
`LastPairRecorded`, `CallbacksReturn`, `EveryLookupServed`, `EveryLocateReturns`,
`StopReturns` (of Crawler and of KdhtDiscovery), `EveryEntryNotified`,
`CallbacksEnd`, `GaugesConverge` and `EveryMessageStored`. And what the three
violating runs show. Every invariant and every refinement that a passing run checks
has a theorem.

## 5. Not modelled

* PostgreSQL, pgx, libp2p, geth, the IP-API and Prometheus are external, and appear
  by their outcomes. Log lines, Prometheus counters that nothing reads back, and
  columns that no query looks at are left out.
* Bytes: the frames of snappy, varints, SSZ and the parsing of an ENR are
  conversions by libraries. A message is its lengths and its status.
* ParseConnError searches the texts of a library's errors in the order of a Go map.
  The peering model lets a dial give any class.
* The remote endpoint (one HTTP request at the start, which may replace the fork
  digest), keys, files, logging and multiaddresses: no state that changes later.
* The IPFS crawler is commented out. ServeBeaconGoodbye and the methods for blocks
  are never used. No command starts the Kademlia discovery; it is modelled with its
  own Stop, and not with a context that is cancelled without it.
* The peering service and the gossip readers only watch the context, so Crawler does
  without them; their own shutdown is in PruningStrategy and Gossip.
* handleENR skips a record or hands it over, whatever the reason: the comparison of
  its fork digest with the configured one is not made in the model. The user agents
  of IPFS and Filecoin, which no command asks for, are left out.
* `pkg/discovery/kdht/rpc.go` is network I/O, of which the walk takes any outcome;
  the counters of `gossipsub/metrics_exporter.go` are only exported; `main.go` starts
  the one command there is.
* Some flags of the configuration are copied into fields and tested nowhere else.
