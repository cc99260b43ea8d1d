# A TLA+ model of the OI / funding collector

The repository collects open interest and funding rates of perpetual futures
from nine exchanges every minute, folds them into one-minute bars, and stores
them in ClickHouse. Two collectors may run side by side; a lease in Redis
decides which of them writes. This directory holds TLA+ modules for the parts
of that system in which order, failure and time matter, the TLC runs that
check them, and TLAPS proofs of the central results.

## 1. Inventory

| Component | State | Operations | Hard parts | What makes it correct |
|---|---|---|---|---|
| Writer lease (`oi-replication/failover.rs`) | `is_leader` flag, the Redis key and its lifetime | refresh-if-owned, set-NX, demote on error | answers late or lost, crash, key lost, oversleep | one leader at a time; failover in bounded time; no wedge |
| WAL, `WalBacked`, drainer (`oi-storage/wal.rs`) | directory of batch files | append, ack, list, read, quarantine, drain, reap | crash between any two steps, writer against drainer, power loss, damaged files | an accepted batch is never silently lost; a leader's backlog drains |
| Leader gate (`leader_gated.rs`) | none (reads the flag) | refuse writes on a follower | the flag changes during an await | gated batches stay in the log |
| OHLC bar and units (`oi-core/snapshot.rs`, `unit.rs`) | the bar | enrich, start, fold | samples with and without a price; equal timestamps | the bar is the OHLC of its samples |
| Aggregator (`aggregator.rs`), scheduler (`scheduler.rs`), exchange loop (`runner.rs`), WS tasks (`live.rs`) | one bar per instrument, last minute, sleep | tick, fetch, observe, two-step flush, write | two producers on one bar, overruns, failed fetches | no minute skipped, mixed, lost or flushed early |
| Funding events (`runner.rs`, `funding_sweep.rs`) | in-memory cursor, stored events | derive on roll-over, sweep from the stored cursor | two producers, follower drops, bans, restarts, what a venue calls the next settlement | each settlement stored once it is due |
| Composite repository, cache, pub/sub (`composite.rs`, `redis.rs`, `pubsub.rs`) | latest-cache, channel | write-through, publish, read with fallback | gate re-read after an await; late older bars | what is shown is kept; only another writer sets the cache back |
| ClickHouse repository (`clickhouse.rs`) | tables | insert, range, latest | lost answers, repeated inserts | replacement by key |
| Price provider (`price_provider.rs`) | quotes, base index | ingest, fallback lookup | stale quotes, order of donors | freshest admissible donor |
| WS supervisor (`common/ws.rs`) | connection, backoff, channel | connect, ping, idle timeout | silent peers, refused subscriptions, full channel | a silent feed is reconnected |
| HTTP client (`common/http.rs`) | limiter | request, classify | status, envelope and body disagree | a refused or broken answer is never taken for data |
| Adapters (`oi-exchanges/*`) | Bybit's delta state; otherwise none | fetch, decode, normalise | delta before snapshot, odd rows among good ones, unit rules | one bad row costs one instrument; the right unit and multiplier |
| Backfill (`backfill.rs`) | none | resync of past minutes | replaces history by current values | only missing rows written |
| API (`oi-api`) | broadcast ring, tokens, batches in flight | REST, WS, gRPC | lagging subscribers, reconnects, results out of order | no gap but by lag or outage, no reordering |

Interactions: every exchange loop hands its bars to the composite repository,
which calls `WalBacked` (append to the log, then the gated ClickHouse insert,
then ack) and, on the leader, the Redis cache and channel. WS tasks share the
aggregator with their exchange's loop. The drainer shares the directory with
all loops. The lease flag is read, without a lock, by the gate, the drainer,
the sweep and the publishers. The full list of hazards, each at its line, is in
`PROJECT.json`.

## 2. Plan

Done in this order, most important behaviour first:

1. `Lease` over the abstract `LeaderElection`, with `LeaseProofs`.
2. `Wal` over the abstract `DurableQueue`, with `MCWal` and `WalProofs`.
3. `Ohlc`, with `OhlcProofs`.
4. `Collector` (scheduler, aggregator, loop, WS tasks).
5. `Funding` (derivation and sweep) over `FundingFeeds`, the nine venues'
   funding endpoints.
6. `HaStorage`: two nodes and the resync tool over one ClickHouse and one cache.
7. `LiveStream`: the supervised WebSocket, the four handlers, the shard task.
8. `VenueHttp` and `Adapters`: what each venue's answers are worth.
9. `Sampling` with `MCSampling`: discovery, prices and samples over the shared
   price provider.
10. `Api`: WS fan-out, gRPC subscription, lookups, batches, the three doors.

11. Proofs of the remaining safety and action properties: `CollectorProofs`,
    `FundingProofs`, `HaStorageProofs`, `LiveStreamProofs`, `ApiProofs`, and the
    time bounds and the reaper and price results in the earlier proof modules.

12. Proofs of the last two: `OneCycleLate` in `FundingProofs`, with `SweepBudget`
    as its hypothesis, and `BestPriceFound` in `OhlcProofs`.

Every safety invariant and action property of a passing run is now a theorem;
liveness stays with TLC (section 5). Where the code does not do what its
documents say, the property says what the code does do, and the disagreement is
a run that expects a violation or an observation in section 7.

## 3. Modules

How they fit together:

    Lease  --refines-->  LeaderElection  --used as the lease of-->  HaStorage
    Wal    --refines-->  DurableQueue    --used as the log of--->   HaStorage
    VenueHttp  <-- Adapters  <-- Sampling     (answers, rows, samples)
    VenueHttp  <-- FundingFeeds  <-- Funding  (answers, events)
    Sampling, LiveStream  --samples-->  Collector  (bars: Ohlc)  --rows-->  HaStorage
    HaStorage  --publishes-->  Api

Each arrow marked by words is an interface: the detailed module establishes
what the module behind the arrow takes for granted. `Lease!ElectionSpec` and
`Wal!QueueSpec` are stated with `INSTANCE ... WITH`, checked and proved.

### Lease

`LeaderElection` is the promise: the set of leaders gains a member only while
it is empty. `Lease` is `run_loop` with one node per collector. A command is
three steps: sent (`SendTick`, which reads the flag into `held`), executed by
Redis (`Serve`), answered (`ApplyReply` or `TickError`). Time passes in units
between them (`Tick`), never beyond a node's `Deadline`: `MaxSlack` bounds
oversleeping, `MaxRequest` and `MaxReply` the two ways of a command. The state
keeps ages and remaining lifetimes rather than a clock, so the run needs no
time horizon. Faults are errors before or after execution, crashes, commands
that run after their client gave up (`stray`), and the loss of the key by Redis
(`LoseKey`). The history variable `intact` says that no key was lost since the
start: uniqueness and the refinement are claimed while it holds, the bound on the
overlap (`OverlapBound`) always.

### Wal

`DurableQueue` is the promise: a batch leaves the queue only when delivered, or
set aside by policy. `Wal` has one writer per exchange loop
(`BeginAppend`, `FinishAppend`, `WriterGate`, `InsertOk`/`InsertErr`,
`WriterAck`) and one drainer (`DrainerWakes`, `List`, `Read`, `Quarantine`,
`DrainerGate`, `DrainOk`/`DrainErr`, `DrainerAck`, and the reaper), interleaved
at every await. A batch is the timestamp in its file name. Two directories are
kept, the one processes see and the one a power loss would leave behind;
`DirectorySync` copies one to the other at any time, because the code never
asks for it. `Read` follows the two formats: a framed file is vouched for by its
CRC (a collision is not modelled), an unframed one is decoded as it is. A file
is unframed if it was left by the earlier version (`Legacy`) or if `Damage` hit
its magic; damaged bytes of such a file may decode or not (`MayPass`).
`ReadFails` is an I/O error, to the drainer the same as a corrupt file. Metrics
and the soft cap only log and are left out.

### Ohlc

Decimals are naturals; `None` is the empty option. `Enrich` applies the price
preference and the unit conversions, `StartFromSample`, `Fold`, `FoldOptional`
and `Observe` fold. The reference definition `IsOhlcOf` speaks about the
samples only. `SameRecvTs` is the sample the aggregator takes for the one that
has just started the bar, and drops. Rounding and overflow of `Decimal` are not
modelled. The model-checking module is `MCSampling`, shared with `Sampling`.

### Collector

One exchange: `NextTick` and `Wake` are the scheduler, `FetchOk`/`FetchErr`
and `ObserveRest` the REST part of an iteration, `Collect` and `Remove` the two
steps of `flush_through`, `Write`/`WriteErr` the hand-over to storage,
`WsFrame` a sample of the WS task of an instrument in `Live`. A bar is its minute
and the set of samples in it. `Write` stands for everything behind the WAL append,
whose guarantees `Wal` establishes; `WriteErr` is a failed append, which the loop
only logs.

### LiveStream

One feed, of any of the four venues that `live.rs` starts. The supervisor of
`common/ws.rs` is `Connect`, `OnConnect` (asks for one symbol at a time),
`Subscribed` (once all are asked for: no answer is awaited), the three select branches `PingTick`, `IdleFires` and
`ReadMessage`, `Deliver` into the bounded channel (which blocks the select loop
when the channel is full), `LineFails`, and the backoff (`Reconnect`, `Wake`).
The handlers decide which messages become frames (`BybitOnMessage` and the
others). The shard task of `live.rs` is `Recv`, with Bybit's merge of deltas
into the state kept across reconnects (`Merge`) and the other venues' extract and
emit-on-change, followed by an awaited `Published`. The venue numbers the values
of each symbol, so order and repetition are visible. It answers a subscription
when it likes: `VenueAccepts`, with the value, `VenueRefuses`, with a control
frame that the handlers swallow and nobody acts on, or not at all. It may also go
silent while it keeps the connection open.

### HaStorage

`runner.rs` wires `CompositeRepository` over `WalBacked` over `LeaderGatedRepo`
over ClickHouse. A node's loop is `WalAppend`, `Upsert` (gate, insert, ack),
`Regate` (the second reading of the lease flag after the await) and
`SetCacheAndPublish`; its drainer `DrainerTakes` and `Drain`; the resync tool
`Resync`, `ResyncUpsert`, `ResyncCache`, without gate or log. `CacheExpires` is
the ttl of the cache's key. Reads change nothing and are left out. A batch in `poison` is one that ClickHouse rejects for
its content each time. Lease and logs are the abstract ones. A bar shows its
author, so what the cache shows can be traced to a log or a row.

### VenueHttp, Adapters, FundingFeeds

State-free modules about answers. `VenueHttp` has the classification of
`common/http.rs` and the envelope checks of the venues: which HTTP status and
which code in the body make an error, and of which kind. `Adapters` says for
each of the nine venues which rows of discovery, open interest and prices are
accepted, in which unit, with which multiplier and which preferred price, and
which bad row costs more than itself. `FundingFeeds` does the same for the
ticker and the history of funding. A field is `"ok"`, `"bad"` or `"none"`, as
far as the adapters tell these apart.

### Funding

One instrument on two nodes, of any venue. A slot is ten minutes; in each slot
every node polls, and sweeps when its sleep is over. `PollFetch` moves the in-memory
cursor whether or not the derived event is written later (`PollWrite`).
`SweepWakes` reads the gate and starts a sweep over all instruments, which takes
up to `SweepTime`; in its course this instrument has its turn: `SweepVisits`
looks the stored cursor up and applies the due-gate, `SweepFetch` gets the
history, `SweepWrite` reads the gate again. The rest of the sweep then goes on
without it (`SleepAfterSweep`). A ticker has the upcoming settlement and the one
after it; eight adapters pass on the first or nothing, OKX's the second. Rates
and mark prices are left out.

### Sampling

The market-data half of `run_exchange_loop` for one venue: `Discover`,
`FetchPrices` (a failed call leaves the old quotes), `FetchOi` with
`Enrich` and the two-pass fallback of the price provider (`PriceWithFallback`),
`Rediscover`. `Donor` instruments of other loops register and quote at any time.
Times are ages relative to the minute sampled, so catching up (`lag`) is part of
the model. `Grade` and `Usable` are the reference definition of the lookup:
`BestPriceUsed` compares the code's early exits and passes with it. `MCSampling`
puts `Ohlc`, where a sample is folded, beside `Sampling`, where it gets its price:
the two share no state, so a behaviour takes the steps of one `half`.

### Api

One task relays Redis pub/sub into the broadcast ring
(`BroadcasterSubscribes`, `BroadcasterSends`, `RedisStreamEnds`); a WS client
reads it at its own pace (`WsRecv`, `WsLagged`, `WsFlushed`, `WsCloses`). A gRPC
subscriber has its own subscription and channel: the call returns at once
(`RpcSubscribe`), the task's SUBSCRIBE takes effect later or fails
(`RpcSubscribed`, `RpcSubscribeFails`), then `RpcForwards` and `RpcClientReads`
move the snapshots until `RpcStreamEnds`; the client may call again. The history
variable `missed` has what was published while the broadcaster was away, `skipped`
what a WS client lost when the ring turned over.
`RestGet`, `GrpcCall` and `Health` give the outcome of every lookup; `RangeBatch` and
its siblings parse a batch as a whole and run its items with bounded
concurrency (`Refill`, `BatchItemDone`), and `BatchAnswers` renders each result
as rows or columns. The three doors (`RestAuthMiddleware`, `WsHandlerAccepts`,
`GrpcAuthInterceptor`) are separate, as in the code: the middleware lets `/ws`
pass and the handler checks the token itself.

## 4. Runs

| Run | Checks | Result |
|---|---|---|
| `lease` | one leader while the key is kept, failover and overlap bounds, inductive invariant, refinement, stable leader | holds |
| `wal` | no silent loss, reaper, inductive invariant, refinement | holds |
| `wal_power` | what was durable survives power losses; the backlog drains | holds |
| `collector` | no minutes mixed; every fetched minute of a polled instrument stored, complete; no hole in its history but failed fetches and writes | holds |
| `collector_live_row` | complete rows beside a WS feed | violated: two producers replace each other's bar |
| `funding` | each settlement stored within one sweep cycle despite a fault, none early (eight venues) | holds |
| `funding_okx` | none early, for OKX | violated: the adapter passes on the settlement after the upcoming one |
| `stream` | the view of an accepted subscription equals the venue's value when nothing is underway, each value once and in order, Bybit's mark price kept across deltas; after repeated failures back to an open line with everything asked for | holds |
| `stream_silent` | a silent peer is reconnected | violated: each ping re-arms the idle timeout |
| `storage` | what the cache shows is kept somewhere, only a poisoned batch holds a log up, only another writer sets the cache back | holds |
| `sampling` | every sample takes the best usable price; every listed perpetual is sampled in the end; bar against reference, price of the close | holds |
| `api` | subscribers' view of the stream, batch order, WS clients resume after an outage | holds |

The three runs that expect a violation state what a document or a comment says;
the findings in `PROJECT.json` quote it. They use a small instance with at
most one fault.

### Bounds

* `lease`: the shipped proportions (2.5 s per unit: ttl 6, refresh 2) and two
  faults: a lost answer followed by a crash is the longest scenario that
  matters, since every fault is absorbed before the spans are measured again.
* `wal`: two writers, two batches, two faults; two batches are enough for
  head-of-line order and for a writer racing the drainer on its own file while
  another is pending. The first may be of the unframed format. `wal_power` keeps one writer, since it also checks
  liveness; `WriterSymmetry` is used only in `wal`, which checks none.
* `collector`: two slots a minute, iterations overrunning several minutes, one
  polled instrument and one with a WS feed.
* `funding`: six slots between settlements (hourly), a sweep every three, a
  cooldown of 24 and a horizon of 42, sweeps of up to one slot (the code spaces
  its calls by a second, which makes 10 minutes for 600 symbols): the whole
  cooldown fits, with settlements before and after it. One fault: two can open a gap for good (section 7).
* `stream`: one unit is 20 s; ping 1, idle 2 (20 or 25 s and 60 s in the code: what
  matters is that the first is shorter), one symbol, a channel of one
  frame, one new value, and one message unread on the wire before the venue sends
  another. A channel of one is full at the first frame the shard has not taken.
  One symbol suffices, since symbols share only the connection. Two faults, beside
  which the idle timeout may end a connection any number of times: the backoff
  doubles to its cap and the line fails again there.
* `storage`: two nodes, two minutes, of which the first may be poisoned, one
  resync, one handover, one fault. Two minutes give an older and a newer bar for
  the one key of the cache.
* `sampling`: tolerance of one minute, lag up to two, one fault, two donors
  (Bybit's BTC/USDC and Aster's BTC/USDT), so that both passes, both spellings
  of the coin and a stale quote happen. For the bar, three amounts and four
  samples cover every relation of a new value to low and high.
* `api`: two instruments, a ring of two, a channel of one, batches of up to three
  items with two at a time, four snapshots (twice the ring), two faults.

Deadlock checking is off where a run ends at the bound of its clock, minutes,
snapshots or samples; `lease` checks it, since its loops never stop.

### Fairness

Faults are never fair and always bounded.

* `Lease!FairSpec`: time passes, the runtime polls the loops, Redis answers, and a
  stopped collector is started again (`restart: unless-stopped` in the compose
  file).
* `Wal!FairSpec`: the runtime keeps polling the drainer and the writers, and
  every insert returns, with success or an error; the lease and ClickHouse may
  flip for ever, so `BacklogDrains` assumes explicitly that they settle.
* `LiveStream!FairSpec`: time passes, both tasks are polled, publishing returns
  (with an error when the connection to Redis breaks). The select branches are strongly fair, since `tokio::select!` picks among
  ready branches at random and so neglects none for ever. Nothing is
  assumed of the venue: it need not answer a subscription, nor push anything.
* `HaStorage!FairSpec`: loops and drainers are polled, their calls return, a standby
  takes a free lease (which `Lease` establishes), Redis expires keys.
* `Sampling!Fairness`: calls end within the HTTP timeout, minutes pass, and the
  refresh, which is due every six hours at the end of an iteration, is strongly
  fair.
* `Api!FairSpec`: tasks are scheduled, queries end, a WS client reads or is evicted
  by the send timeout, a gRPC client reads.

## 5. Proofs

Every theorem holds for every value of the constants that meets the `ASSUME` of
the module; the capacities, node sets, intervals and fault bounds of the runs
play no part. Further hypotheses are named below.

* `LeaseProofs`: `TypeCorrect`; `LeaderUnique` and `LeaseImplementsElection`
  under `LeaseBudget` alone (answer + refresh interval + oversleep + request fit into
  the ttl). `AtMostOneLeader` is not inductive: nothing in it
  says that the key backing a flag outlives the time to the next refresh.
  `LeaseInv` (`LeaseInvariant`) adds, per place of the loop, the lifetime still `Needed`, that a
  positive answer on its way is as good as the flag, and that a leader's
  refresh is never refused; it holds while `intact` does, and since a lost key
  ends `intact` for good, the induction needs nothing of the states after it.
  `FailoverBounded` needs no budget: `LoopInv` bounds each timer by the
  deadline of its place, and `GapInv` says that while nobody leads some node is on
  its way to a command that ends the gap within the bound. `OverlapBounded` needs
  the budget but not an intact key: `OverlapInv` says that every claim is backed by
  the key or about to be refused, within one refresh cycle and one answer.
* `WalProofs`: `TypeCorrect`; `WalKeepsAccepted` and `WalImplementsQueue` under
  `~PowerLoss`, from `WalInv` (`WalInvariant`: an acking task's batch is in ClickHouse; an
  appending writer's batch is its own); `WalKeepsSynced` without hypothesis,
  from `SyncedInv`, which says of the directory on disk what the property says
  of the visible one; `ReapsOnlyAged` without hypothesis. Damage, unframed files
  and read errors are in all of them: a batch set aside counts as kept, and so
  does one that was stored damaged (section 7).
* `OhlcProofs`: `BarCorrect`, for every sequence of samples: what the fold keeps is
  the reference definition itself, extended by one position; `PriceCorrect` on top
  of it. The module also holds `BestPriceFound`, about
  where the price of a sample comes from; it reaches `Sampling` through
  `INSTANCE`, as `Loop`, and needs of its constants only
  `SamplingAssumption`, in particular that donors are on one of the nine
  exchanges. `FallbackFindsBest` is the argument: the first stage that finds a
  quote finds those of the best `Grade`, because the instrument's own quote is
  graded before its quote family and that before the rest, and each pass stops at the
  first exchange with a fresh quote. `ProviderInv` says what the lookup may
  rely on: that whatever is listed or registered has an age and an exchange. Several
  quotes of one exchange and family share a grade, and the model
  allows any of them; the code takes the one registered first.
* `CollectorProofs`: `BarsUnmixed`, `FetchedReachesStore`, `RestRowsComplete`, and
  `NoHoles`, which composes them over the whole history: every minute since the
  first tick was fetched or its fetch failed, a fetched one is stored or its
  write failed, and its samples were taken after its deadline. `CollectorInv` ties
  the loop's place to the aggregator: which minute the bar of a polled
  instrument can have at each step, that what was fetched is in the bar, in the
  flush or in the store, and that a fetch starts after its deadline.
* `FundingProofs`: `StoresOnlySettled`, for `"okx" \notin Venue` as everything in
  this module (`funding_okx` shows why). The property alone says nothing of what is on
  its way: `HeldInv` adds that a derived event has settled, that a sweep's batch
  has, and that no cursor lies beyond the next settlement. It rests on lemmas
  about what `Derive` and each venue's `History` return. `OneCycleLate` is
  `StoredWithinOneCycle` while there has been one fault at most (section 7 says what two
  can do), under `SweepBudget`: a whole sweep cycle, the
  sleep and the time of the sweeps around it, fits between any two settlements, the due-gate
  opens no later than the next settlement, and a cooldown lasts at least a
  cycle. The code's 30 min, 50 min and 4 h satisfy it with settlements an hour
  apart or more and sweeps of less than 15 min. The property says nothing of how a missing settlement
  will reach the table; `CycleInv` does. `SweepCovers`: what is missing is newer than
  what is stored, and the leader, or whoever takes the free lease, has a sweep
  ahead of the deadline that will see it. `PollsCover`: nothing older than the
  current slot is missing, and the cursor of every node is such that the
  leader's poll derives the rest. Before the fault both hold; the fault takes
  one of them away and the other holds from then on. A venue that announces nothing
  has `SweepCovers` alone, with the cooldown as slack after the
  fault.
* `HaStorageProofs`: `ShownBarsKept`. `PlaceInv` says that a loop, drainer or
  tool under way holds a real minute, `PendingKept` says of a bar about to be cached what
  `ShownIsKept` says of one in the cache. `OwnBarsNeverSetBack` rests on
  `ShownReached`: a collector has shown no minute it has not reached, and its
  minutes never go back, restarts included.
* `LiveStreamProofs`: `NoValueLost`, `ValuesCountedOnce`, `MarkNeverForgotten`.
  Channel, frame in hand and wire are one queue, `Pipe`. `PipeInv` says that the
  values of a symbol do not decrease along it, lie between the shard's value and the
  venue's, and that the newest value of an accepted
  subscription is in it or has arrived.
  `EmittedInv` equates the value last emitted with the shard's; `MarkInv`
  remembers the mark. Lemmas about queues (push, take, drop, cut) carry the
  induction.
* `ApiProofs`: `BatchesInOrder` rests
  on `BatchInv` (a slot is filled exactly when its query has ended, with the
  entry of its own item) and on the round trip of both formats (`EntryDecodes`).
  `SubscribersInOrder` rests on `SubscriberInv`: ring and relay queue are an
  increasing part of what was published, and the rest of it is in `missed`; of the
  ring up to where it is, a WS client has what its filter passes and was
  published since it came, or has skipped it; a gRPC subscription's queue is the
  tail of the stream and what was forwarded is the filter of the part before.

`CollectorProofs`, `FundingProofs`, `HaStorageProofs` and `OhlcProofs` also prove
the `TypeOK` of their modules.

Only model-checked is liveness: `EventuallyStableLeader`, `BacklogDrains`,
`EventuallyCaughtUp`, `HeldUpOnlyByPoison`, `ListingsSampled` and
`WsResumes` assume fairness, which is out of the prover's reach.

## 6. Not modelled

* Configuration, metrics and logging: plain data and counters.
* JSON field names, URLs, paging, SQL text and row mapping, rendering of numbers
  and times, TLS and listeners: no behaviour of their own.
* `Decimal` rounding and overflow.
* The request limiter of the HTTP client, which only delays.
* The cached funding intervals of KuCoin and MEXC, which change how an event is labelled
  and not whether it is stored.
* Binance's WS feed, `flush_all` of the aggregator, the `is_closed` exit of the
  supervisor: nothing starts, calls or reaches them.
* Writes of instrument metadata and of the funding minute: nothing in the
  program reads them back into a decision.
* The fan-out of the funding sweep over instruments: they share no state.
* The read path of cache and ClickHouse (`latest`, `range`): it changes nothing.
* Answers of Redis to the lease beyond `LeaseBudget`: the code sets no timeout, so
  they can happen, and then no property of the lease holds.
* `backup.rs` is a placeholder.

## 7. Observations

What modelling brought up beside the three findings. Each is visible in the model
as a guard, a fault or a bound.

Lease. `refresh_interval < ttl` (`failover.rs:53`) alone does not make the leader
unique: an answer applied late enough leaves two nodes believing they lead.
`LeaseBudget` is sufficient. `docs/replication.md:144-146` says that both nodes follow
after the key is lost; in the code the old leader's flag stays set until its next
refresh is answered, while a standby's `SET NX` succeeds at once, and
`OverlapBound` says for how long. Lines 51-52 and 155 give the ttl (15 s) as the failover
time; a standby tries only every `refresh_interval`, so it is 20 s plus delays
(`FailoverBound`).

WAL. The directory is never fsynced (`wal.rs:115`), although `wal.rs:76-78`
speaks of a durable filename: a power loss can take an accepted batch, and
`SyncedSurvives` is what remains true. Dotfiles left by a crash during append are never removed.
`README.md:97-99` says of the CRC "Reader rejects with quarantine on mismatch [...]
Catches silent corruption before it reaches ClickHouse": damage to the magic itself
makes the file an unframed one (`wal.rs:284`, `301-308`), and what then decodes is
inserted. `wal.rs:532` calls what `drain_once` renames aside a "Corrupt file": any error
of `fs::read` does it (`wal.rs:280-282`, `531`), so an intact batch may end as a
`.corrupt` file that nothing delivers. That is why a quarantined batch counts as kept
in `NoSilentLoss` and not as delivered.
`ShownIsKept` has to leave out bars whose author was told that nothing was kept: the
cache is set and the channel fed even when the primary returned an error.

Storage. `--bucket` of resync is not aligned to the minute. Queries without `FINAL` show
repeated rows until ClickHouse merges them (`traits.rs:107-108`). The drainer
never touches cache or channel. `redis.rs:1` calls the cache one of "the most recent
`OiSnapshot` per instrument"; the SET is unconditional (`redis.rs:95`), so a new leader
that lags, a deposed one whose SET comes late, or the resync puts an older bar over a
newer one. `OwnBarsAdvance` is what remains true.

Funding. With two faults a hole can stay: a sweep that missed a settlement is
followed by a derived event that moves the stored cursor past it
(`funding_sweep.rs:138`; the comment at 150-152 says the next sweep resumes). `runner.rs`
calls the derivation "live + lag-free for EVERY venue"; Hyperliquid and MEXC
announce no next settlement, so there only the sweep stores events
(`Unannounced`). For OKX, besides the finding, the due-gate compares the clock
with an event dated in the future, so the sweep skips the instrument.

Streams. A refused subscription is swallowed as a control frame and asked for again only after a
reconnect (`hyperliquid/ws.rs:112-117`, `bybit/ws.rs:118-121`, `okx/ws.rs:110`). The backoff is never reset after a good connection. Dropping the
supervisor's handle does not stop its task (`ws.rs:81`). Only WebSocket pings are sent, no
ping of the venue's own protocol. A first discovery that fails ends the
exchange loop, or the live task, for ever (`runner.rs:416-419`, `226-232`), and the
live subscriptions are fixed at start-up.

Sampling. Rediscovery never registers new instruments with the price provider, so
they get fallback prices but give none. One bad price fails Binance's whole
price batch. Bitget, MEXC and KuCoin can never be donors. A native price in a
quote other than the dollar is taken as dollars. No caller retries, although
`http.rs` leaves that to the caller.

API. What is published while the broadcaster has no Redis connection, at least
two seconds after each failure (`ws.rs:99-101`), never reaches the WS clients, and
they are not told. A WS filter of unparsable items
only is the empty filter, which means everything. A gRPC subscription ends with its
Redis stream and is not resumed. `docs/terminal-integration.md:289-291` says "The
server's `Subscribe` re-issues the latest bar on reconnect, so no manual catch-up logic
is needed"; the call only attaches to pub/sub (`grpc.rs:131-146`), and a bar published
while the client was away is not sent to it. `rest.rs:569-571` says "A per-item `error`
field carries parse / repo failures so one bad input doesn't kill the whole batch"; an
item that does not parse answers 400 for all of them (`rest.rs:644-652`), and only failures of the
repository are per item, which is what `BatchInOrder` covers.

## 8. Running

    tlc -config Lease.cfg Lease          # any run: see PROJECT.json
    tlapm LeaseProofs.tla                # likewise the other *Proofs modules
