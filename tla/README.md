# eth-tracker in TLA+

A formal model of the eth-tracker service: what it does with the blocks of an EVM chain, how it
recovers from failures, restarts and lost messages, and which events reach NATS. The model is
translated from the Go code; the modules name the functions they stand for, and `PROJECT.json`
(`map`) gives the lines.

## 1. The system

The service follows a chain by number. Headers arrive over a websocket; each block number becomes a
task of a worker pool; a worker fetches the block and its receipts, filters logs, contract creations
and reverted calls by a cache of addresses, turns them into events, publishes the events to NATS
JetStream and marks the block in a bbolt file. A backfiller looks for numbers without a mark and
queues them again.

| component | state it keeps | operations | talks to |
|---|---|---|---|
| EVM node (external, `internal/chain`) | the chain | new block, reorganisation, answers, headers | syncer (headers), processor, cache |
| block database (`db`) | lower and upper bound, marks; survives crashes | get/set bounds, mark, missing blocks, cleanup, close | syncer, backfiller, processor, main |
| worker pool (`internal/pool`) | queue, running tasks | push, size, stop and wait | pushed to by syncer and backfiller, runs the processor |
| processor (`internal/processor`) | nothing between blocks | process one block | node, cache, router, database |
| realtime syncer (`internal/syncer`) | subscription | bounds at start up, subscribe, queue header, raise bound, resubscribe, stop | node, pool, database |
| backfiller (`internal/backfill`) | ticker, stop channel | initial run, tick, run, stop | database, pool |
| service (`cmd/service`) | how far start up or shutdown is | start, signal, shutdown in order, exit | all of them |
| router and handlers (`cmd/service/router.go`, `pkg/router`, `internal/handler`) | none | route, decode, update cache, publish | cache, publisher |
| address cache (`internal/cache`) | a set of addresses, in memory | bootstrap, add, remove, two look-ups | node, processor, handlers |
| publisher (`internal/pub`) and JetStream (external) | stream, duplicate window | publish | handlers |
| statistics, API, configuration | latest block; nothing; constants | report | |

What is hard here is concurrency (syncer, backfiller and workers share the pool, the database, the
cache and the stream without a common lock), failure (every call can fail; the only retry is the
backfiller's), crash and restart (only the file survives), ordering (blocks are processed in any
order on a cache that depends on order), and time (ticks, the duplicate window, the shutdown period).
`PROJECT.json` lists the hazards one by one, with the properties that watch them.

What makes each component correct: the database never loses a tracked block or a mark above the lower
bound; the pool finishes what it accepted before the database closes; the processor marks only what
was delivered; the syncer's bounds neither run ahead of the chain nor fall by more than a stale answer or a
reorganisation explains;
the backfiller finds everything below the newest block and does not flood the queue; shutdown ends;
the cache has what the indexes surely have and lacks what they surely dropped; the publisher does not
lose events.

## 2. Modules

| module | models | composed of |
|---|---|---|
| `Environment` | the node and the budget of faults (external) | |
| `BlockDB` | `db`: bounds, marks and missing blocks as numbers and sets | |
| `BoltDB` | `db/bolt.go` below that: one bucket, its keys and its cursor; implements `BlockDB` | BlockDB (INSTANCE) |
| `WorkerPool` | `internal/pool` | |
| `Processor` | `ProcessBlock`, in the grain block / event / mark | Environment, BlockDB, WorkerPool |
| `Syncer` | `internal/syncer/realtime.go` | Environment, BlockDB, WorkerPool |
| `Backfill` | `internal/backfill` | BlockDB, WorkerPool |
| `Tracker` | `cmd/service/main.go` and `syncer.New`: the whole service over restarts | Processor, Syncer, Backfill |
| `BlockLedger` | abstract specification: delivered events, processed blocks, floor | |
| `TrackerProperties` | what should hold of `Tracker`, and the refinement mapping to `BlockLedger` | Tracker |
| `TrackerProofs` | theorems about types, delivery, the refinement, the range of blocks and the end of the process | TrackerProperties, TLAPS |
| `BackfillProofs` | theorems about what the backfiller queues | TrackerProofs |
| `Handlers` | the thirty handlers and the two routing tables | |
| `AddressCache` | `internal/cache` | |
| `JetStream` | `internal/pub` and the server's deduplication | |
| `EventPipeline` | `ProcessBlock` in the grain receipt / log / handler, several workers on one cache and one stream | Handlers, AddressCache, JetStream |
| `PipelineProperties` | what should hold of `EventPipeline`, and the sequential reference | EventPipeline |
| `PipelineProofs` | theorems about the stream | PipelineProperties, TLAPS |
| `DataInduction` | lemmas: induction over numbers, recursive functions, sequences of sequences | |
| `CacheProofs` | theorems about the pipeline's types and the completeness of the cache | PipelineProofs, DataInduction |
| `DeliveryProofs` | theorems about what a marked block leaves in the stream and in the cache | CacheProofs |
| `BoltProofs` | theorems about the keys, the cursor and the refinement of `BlockDB` | BoltDB, DataInduction |
| `MCTracker`, `MCEventPipeline`, `MCBoltDB` | finite instances and scenarios | |

Definitions marked "Slip" are single mistakes of the kind a change to the code could make. They are
used by no specification; `PROJECT.json` (`mutants`) pairs each with a property that notices it.

### Correspondence of `Tracker`

- *Steps.* One action is one call on shared state. `queueRealtimeBlock` is two steps (queue and report;
  raise the bound), since workers and the backfiller run in between. `Backfill.Run` is four: bounds,
  missing blocks, one push per block, ticker. Reading both bounds is one step, because the lower bound
  is constant while goroutines run. `ProcessBlock` is a fetch, one step per event, and the mark; the
  block and its receipts are fetched in one step: the first of the two answers gives the timestamp of the
  events and nothing else, and mark, filter and MsgID follow from the second. A bbolt transaction is one step.
- *The node* has two voices: headers come over the websocket, answers over HTTP, from a replica that may
  be `RpcLag` blocks behind. `NotYet` is the attempt that finds the replica without the block; it is no
  fault and costs nothing from the budget. A reorganisation (`Reorg`) replaces up to `MaxDepth` of the newest
  blocks by as many others; their headers come one after the other and with lower numbers than before
  (`Announce`), and each becomes the upper bound in turn, without a maximum (`realtime.go:92`).
- *Start up* is `Start` (open database, create pool), `AskLatest`, `InitLower`, `InitUpper`; then main's
  goroutines run and the backfiller begins with `Run(false)`.
- *Shutdown* follows the order of main's goroutine: `StopSyncer`, `StopBackfill`, `StopPool`, `Drained`,
  `CleanupDB`, `CloseDB`, and `Exit` when `wg.Wait` returns. `SyncStop` does nothing when `Start` has
  not stored the subscription yet, as `Stop` checks for nil.
- *Faults* are crashes (also the forced exit at the shutdown timeout, and `os.Exit(1)` during start
  up), signals, lost connections, failed calls (also of `SetUpperBound` and `Cleanup`, whose errors are
  logged), and publications whose acknowledgement is lost. They share one budget, `MaxFaults`, except
  the failure of `Cleanup`, which happens at most once in each process. A handler that cannot decode a
  log is not a fault: it fails at each attempt (`Undecodable`).
- *Data.* A block is a number, a version (which content a reorganisation gave it) and `EventCount`
  events. The stream is a set, i.e. deduplication without end; `EventPipeline` has the window.
- A task carries the source that queued it; only a property reads it.

### Correspondence of `EventPipeline`

Receipts become a sequence of items in the order `ProcessBlock` visits them (logs, then a creation; a
reverted creation or call). Each item is filtered, handled and published, in three steps, so that the
cache may change in between. A handler is a record of what distinguishes it: event type, whether it
decodes arguments, whether it asks `ExistsNetwork`, what it does to the cache. Which blocks are
processed, when and how often is left open (any tracked block, also one that is done already), which
covers what `Tracker` lets the pool do. `seen` and `acked` are history, read by properties only: the
blocks that were marked when a worker began, and the events whose publication was acknowledged.

- *The chain.* `Chain[b]` is the sequence of the versions of block b, each a sequence of receipts; `canon`
  says which one is canonical. `Reorg` replaces a block and those above it by their next versions (by blocks
  with the same receipts where `Chain` has no more), which may hold the same transactions with other log
  indexes. A worker keeps the version it fetched.
- *Start up* is call by call, in main's order, while blocks come and are replaced: `BootRegistry`, one
  `BootIndex` per index, with the members it has at that moment, `BootLists` (watchlist, blacklist), then
  `BootBounds`, where `syncer.New` makes the newest block the lower bound (`floor`) unless there is one.
  Only then do workers begin, with blocks from `floor` on. `Restart` may strike at any of these steps; it
  empties the cache and keeps `floor` and the marks. One index is read in one step, though the code
  iterates in batches. `QuietStart` keeps the chain still until `floor` is set.
- *The cache.* `Entries` is what start up adds for the registry: the indexes, the proxies, and the system
  account, which `bootstrap.go:50-65` asks one of the proxies for. `Parts` is what it adds for a pool
  (quoter, token index, the tokens in it), the same at each start. `ExistsNetwork` loads two or more
  addresses one after the other and is one step.

### Correspondence of `BoltDB`

The bucket is a function from keys (sequences of bytes) to values. `marshalUint64` splits a number into
`Width` bytes, most significant first; a cursor from one key to another is the set of the keys between
them in the order of `bytes.Compare` (`NotAfter`). The two bounds are keys of other lengths, and their
place among the blocks is that of "lower" and "upper" in the code: between two numbers. Each operation
is a transaction, and bbolt runs writers one at a time. On a closed file reads and writes fail, and the
bucket stays as it is. `StoreSpec` says that every step is an operation of `BlockDB` under the mapping
that decodes the bounds and the marks.

## 3. Runs

Model values and bounds are in the `.cfg` of the same name.

| run | result | what it asks |
|---|---|---|
| `MCTracker_core` | holds | `TypeOK`, `MarkedMeansDelivered`, `BackfillQueueBound`, `OnlyExistingBlocksQueued`, `NoWorkAfterClose` and the refinement of `BlockLedger` (`LedgerSpec`), with two workers, blocks of two events, one or two newest blocks replaced at once, a start block, one fault (so that a crash may fall between two publications) |
| `MCTracker_recovery` | holds | `TickLeavesNewest`, `NoAbandonedBlock`, `EventuallyProcessed`, `ShutdownCompletes` with a lagging node, one fault, and an undecodable block 1 that takes half of each batch; block 2, announced by a header, is the one that must be processed |
| `MCTracker_reorg` | violated | `CanonicalDelivered`: a block that is replaced after it was fetched keeps its mark |
| `MCTracker_starvation` | violated | `EventuallyProcessed`: as many undecodable blocks as a batch holds |
| `MCBoltDB_bolt` | holds | `MissingAgrees`, `StoreSpec`: the bucket implements `BlockDB`, for all numbers of three bits as bounds and marks |
| `MCEventPipeline_concurrent` | holds | `TypeOK`, `NoneSuppressed`, `IndexedAddressesCached`, `RemovedAddressesGone`, `SureEventsDelivered` with two workers, any order, a replaced block whose first version cannot be decoded, a moving chain during start up, a pool and its parts, a watchlist and a blacklist, a fault, a restart |
| `MCEventPipeline_retry` | holds | `NothingLost` for one block with all kinds of receipts, worked on by two workers at once, with two failures or lost acknowledgements, retries on a half-updated cache and an expired MsgID |
| `MCEventPipeline_disorder` | violated | `NothingLost` with two blocks: the second is filtered before the first has added its token |
| `MCEventPipeline_constructor` | violated | `NoneSuppressed`: a creation and the block's first log share a MsgID |
| `MCEventPipeline_bootrace` | violated | `CacheCoversBootstrap`: an account that joins between the reading of its index and the fixing of the lower bound |
| `MCEventPipeline_reindex` | violated | `NoSurplus`: the same transactions in another order in the block that replaces the first |
| `MCEventPipeline_sharedset` | violated | `CacheFollowsIndexes`: an address in two indexes, of which one removes it |

`NothingLost` compares the stream with a sequential reference, block after block in chain order, which
the service does not follow: it is asked where one block is at stake, and fails with two. What the
service does keep with blocks in any order is `SureEventsDelivered`: a block is marked only when the
stream has each event of its version whose emitter, and for transfers also a party, is surely cached when
a worker comes to it: found by start up, or added by a block that was marked when the worker began, or by
an earlier item of the same block, and removed by nobody.

The violated properties state what the README or a comment of the repository says; `PROJECT.json`
(`findings`) quotes the lines. Other limits show when the constants of a run are changed:

- With `FirstHead = 0` and no start block the lower bound is 0, counts as unset, and moves at the next start
  (`syncer.go:63`): `Tracked` therefore speaks of bounds above 0.
- `NoAbandonedBlock` needs the slack in its antecedent: the upper bound is overwritten by the answer of a
  lagging node (`syncer.go:77`) and by the headers of a reorganisation (`realtime.go:92`), until the next
  header raises it.
- `TickLeavesNewest` needs its condition `upper > lower`: in a range of one block a tick does queue the
  newest one, whatever the comment of `Run` says; and by the depth of a reorganisation a tick's block may
  be above a bound that has fallen meanwhile.
- `NoSurplus` fails with the chain `Growth`, `MaxFaults = 1` and `MaxExpiries = 1` as well: the duplicate
  window is 20 minutes, a retry may come later, and the event is stored again.
- `NothingLost` fails in the retry run with `MaxRestarts = 1`: the block is filtered with the members the
  indexes have at the restart.
- `CacheCoversBootstrap` fails on a still chain, too, when a pool joins the index while the service runs:
  the handler caches the pool alone (`index_add.go:41`), start up also its quoter and tokens.
- The backfiller's ticker may stay at the busy interval (`ticker = "busy"`) with nothing missing and
  nothing queued, since a run that finds nothing returns before it adjusts the ticker
  (`backfill.go:114`). A run is then made every 250 ms instead of every 60 s; no property depends on it.

### Bounds

In the tracker three or four blocks are enough for a block to be processed, missed, newest, below the
newest, and outside the range, and for a batch that leaves something behind. The core run has two workers,
for the same block to be in work twice, and blocks of two events, for a partial delivery and a mixture of
versions; its one fault may be a crash between the two events. `MaxReorg = 1` lets each block be replaced
once, and `MaxDepth = 2` two blocks at once, so that a header takes the upper bound down. The new
branch of a reorganisation is as long as the old one. In the recovery run block 1 is undecodable and the
lowest, so that it is in every batch of two beside block 2, which was announced by a header: the header
may be lost with the connection, its bound with a crash, and its attempt to a replica that lags. That run
has no reorganisation and one worker; for the safety properties it asks, the theorems of section 4 have
neither bound.

The chains of the pipeline have two or three blocks, most of them a first one without receipts, at which
the tracker starts; three indexes are read, so that an index can change before and after it is read.
Numbers of three bits give keys on both sides of the keys of the bounds. Every bound is a constant with
`Max` in its name, checked in a guard. Workers are symmetric (`MCTracker_core`,
`MCEventPipeline_concurrent`); symmetry is not used where liveness is checked. All runs check deadlock: a
block may always be processed again, and the tracker may always tick or be restarted.

### Fairness

`FairSpec` assumes weak fairness of start up (an operator or supervisor restarts the process), of the
syncer's and the backfiller's steps, of each worker and of the shutdown goroutine: Go's scheduler is
preemptive and none of these steps waits for anything but its guard. A worker's steps are fair as a
whole, so that a node behind its head may answer "not found" for ever; that concerns the newest `RpcLag`
blocks, which is the newest one in the recovery run, and `EventuallyProcessed` speaks of those below it. `BackfillReturns` has strong
fairness: the `select` of `Start` chooses at random among ready cases, so a closed stop channel is not
passed over for ever by ticks. Nothing is assumed about the node, faults or signals, and `Fetch` is
enabled whenever the block exists; a node that fails for ever would exhaust the budget.

## 4. Proofs

The theorems hold for every value of the constants (any number of workers, blocks, versions, events,
faults, any lag; any chain of typed receipts; any base and width of the keys). Every invariant, action
property and refinement that a run finds to hold is a theorem but one (`NothingLost`, see "Model-checked
only"), and one theorem has a condition on the constants (`DistinctIDs`).

### The tracker

`TrackerProofs` proves

- `TypeCorrect`: `Spec => []TypeOK`;
- `DeliveredBeforeMarked`: `Spec => []MarkedMeansDelivered`;
- `ImplementsLedger`: `Spec => LedgerSpec`;
- `QueuedBlocksExist`: `Spec => []OnlyExistingBlocksQueued`;
- `ClosedMeansDone`: `Spec => []NoWorkAfterClose`;
- `SettledStaysTracked`: `Spec => NoAbandonedBlock`.

The assumptions are those the modules name (`EnvironmentAssumption`, `ProcessorAssumption`,
`BackfillAssumption`, `TrackerAssumption`; below, `CacheAssumption`, `PipelineAssumption`,
`ChainAssumption`, `BoltAssumption`), which TLC evaluates in each run.

`MarkedMeansDelivered` is not inductive: `Mark` looks only at a worker's counter. `DeliveryInv` adds
`SentPrefix` (a worker about to publish event n has had the n-1 before it stored, of the version it
fetched) and `FetchingFresh` (a worker still fetching begins with event 1). Both survive every other
step because the stream only grows and each worker owns its record. The refinement needs the same
invariant: `Mark` maps to `Process` because the block is complete; the cleanup maps to `Forget`
because it drops marks below the lower bound only; `InitLower` maps to `FixFloor` or a stutter; the
publications map to `Deliver`; all else stutters.

`OnlyExistingBlocksQueued` needs every source of a block number to be behind the head: the headers on
the wire, the header in work, the answer at start up, the upper bound and the batch of a run
(`RangeInv`). `NoWorkAfterClose` needs what main has done by each phase: the pool is closed before it
drains, and nothing enters a closed pool (`LifecycleInv`).

`NoAbandonedBlock` needs to know how far the upper bound can fall. The headers on the wire, the header in
work and the bound never descend by as much as a reorganisation is deep, and the answer at start up is at
most `RpcLag` below the bound (`HeaderInv`). A block that the bound has left behind by both (`Slack`) is
therefore left behind by the head too, and no number that is still to become the bound is below it
(`Kept`, an invariant of each such block); and the lower bound, once above 0, is not set again. Nothing is
assumed of the constants: any lag, any depth, any first head or start block. These invariants, and the two
below, are part of `TrackerProperties`.

`BackfillProofs` proves

- `BackfillBounded`: `Spec => []BackfillQueueBound`;
- `NewestLeftToSyncer`: `Spec => []TickLeavesNewest`.

The first counts. A tick goes ahead only when at most `IdleSize` tasks wait, of which the backfiller's
are a part; the run it starts chooses at most `BatchSize` blocks (`LowestOf`, the lemma
`LowestBound`), and each push moves one number from the run's set to the queue. So the sum of the two is
bounded while the run pushes (`QueueInv`); taking a task off the queue only lowers it, and the syncer's
tasks do not count. The initial run finds none of the backfiller's tasks waiting.
The second needs the same order of the headers: a run whose range ends below the upper bound stays below
it, up to the depth of a reorganisation whose headers come meanwhile, although the syncer raises the bound
at the same time (`TickInv`). With `MaxDepth = 1` it stays below it altogether. What a lagging node does
to the bound at restarts does not matter here, since no run of the backfiller survives one.

### The stream

`PipelineProofs` proves

- `AcknowledgedIsStored`: if no two events of the chain share a MsgID (`DistinctIDs`), then
  `Spec => []NoneSuppressed`. `MCEventPipeline_constructor` shows a chain without `DistinctIDs`.

What a worker comes to is an item of a version of a block of the chain (`WorkInv`), so that what it
publishes is an event of the chain. What the window remembers is in the stream (`StreamInv`), hence a
dropped message was there before, as the same event when MsgIDs are distinct. That nothing is stored twice
is not claimed: inside the window it is the server's doing, after it the service does store events again
(section 3).

### The cache

`CacheProofs` proves

- `PipelineTypes`: `Spec => []TypeOK` of the pipeline;
- `CacheIsComplete`: `Spec => []IndexedAddressesCached`.

`IndexedAddressesCached` speaks of what start up surely finds and of what processed blocks add; neither
is inductive, since a block is processed item by item, and the cache is filled call by call while the
chain goes on. `CacheInv` says how far each has come: the indexes read so far have left their lasting
members in the cache (`ReadSoFar`), then the lists (`ListsApplied`), and every item that a worker has
passed has left what it adds (`PassedNoted`). A removal disturbs none of this because only an address in
the cache can cause one: the cache stays within `Reach` (`ReachInv`), the least set that holds what start
up reads and what its own members add, so that what strangers emit does not matter, and `Kept` are the
addresses that no member of it removes.

### What a marked block leaves behind

`DeliveryProofs` proves

- `MarkedIsDelivered`: `Spec => SureEventsDelivered`;
- `RemovalsStay`: `Spec => []RemovedAddressesGone`.

Both hold for blocks in any order, any number of workers, failed attempts, lost acknowledgements, expired
MsgIDs, replaced blocks and restarts; what depends on the order of blocks is left out of the properties
themselves, address by address and event by event, and not assumed away.

The first goes item by item. `Sure` is what is cached when a worker comes to an item, whatever others do:
by `CacheInv` what start up and the blocks marked before have left, and what the worker's own items have
added. So `Filter` and `Ignore` do not pass over an item that must be published, and `Publish` leaves its
event in the stream if no other event has its MsgID (`Alone`, a condition on the event and not on the
chain). `PassedDelivered` says so of the items a worker has passed, and at `Finish` these are all. An attempt
that fails leaves nothing to carry over: the next one passes all items again.

The second is the counterpart of `CacheIsComplete`. `FinalMembers` are the members of an index that nothing
in `Reach` adds again and that no other source names. A worker that has passed the removal of one finds it
uncached (`PassedErased`), since no other item can bring it back while the service is up; and a start up
that reads the index after the block was marked finds the removal on the chain, in whatever version the
block is canonical (`FinalNotFound`).

### The bucket

`BoltProofs` proves, for every base and width and all keys of the bounds of another length,

- `BucketIsStore`: `Spec => StoreSpec`, the refinement of `BlockDB`;
- `CursorAgrees`: `Spec => []MissingAgrees`.

Both rest on two facts about keys: decoding undoes encoding (`UnmarshalMarshal`), by induction over the
bytes, the first n of which are the number divided by a power of the base (`LeadingIs`); and the order of
the bytes is the order of the numbers (`KeyOrder`), by the first byte in which two keys differ. The
invariant `BoltInv` says that the keys in the bucket are those of the bounds or as long as a number, and
that the bounds' values are numbers. The keys of the bounds may lie anywhere among those of the blocks:
the cursor meets them, and the length of a key tells them apart.

### Induction over data

The library states induction with a predicate as a parameter, which the installed provers cannot
instantiate. `DataInduction` states it with a set, the set of the numbers of which the predicate holds
(`SetInduction`, from the well-foundedness of the order of the numbers), and derives what the proofs
need: that a recursive function is the function its definition describes (`RecursionExists`), and what
the flattening of a sequence of sequences contains (`FlattenType`, `HeadAndTail`).

### Model-checked only

`EventuallyProcessed` and `ShutdownCompletes`: temporal proofs under fairness need `ENABLED`, which is out
of the prover's reach. `NothingLost` in the run `retry`: it holds of that chain and not of every chain
(`disorder`); what holds of every chain is `MarkedIsDelivered`. The properties that runs find violated have no theorem, of course; what holds of
them under conditions is proved above.

## 5. Not modelled

- Pure input and output: the RPC client's connections, configuration and logging, the HTTP API,
  statistics other than the latest block. Configuration values are the constants of the modules.
- Data no property tells apart: message payloads and JSON; timestamps of events. The code fetches a
  block and its receipts in two requests, so that a reorganisation in between can pair the timestamp of
  one version with the receipts of another; no property sees this, as the timestamp is not modelled.
- A reorganisation to a branch of another length; what a pool brings with it (`Parts`) changing between two
  starts.
- The reading of one index in batches: an index that changes while it is iterated may be read in part.
- `chain.start_block` in `EventPipeline` (it is in `Tracker`), several registries, and the expiry of
  stream messages (`MaxAge`).
- Several instances of the service on one stream, which README.md:12 mentions: they share nothing but
  the stream, so that for deduplication they are more workers; that their caches differ is not modelled.
- The lifetime of the slices that `get` returns after its transaction, and panics inside libraries: they
  need the memory of bbolt, which is not part of the repository.

## 6. Order of work

The modules were written in this order, each on those before it, and a change to the code should be
followed through them in the same order:

1. `Environment`, `BlockDB`, `WorkerPool`, `Processor`, `Syncer`, `Backfill`, `Tracker`; the ledger and
   its refinement; `TrackerProofs`, `BackfillProofs`.
2. `Handlers`, `AddressCache`, `JetStream`, `EventPipeline` with its scenarios; `PipelineProofs`,
   `DataInduction`, `CacheProofs`, `DeliveryProofs`.
3. `BoltDB` under `BlockDB`; `BoltProofs`.

Open: caches of several instances; the batches of an index iterator; timestamps; branches of other lengths.
