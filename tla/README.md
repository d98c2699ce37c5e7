# TLA+ models and proofs for potato

potato is a Go tool box: packages that wrap the clients of message brokers,
databases, caches and clusters. Many packages are thin (they format, convert or
forward a call to a library). The ones with logic of their own hold
connections, goroutines, caches and locks for the application, or take several
requests for one operation. This directory models these, checks the models with
TLC and proves the properties that matter most with TLAPS. `PROJECT.json` maps
every definition to the lines it translates.

## The system and its hard parts

| part | state it keeps | operations | what is hard |
|---|---|---|---|
| `rabbitmqx`: connection | `conn`, `closeConnNotify`, `isReady`, `connMu`, `closed`, `closeCh` | connect, daemon and caller reconnect, Close | a daemon and callers that reconnect at the same time; a dial in progress when Close runs; goroutines that must end |
| `rabbitmqx`: publishing | two channel pools, a lock per queue, confirmations in flight | pushWithRetry over four push cores, confirmOne | late confirmations; errors and panics while a channel and a lock are held; the order in which pool and locks are taken |
| `rabbitmqx`: consuming | `cancelChan`, one goroutine per Consume | Consume, CancelQueue, Close | channels closed twice, left over or closed before anybody listens; a goroutine blocked on the application |
| `rabbitmqx`: declarations | `opCache`, `declareMu` | Declare/Bind/UnBind/Delete | the cache and the broker change in two steps, and the answer of the first may be lost |
| `rabbitmqx`: bodies | a body that is filled, then handed over, perhaps again | setters, Validate, the pushes | setters in any order; defaults that `Validate` writes into the body and that stay there |
| `gormx/migrate`: lock | one table row, or a session of the database | Lock, Unlock, renew | stale takeover, lost statements, crashes, dying sessions |
| `gormx/migrate`: runner | `schema_migrations`, databases and schemas | Run, EnsureDatabase | crashes in a file, several releases, "already exists" counted as done; services that create one database at once, through pools with fixed names |
| `goredis`: delay queue | a set of queues, a sorted set and a list per queue, `op.mu` | PushDelayMessage, GetMessage, daemon, Close | several daemons, repeated commands, crashes between two registrations, four packages that may share a Redis |
| `kafkax`: consuming | `readers`, `cancelChan`, offsets | Consume, ConsumeWithHandler, CancelConsume, Close | two maps that change one after the other; commits that cover earlier messages |
| `kafkax`: producing | `writers`, `writersMu` | PushBatch, getWriter, Close | one writer per topic; a push that outlives Close |
| `rocketmqx`: consuming | `consumers`, `chClosers`, `cancelMu` | Consume, ConsumeWithChannel, CancelConsume, Close | workers that send on a channel that is being closed |
| `streams` | channels between stages, a goroutine per stage and per worker | sources, Walk, Limit, Concat, ..., terminal operations | stages that stop early, functions that panic, senders that stay blocked |
| `obsx` | clients by name, `closed`; the buckets | renaming, deleting, downloading, uploading objects and directories | many requests in one operation, any of which may fail; a listing read by another goroutine; bodies that are sent again |
| `es` | indices, aliases, scroll contexts, tasks; builders | index and document operations, copies, scrolls, query builders | look first, act afterwards; copies that take long; answers that get lost; pointers that builders hand out and go on changing |
| `httpx`, `ral`, `grpcx` | clients and connections by service, names taken | RAL, Do, PostForm, PostMultipart, GetServiceConn | two first calls at once; an attempt that is repeated with a body already read |
| `gormx`, `mongo`, `cron`, `bufferx` | pools, clients, collections, jobs, values, by name | InitConfig, Close, GetRepository, RegisterJob, Do | what is made twice, replaced or lost; functions that panic under a lock |
| `jodatime` | none | Format, GetLayout, Parse | two loops over the same pattern that must agree |

The parts meet in few places. A push and a consumer of `rabbitmqx` share pools
and queue locks (`RmqPublish` has both); the pools call the connection's
`createChannel` (which succeeds or fails in `RmqPublish`, and is the subject of
`RmqConnection`); a push declares what its body names (`RmqBodies`) through
`opCache` (`RmqDeclare`). `migrate.Run` executes under the lock (`Migrate` uses
the abstract `MigrationLock`, which both lockers implement), and
`EnsureDatabase` opens its pools with gormx's `InitConfig` (`Instances`). Every
Close of an operator acts on all of the operator's parts, so every module has
the steps of Close that concern it. All other packages are listed in
`PROJECT.json` (`components`) with the reason why they have no model.

## Modules

Every module of a component has one action per step of the code. A step is what
a goroutine does between two points at which another one can get in the way (a
lock, a channel operation, an access to a shared map, a call of a library or of
a server), and is named for the function or statement it stands for. What
brokers, databases, servers and client libraries do is part of the model as the
code relies on it; those definitions are marked external in the map.

| module | models |
|---|---|
| `RmqConnection` | `connect`, `tryReConnect` in both modes, the connection part of `createChannel` and `recheck`, `Close` |
| `RmqPublish` | `pushWithRetry`, the push cores, `confirmOne`, `BorrowChannel`/`PushChannel`, `QueueLockManager`, the part of `Consume` that takes a channel and the queue lock, `Close` |
| `RmqConsume` | `Consume` and its goroutine, `CancelQueue`, `isClosedChan`, `Close` |
| `RmqDeclare` | `DeclareExchange`, `DeclareQueue`, `BindQueue`, `UnBindQueue`, `DeleteExchange`, `DeleteQueue` and `opCache` |
| `RmqBodies` | the five bodies of `body.go`, their setters and `Validate`, what each push and `Consume` declares for them, and where the broker puts a message |
| `MigrationLock` | what `Locker` promises: one instance migrates at a time |
| `TableLocker`, `AdvisoryLocker` | the two lockers; each is shown to implement `MigrationLock` |
| `Migrate` | `Run`, `runMigrationFiles`, `execFile`, `resolveVersion` and what it reads from names and headers: which files are executed and recorded |
| `EnsureDatabase` | `EnsureDatabase` of several calls in several processes, with what each dialect can do |
| `RedisDelayQueue` | `PushDelayMessage`, `PushMessage`, `GetMessage`, `tryMigrationDaemon`, the Lua script, `Close`, in the packages `goredis`, `single`, `cluster` and `sentinel` |
| `KafkaConsume` | `consume` and its goroutine, `getReader`, `committer`, `ConsumeWithHandler`, `CancelConsume`, `Close` |
| `KafkaPush` | `getWriter`, `PushBatch`, `Close` |
| `RocketConsume` | `Consume`, `ConsumeWithChannel` with handler and closer, `CancelConsume`, `Close` |
| `Streams` | a pipeline: source, stages, terminal operation, and the goroutine that drains what is left |
| `ObsOperator` | the registry of clients; `RenameObject`, `DeleteDirectory`, `ExistDirectory`, `ListAllObjects`, `FGetDirectory`, `FPutDirectory`, `PutObject` with retries, the operations on one object, and the goroutine of `ListObjects`; the buckets of several endpoints, and the trimming of directory names |
| `EsOperator` | indices, aliases, `Reindex` and `ReindexAsync` with their tasks, single documents, `Bulk` and `ScrollEach` of several callers, with answers that get lost |
| `EsSearch` | `XQuery`, `XBoolQuery` and `XRequest` as pointers to what they build, and `SearchDocuments` |
| `ServiceCalls` | `ral`'s calls, `httpx`'s and `grpcx`'s clients on first use, bodies that may be readers, attempts that are repeated |
| `Instances` | `dbMap` of gormx with the pools of sources and replicas, the client, collections and repositories of mongo, `jobMap` of cron, `Once` of bufferx |
| `JodaTime` | `Format`, `GetLayout` and `Parse`, with the layouts of Go's `time` |
| `OnDemand` | what is made on first use and kept under a name: `RmqDeclare`, `KafkaPush`, `ServiceCalls` and `Instances` side by side |
| `Lockers` | what `Run` may lock with and what the lock protects: `TableLocker`, `AdvisoryLocker` and `Migrate` side by side |
| `Consumers` | what an application cancels by name: `RmqConsume` and `RocketConsume` side by side |
| `Services` | what a service asks of shared servers in several requests: `EnsureDatabase` and `EsOperator` side by side |
| `RmqConnectionProofs`, `RmqPublishProofs`, `ConsumersProofs`, `LockersProofs`, `RedisDelayQueueProofs`, `ObsOperatorProofs`, `CachesProofs` (of `OnDemand`), `SafetyProofs` (of `KafkaConsume` and `Services`) | theorems and their proofs |
| `MC...` | constants for TLC. `MCSafety` holds several components |

`OnDemand`, `Lockers`, `Consumers`, `Services` and `MCSafety` hold components that share no state (of the
lock the runner sees what `MigrationLock` promises): a behaviour is one of a single
part, chosen in the first state, and the properties are stated for the part
they are about. (The parts of `MCSafety` that have no proofs keep their state in the same
variables, `s1` to `s12`, which keeps TLC's states small.) The first three leave all constants open, so that one module of
proofs covers their parts for all values. The part of `Consumers` that runs is a
constant, so that each of the two runs is of one part. `Migrate` keeps the files of a run as a
set, of which `left` is what its loop has not reached; `Before` is the order in
which `loadMigrationFiles` sorts them.

Conventions. A goroutine's program counter is `pc` (or `at`), its local
variables are functions of the goroutine. Objects that calls create (cancel
channels, readers, writers, clients, pools) are named by the call that creates
them. Variables marked "history" record something for a property and are read
by no action (`overlap` in `KafkaConsume` and `RocketConsume`: calls of the same
operator overlapped; `gone` in `RmqDeclare`: what was deleted between a
declaration and the store into the cache, or by a deletion whose answer was lost;
`stray` in `Instances`: pools that the code never gets hold of). Operators commented "Mutant of X"
are wrong versions of X. They are not part of `Next`; each property has one
that breaks it, which shows that the property says something about the code.

## Runs

`PROJECT.json` lists the runs; each has a configuration of its name. Type
invariants are the first conjunct of one invariant of a run, or are proved
(see Proofs) and left out of the run.

| run | instance | distinct states | what it shows |
|---|---|---|---|
| `RmqConnection` | daemon, one caller, Close, 3 connections, 2 attempts | 85 k | `ReadyIsWatched`: `isReady` promises a connection that is watched. `ClosedForGood`: no dial that raced with Close leaves an open connection. `DaemonExits`, `RequestsEnd`: no goroutine stays in the retry loop or on `connMu` |
| `RmqPublish` | two confirmed pushes (one delayed), each binding the other's queue, a consumer, two confirm channels and one plain one, 2 attempts | 2.7 M | `ConfirmedIsStored`: a late confirmation is not taken for that of the next push on the channel. `NothingHeld`: every error path gives channel and lock back, a panic over a nil connection keeps one slot and no lock, and retries are bounded. `NobodyWaits`: pools and queue locks are never waited for in a circle, while panics have left a confirm slot. `NobodyIsStuck`: who waits for nobody has a step, also when the broker confirms nothing |
| `RmqConsume` | two consumers of a queue, two CancelQueue calls, Close, buffer of one | 185 k | `CancelChanIsHeard`: the cancel channel in the map is one that somebody listens to, and none is closed twice. `ConsumersStop`: Close, and a closed cancel channel, end the consumer |
| `Lockers` | two instances on the lock table, threshold of 4 ticks, at most 3 lost renewals in a row; three on the advisory lock; two old releases and a new one with six DDL files, seeds and leftovers | 42 k | `HolderIsFresh`, `ImplementsLock` of the lock table; `AdvisoryImplementsLock`; `WaitsEnd`: a dead owner's row is freed (`StaleIsFreed`) and a wait for the advisory lock ends with its context (`LockEnds`); `AppliedInOrder`, `RecordedIsExecuted` of the runner |
| `RedisDelayQueue` | two processes of four combinations of packages, one caller, one queue, one message per script; crashes with one message, two messages without | 221 k | `NoDuplicate`, `EarliestFirst`, `ReadyDaemonExits`, `DelayedIsDelivered` |
| `RocketConsume` | two ConsumeWithChannel calls, CancelConsume, Close, one worker, capacity one | 331 k | `NoSendOnClosed`, `Reachable`, `CancelEnds`, `ChannelCloses` |
| `Caches` | two goroutines on: an exchange, a queue and a key; a Kafka topic; an HTTP, a gRPC and an unknown service; two names of pools, collections or jobs and a Once | 273 k | `OneOfEach`: who meets on the first use makes one thing, and what is open stays in reach, the exceptions below apart. `CachedExists`: a cached object exists, but for the two cases named in the definition. `BodyIsWhole`: a repeated request of `Do`, or with a body that is no reader, is the same request. `NothingStoredAfterClose`, `PushEnds` |
| `ObsOperator` | two callers on the buckets of two endpoints, six keys each ("a//y" and "a/x" among them), every operation of each, one client that may change or go, one caller whose context may be cancelled, listing buffer of one, two attempts | 426 k | `NothingLost`: no failure makes an operation lose or tear an object. `AllListedWhileAlive`: an operation on a directory that succeeds has missed nothing, unless its context was cancelled. `ListersEnd`: no listing goroutine stays blocked |
| `Safety` | parts without fairness, see below | 3.4 M | `CanBeCancelled`, `CommittedIsGiven` (Kafka), `BodiesArrive` (bodies of RabbitMQ), `PipelineEnds` (streams), `FormattedIsParsed` (jodatime), `Ensured` (EnsureDatabase), `EsAnswers`, `SearchIsAsked` (Elasticsearch) |
| `KafkaHandlerCommit` | one consumer with a handler, two messages | stops at the counterexample | violation of `CommittedIsHandled` |
| `RmqSecondKey` | two queues, five setters | stops at the counterexample | violation of `BindingsAreMade` |
| `ObsCancelledListing` | as `ObsOperator`, both contexts may be cancelled | stops at the counterexample | violation of `AllListed` |

The parts of `Safety`: one plain Kafka consumer and one with a handler,
CancelConsume, Close, two messages, the second one without a value; one body of each kind after another, two
queues, two names of arguments, four setters and two uses; every pipeline of up
to two stages over four items, sequential or with two workers; 28 patterns and
four dates; two calls of EnsureDatabase in one or two processes for three
databases of two servers, all six dialects; two callers of the Elasticsearch
operator, two indices, two documents, two calls; every sequence of four calls on
the search builders.

Why these bounds. Races of a check with a later use need two actors on the same
key and, where a successor can be hurt, a third; each instance has two
producers or consumers of one key, plus whoever closes or cancels. Retries need
two attempts for a first and a repeated one. Buffers and pools have the smallest
size at which they are full while somebody is waiting. Two messages are enough
for a commit to cover another message, and for an order; in `Safety` the commit of a
message without a value would cover one that was not given. `RmqConnection` has
three connections, so that two reconnects can follow the first connect;
`TableLocker` has the longest run of lost renewals that is safe.
`AdvisoryLocker` has `Blocking = FALSE`, the databases whose waits are cut into
55 s; its properties hold with PostgreSQL's `Blocking = TRUE` too, which only takes
the time-outs away. The ages in `TableLocker` stop one above the threshold, as
the code compares with it only. `Limit` in `RedisDelayQueue` is the 100 of the
script, `MaxExecs` bounds how often a message is added. Four setters (`MaxCalls`)
are what a body needs for an exchange, a queue, an argument and one of them
again; four calls of the builders (`MaxAsked`) for a query, a bool in it, a
clause of that and a failure. A stage of a pipeline meets one before it and one
behind it in two stages, and blocks with four items and buffers of one or two.
The dates of `JodaTime` lie in 1969 to 2068, the years that "yy" can tell apart;
they include a leap day, midnight, noon and negative and odd offsets.
`MaxMade` in `Instances` allows one more thing than there are callers, so that the pools of
replicas open beside two of `InitConfig`. `ObsOperator` has two endpoints, which a client that is
replaced needs, and "a//y" beside "a/x", which trimming tells apart; `Hasty` are the callers whose
context may be cancelled: one in the run, both in `ObsCancelledListing`. Symmetry
is used for the interchangeable confirm channels of `RmqPublish` only, a run
without liveness; `MCSafety` lets the first names that its bodies, its databases and
its Elasticsearch calls use stand for any others (`FirstNames`, `AllInit`, `FirstCall`). `CHECK_DEADLOCK FALSE` stands where the system really ends.

### Fairness

Goroutines that can go on do (weak fairness per goroutine); a lock that is
released again and again is granted some day (strong fairness of `Lock` in
`RmqConnection`; Go's mutex queues its waiters), and a `select` does not ignore
a ready case for ever (Go chooses at random). What depends on the outside world
is fair only where the property needs it, and then the code repeats it for as
long as it takes: the daemon's dial, the script a delay daemon sends every
second, the statements of the stale takeover. A request to the object store ends,
with an answer or an error. Crashes, connection losses, refusals and the
application's reads are never fair: where a property needs an end of them
(`RequestsEnd`, `DelayedIsDelivered`, `StaleIsFreed`, `ConsumersStop`) its
formula says so. Nobody has to call Close or CancelConsume. The parts of
`Safety`, `RmqPublish` and `Migrate` state no fairness and no liveness; in their
place stand state properties that say that nobody is left where only another
call could wake them (`NobodyWaits`, the last part of `CanBeCancelled`) or
what a run has come to when no step is left (`Quiet` in `Streams`, whose runs are
all finite).

### What the code does not guarantee

Three disagreements of the code with its own comments are kept as runs.

* `KafkaHandlerCommit` (`kafka.go:641`): the comment at line 624 says that the
  offset is committed only after the handler succeeded. A failed message is
  skipped, and the commit of the next one covers it.
* `RmqSecondKey` (`rmq.go:1326`): `BindQueue` "binds the queue to the exchange".
  The key of the cache lacks the routing key, so a second binding of a pair is
  taken for known and skipped.
* `ObsCancelledListing` (`obs.go:335`): `ListAllObjects` "collects all objects".
  When its context is cancelled, the listing may end without an error, and what
  reads it, `DeleteDirectory` and `RenameObject` included, returns nil.

The properties are stated so that they do not claim more than the code does.
What lies beyond them was met while modelling; each can be reproduced by
strengthening the property named, or by the change of constants named.

* `RmqConnection`: daemon and callers may both reconnect. The daemon may select
  on the notification of an older connection, so that a live one is marked
  down and one more is dialled, the former staying open; `tryReConnect(false)`
  returns true one tick after a dial that failed, without another one
  (`WaitTick`), so that its caller finds no connection; if the first connect
  fails, there is no daemon.
* `RmqPublish`: a confirmation that arrives after Close (471) counts for a push
  that is still waiting, hence `~closed` in `ConfirmedIsStored`. `Consume` takes
  the queue lock before a channel (964), pushes the other way round; with
  unconfirmed pushes, which share the consumers' pool, pushes that fill the
  pool and a consumer that holds the lock wait for each other
  (`Confirming = {}` and as many pushers as plain slots). A dial that fails in one
  goroutine leaves the connection nil for the others: `createChannel` behind its check
  (299, 304) and `recheck` (516) then panic. When that happens in `BorrowObject`, or in
  `consumeCore` with the channel borrowed (1092; `Consume` gives it back on an error
  only, 969), the slot of the pool is never given back: after as many such panics
  as the pool has slots every borrow waits until its context ends (`Kept` in
  `NobodyWaits`, "panicked" in `NothingHeld`). `rabbitmqx`'s README
  gives `retry_wait_time` in milliseconds; the code multiplies it by a second.
* `RmqConsume`: `CancelQueue` before the goroutine has registered (996) finds
  nothing; after a server-side cancel the goroutine spins on the closed delivery
  channel until the AMQP channel dies or it is told to end.
* `RmqDeclare`: `DeleteQueue` takes no lock; between a declaration and its store
  it leaves a cached queue that is gone, and so does a deletion that takes effect while its
  answer is lost: `UnBindQueue`, `DeleteExchange` and `DeleteQueue` return the error
  (1354, 1373, 1392) before they look at the cache (`gone`). Deleting a queue keeps the
  keys of its bindings.
* `RmqBodies`: in queue mode a `PushBody` forgets the arguments that were set
  before its queue was named; a body turned to another queue carries the first
  one's arguments along, keeps the routing key that `Validate` gave it, and its
  message id. A `PushBody` with a direct exchange, a queue and no routing key
  publishes under the empty key, and the message is dropped while `Push` returns
  nil. Bindings without an exchange are ignored. A delay queue is named for the
  exchange only, so the first routing key wins, and a long delay at its head holds
  back shorter ones. `opCache` does not see that an exchange is asked for with
  another type.
* `TableLocker`: with `MaxLost = Stale` (renewals whose failure `renew` ignores)
  a holder's row is taken over while it migrates; with equal names in
  `LockedBy` (hostname and pid of containers) Unlock deletes a successor's row.
* `AdvisoryLocker`: a session that dies takes the lock with it, and its owner
  migrates on; this is why the mapping to `MigrationLock` counts it as having
  left. A session may go back into the pool with the lock (69, 98), which then
  lasts until the pool closes it.
* `Migrate`: with `TransactionalDDL = FALSE` a crash in a file leaves objects, and
  the next run takes "already exists" for "applied"; a leftover of an object
  that is not the last of its file does the same. The error codes are looked
  for in the text of the message, so any message that contains "1050" counts. Of
  two files with the same version only the first is executed.
* `EnsureDatabase`: calls that overlap in one process share the fixed names of
  their pools (`overlapped`): one may use, close or lose the other's. With MySQL
  two processes may both return that they created the database.
* `RedisDelayQueue`: a daemon in its first phase does not look at `closed`; a
  queue whose SAdd failed is known to one process only and is forgotten with
  it (hence `q \in known`); pushing an equal message again replaces its time.
* `KafkaConsume`: a CancelConsume in the middle of Consume finds no reader to
  close (`overlap` in `CancelReaches`), and the next consumer may share it, so
  that a commit covers what the older one dropped (`overlap` in
  `CommittedIsGiven`); a reader may be created after Close and stay open.
* `RocketConsume`: overlapping calls may overwrite a closer, so that a channel
  is never closed (`ChannelCloses` is about calls that do not overlap); a
  consumer may start while Close runs and outlive it (`Reachable` ends there).
* `Streams`: below `Limit`, and below a stage that a panic ended, goroutines stay
  blocked (`Quits`); `AnyMatch` waits for ever if its predicate panics.
* `ObsOperator`: a directory renamed onto or into itself is deleted; what is
  written into the source while it is renamed is deleted with it; the marker of
  the source is not copied. `RenameObject` copies what is under its source as it is
  given (625) and deletes the directory by its trimmed name (665): renaming "a//"
  deletes all that is under "a/", of which only "a//" was copied. It looks its client
  up a second time for that (661): if the client of the name was replaced
  meanwhile by one of another endpoint, the directory is deleted there. In both cases
  `NothingLost` counts what is deleted as deleted on demand (`DeletesAnother`).
  `RegisterClient` goes on registering after Close, which nobody finds.
* `ServiceCalls`: an answer of 500 is no error of the call, although
  `ral/response.go:31` calls it one (`FailureIsError`). The body of `RAL`, `Post`, `Put` and the
  others is any value (`ral/client.go:41`, 187), so it may be a reader, which `httpx` hands to
  resty unread (`httpx/client.go:389`); an attempt that repeats such a request, or a
  multipart one (`httpx/client.go:337`), sends what is left of the readers
  (`OnceOnly` in `BodyIsWhole`, `FilesAreWhole`); `Validate` of `grpcx` writes its map of names without a
  lock.
* `Instances`: the pools of sources and replicas (`db.go:116`) are closed by nobody: `Close`
  (210) and a registration that fails at a later one (125) close the main pool only; a
  pool that `gorm.Open` cannot ping (80) stays open too (`stray`). Two `InitConfig`
  calls of one name that overlap leave a pool that nobody closes, `RegisterJob` under a known name a job that cannot be removed
  (`replaced`); `StoreDB` returns nil when it keeps the database it has;
  overlapping `GetRepository` calls get different ones (`Singleton`), against
  the comment at `repository_manager.go:38`; a Once whose function panicked
  has no value for good.
* `EsOperator`: `CreateIndexWithAlias` returns nil without an alias if the index
  exists; a scroll request that the transport repeats loses a page (`repeated`); a
  context whose first answer is lost stays until it expires (`unclear`). Without a scroll
  time the server opens no context, and `ScrollSearch`, which "reads all hits" (581),
  returns the first page and no error (630). `Reindex` copies document by document what
  it found when it began: what is written meanwhile is not copied, what is deleted at its
  destination may come back, and a copy whose request broke may go on beside the repeated one.
* `EsSearch`: a clause of the same kind replaces the former one silently;
  `Search(q.Build())` does not look at the query's error; a clause that fails
  after `SetQuery` is not noticed.
* `JodaTime`: `Readable` lists the patterns that cannot be read back: fields of
  varying width before digits, a fraction without a dot, seconds before a dot
  and a number, literals that the layouts of `time` take for fields ("_2", "15",
  "Z"). D, w, e, k, K, z, G and C are only formatted.

## Proofs

TLAPS proves, for all values of the constants:

* `RmqConnectionProofs`: `TypeCorrect`, `ReadyWatched`, `CloseWins`, `NoLateDial`,
  for any number of callers, connections and attempts. Assumption
  (`ConnectionAssumption`): thread names are distinct and `AttemptTimes` is a
  positive natural. `ReadyIsWatched` and `ClosedForGood` are not inductive: the first
  needs to know what a thread inside `tryReConnect` knows (`DialOK`) and that
  only one thread is there (`MuOK`); the second that `Close` sets `closed` before
  it takes `connMu`, after which no thread passes the double check (`CloseOK`).
  `AloneAtFirst` says that nobody uses the operator while its constructor
  dials, which happens without `connMu`.
* `LockersProofs`, for both lockers and the runner:
  - `TypeCorrect`, `Exclusive`, `Fresh` and `Refinement` of the lock table, for any
    number of instances and any thresholds, under `Sound`: fewer renewals are lost
    in a row than the threshold lasts, and names differ. The inductive invariant
    relates the age of a row to the renewals its owner has lost since (`HolderOK`):
    that is why nobody finds a holder's row stale, so that neither a stale decision
    in progress (`current`) nor a deletion can concern it.
  - `AdvisoryIsALock`: the session lock implements `MigrationLock` too, for any
    number of sessions. `OwnerOK` says that whoever migrates with a live session owns the
    database's lock, whatever waits were cut short and whatever sessions went
    back into the pool; a session that dies under its owner counts as leaving.
  - `VersionsAscend` (`AppliedInOrder`), for any number of instances, any files of any
    releases and any version numbers (`MigrateParameters`: versions are naturals).
    `RecordedOK` says that one record of a kind has its highest version, `WorkOK`
    that whoever runs a phase knows that version (`latest`) and executes a newer
    file; both hold only while one instance migrates at a time (`OneMigrates`),
    which is what the two refinements above are for.
  - `RecordedExists` (`RecordedIsExecuted`), for any number of instances and any files that
    meet `FilesAgree`, on a database that rolls DDL back. No code checks what `FilesAgree`
    says, and the code relies on it: the releases are stages of one schema
    (`ReleasesAgree`: a baseline creates all of its version, an increment what is new in
    it), and if an object of a file is there before the file, so is the rest of its version
    (`CreatesAnew`: what `IsIdempotentSkippable` takes "already exists" to mean). TLC
    evaluates it for the releases of the run (`ReleasesAreStages`). The inductive
    invariant: what exists is recorded, left over, seed data or what an open transaction made
    (`ObjectsOK`); a rollback takes back just that (`UndoOK`); the file that is executed is
    the next one after the latest version (`FollowsOK`). So a duplicate error means that the
    version was there before, since the file does not meet its own objects; and the
    seeds find all DDL of their release (`DoneOK`), also when a newer release went
    ahead. Where every DDL statement commits at once (MySQL, Oracle) it does not hold:
    see "What the code does not guarantee".
* `CachesProofs`, for any number of goroutines, entities, topics, services and names
  (`OnDemandParameters`: nobody is no caller, every push has a topic, calls are of
  the known kinds, and bounds are naturals). `OneIsMade`: `DeclareMuOK`,
  `WritersMuOK`, `OneMongo` and `OneCall` say who is inside a mutex and what was found
  under it on the second look, `UsesKept` and `Owned` that what is used is what is
  kept or in one caller's hands. `CachedAreDeclared` needs `StoreOK`: between a
  declaration and its store the entity exists, or a deletion has come between
  or was done while its answer was lost (`gone`). `ClosedIsQuiet` needs the whole life of a batch: a push may write only
  with a writer that Close has still to come to (`WriteOK`), and so what is in
  flight is waited for (`InflightOK`, `LeftOK`). `RequestsAreWhole` is inductive with
  `CallsOK`, which says that the body of every call but one of `OnceOnly` is whole at
  each attempt, that of `Do` having been read before, and `SenderOK`, that whoever has sent something keeps its job.
* `SafetyProofs`. Of `KafkaConsume`, for any number of consumers, of CancelConsume calls
  and of messages and any capacity of the channel, `EveryConsumerCanBeCancelled`: a cancel
  channel is in exactly one of three places (`ChanOnce`, `ChanKnown`), and an open
  reader in the cache or in somebody's hands (`OpenKept`, `FetchersReached`).
  `NothingUnseenIsCommitted`: without overlap every consumer reads from a reader
  of its own (`OwnReader`); then whatever comes before the message it holds has
  been given or waits in the channel in front of it (`Passed`, `InOrder`).

  `AnswersAreTrue` (`EsAnswers` of `EsOperator`), for any number of callers, indices,
  documents and calls; the assumption (`EsParameters`) is that documents are finitely many
  and a page has one at least. `PlaceOK` says which operation is at which place, so that an
  answer is one of the operation that was called; `AnswerOK` that a copy that answers has written all it found; `ScrollOK` that what a search found is given, on
  the page or left in the context, while the transport repeated nothing and the context
  lives; `ContextOK` that a context is known to be lost or its owner is on the way to clear it.
  The step of one caller leaves nothing of another's but its context, which may go with
  the index (`OthersApart`).

  `DatabasesAreEnsured` (`Ensured` of `EnsureDatabase`), for any number of calls, processes, databases
  and any dialect (`EnsureParameters`: a place is a pair of a server and a name).
  `RegistryOK` says that a pool in `dbMap` is one whose opener has still to close its name
  (`Closes`), `OverlapOK` that a call that met nobody is alone in its process. So its names
  are free (`FreeName`), nobody closes its pools (`OwnName`) and its statements
  go to its own server (`OwnPlace`); other processes only add databases.
* `RmqPublishProofs`, for any number of pushes, consumers, queues, slots and attempts; of
  the pushes only that they are finitely many:
  - `NothingStaysHeld`: `HeldOK` and `LockOK` say at which places a push or a consumer has
    a slot and a queue lock, `AttemptOK` that the copies of a message, stored or still in
    a channel, are no more than the attempts made, which counts right only because a
    message is in the channels once (`OnceOK`). Who has panicked keeps its one slot and
    no lock.
  - `ConfirmationIsOwn`: an ack is about a stored message (`ChannelOK`), and whatever is in
    a channel belongs to the push that waits for it, or to one that gave the closed
    channel up, succeeded without confirmation or was ended by Close (`WayOK`). So a push
    that borrows a channel finds nothing of another push in confirm mode there, and what
    it takes is its own: that is what closing the channel after a timeout is for.
  - `NobodyEverWaits` (`NobodyWaits`): not all
    who could go on wait for each other. `LocksAreOrdered` says who may hold which lock
    (`KeptOK`): while a push waits for the lock of a bound queue it has no other, except
    that a delayed push has that of its delay queue; a consumer has that of its queue. So the
    holder of the lock that is waited for is a push that publishes, or a delayed push
    that waits for a queue that no delayed push holds for long, or a consumer that waits
    for a channel; of the last, `PlainSlotLeft` counts the holders of plain channels.
    The property itself asks that panics have left a slot of the confirm pool. Two hypotheses. `DelayQueuesApart`: nobody binds a delay queue; its name is made up
    (`rmq.go:622`). `PoolsSuffice`: the plain pool has a place for every consumer, which
    keeps its channel, and for every push that sets no `OpenConfirm` and therefore borrows from the
    same pool, those that panicked and keep a slot included (the code has 500, `option.go:22`); pushes in confirm mode may be any number on one channel.
    It is needed: with a push that sets no `OpenConfirm`, a consumer and one plain channel TLC finds
    that the push holds the channel and waits for the queue lock of the consumer, which waits for a channel.
* `ConsumersProofs`. Of `RocketConsume`: `TypeCorrect`, `SendsAreSafe`,
  `NoneOutOfReach`, for any number of calls, cancellers, workers and any capacity.
  `MuHeld` says who holds `cancelMu`, `Holding` that a call under it is the only one
  that may start a consumer, which makes `Reachable` inductive. Of `RmqConsume`:
  `FoundChannelIsHeard`, for any number of consumers and CancelQueue calls.
  `CancelChanIsHeard` is inductive but for one fact: CancelQueue closes what it has
  found (`FoundChan`).
* `RedisDelayQueueProofs`, for any mix of packages, any number of processes,
  goroutines, queues and messages and any limit of the script. `NothingIsDoubled`:
  the copies of a message, delivered, in the list and in the two possible
  sorted sets, never exceed its additions; `CopiesOK` is inductive once every
  push knows what it pushes (`PushOK`), and the lemmas `PlacesAppend`, `PlacesTail`
  and `PlacesConcat` say what Redis's list operations do to the number of copies.
  `EarliestMovesFirst` rests on `ExpiredFirst`: fewer messages come before what is
  due earlier. Of the messages it is assumed that they are finitely many naturals
  (their order in Redis), as a sorted set is.
* `ObsOperatorProofs`, for any endpoints, buckets, callers and jobs, any capacity of the listing
  channel and any number of retries. `ObsAssumption` says that no key is empty and
  that nobody uploads what is in the bucket already.
  - `EverythingIsListed` (`AllListedWhileAlive`). The history variable `stable` has the keys that
    nobody touched since the listing began. Each of them is still to come (`Pending`: in
    the channel, in the goroutine's hands, or behind the last key it sent) or taken, or
    an error is on its way to the reader or noted (`Settled`); that is inductive with where
    an operation is (`Places`) and that a listing is of the operation's directory and not
    cancelled while it is read (`Reading`). The goroutine passes no key by because it
    takes the first one left (`LeastRank`).
  - `NoObjectIsLost` (`NothingLost`), under `Apart`: no rename or copy moves an object into what
    a rename removes. A content of the beginning is safe (`Safe`) once it is dropped on
    demand or lies outside of that; `Copied` says that what a rename has still to remove
    is safe, or still to come from its listing. Every step is shown to change objects in
    a few ways only (`Fate`), and these keep what other callers rely on
    (`OthersCopied`). `Apart` is necessary in substance: two renames that move two
    directories into each other delete each other's copies. The instance of the run
    meets it (`JobsApart`). A rename that goes on as the deletion of another directory
    (`DeletesAnother`) leaves the care of its copies there, which is what the code does.

Only model-checked:

* Liveness under fairness, and what uses ENABLED (`NobodyIsStuck`, and
  `Quiet` in `PipelineEnds`): out of the prover's reach.
* `BodiesArrive`, `PipelineEnds`, `FormattedIsParsed`, `SearchIsAsked`: they compare the result
  of a finite computation with its meaning, by recursion over the data or case by case over tables
  (letters, setters, kinds of clauses), and proving them would repeat what TLC enumerates.

## Not modelled

Most of the other packages have no state or concurrency of their own
(formatting, conversions, wrappers of one library call), or are vendored; the
list with a reason for each is in `PROJECT.json`. Of the modelled packages:
payloads, headers, options and logging; `Ack` and `Nack` of `rabbitmqx` (one
call with a timeout each); declarations and deletions with NoWait, which have no
answer; the branch of `recheck` that makes the flags of an open
channel consistent; SQL text and error codes; administration in `kafkax`;
producers of `rocketmqx` (single calls, or the retry loop that `KafkaPush` has);
single requests of `es`, `obsx`, `mongo` and the Redis commands; sorting, grouping
and reduction of streams; the time at which cron runs a job.

## What is left

The invariants that no theorem states compare tables or computations, or need ENABLED
("Only model-checked" above). Of the packages in "Not modelled", `configx` and `log`
have state of their own but little behaviour beyond their libraries'.
