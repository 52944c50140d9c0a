# TLA+ models of go-events

go-events is an event collection service: an HTTP API (`cmd/api`), a message broker (NATS, with or
without JetStream), worker replicas (`cmd/worker`), PostgreSQL, Redis and a React admin panel. The
modules here model the parts of it that have state and concurrency, TLC checks them on small
instances, and TLAPS proves the most important properties for every value of the constants.
Paths below are relative to `src/`.

## The system

| Component | State | Operations | Interacts with | What makes it correct |
|---|---|---|---|---|
| Event pipeline (`internal/handler/event`, `internal/broker`, `cmd/worker`, `internal/service/event`) | stream `EVENTS`, the durable consumer's pending messages, each worker's buffer, table `events` | `POST /events`, publish, deliver, redeliver, insert, ack / nak, worker start, stop, crash | API to broker: messages; broker to worker: callbacks; worker to database: `INSERT` | an event answered 202 is not lost, is stored once and with its author and key, and is stored eventually; one answered 500 may be stored, then or later |
| API keys (`internal/service/apikey`, `internal/repository/cache`) | table `api_keys`, Redis entries with a TTL of 5 minutes | generate, (de)activate, delete, validate | called by `UniversalAuth` on each request with `X-API-Key`; account deletion cascades | a revoked key stops working within a bound, deletion is final, a cached refusal ends |
| Accounts (`internal/service/account`, handlers of owner and admin, seeding in `cmd/api`) | table `accounts` | create, PATCH, PUT, delete, seed | keys and events hang on accounts by foreign keys | emails stay unique, rights change only as an admin wants, deleted means deleted |
| Login and guards (`internal/handler/auth`, `internal/middleware`, `internal/handler/router.go`) | none of its own: tokens are held by clients | login, `UniversalAuth`, `RequireAdmin` | accounts (read on every request), API keys | a token is for the account that logged in; an inactive account is refused; roles are not older than a token |
| Rate limiter (`internal/middleware/rate_limiter_redis.go`) | one bucket per client in Redis | admit or refuse | in front of every API route, a second one in front of login | no client exceeds its limit by more than a bound, none is refused below it but for lost replies |
| Lists (`internal/pagination`, the repositories' `List` methods, `internal/handler/admin`) | none | page, filter, sort, count | reads all tables | pages and totals agree with the tables; a walk misses and repeats rows only as the list changes |
| Startup and shutdown (`cmd/api`, `cmd/worker`, `internal/config`) | where `main` is, the back-off, the NATS connection, the work in progress | load, connect with retries, seed, serve, drain | PostgreSQL, Redis, NATS, Docker's restarts, SIGTERM | a late Redis is not missed, the retries and the API's drain end, the seeded email has an account, restarts heal the rest |
| Admin panel (`admin/src`) | `localStorage`: token, account, role | log in, check, log out | the API over HTTP | the stored session is an admin's |

Hard behaviour, in the order of its weight: redelivery, lost acknowledgements and restarts in the
pipeline; cache entries filled, invalidated and expired by requests that overtake each other;
read-modify-write updates without a transaction; reads repeated within one request; services that
come and go while a container starts. `PROJECT.json` lists each hazard at its line.

What each module covers, and how far, is in the `components` of `PROJECT.json`; the last section
lists what is not modelled.

## Modules

The modules of the components meet in three abstract specifications, which say what one component may
rely on in another:

| Abstract specification | Implemented by | Mapping |
|---|---|---|
| `EventDelivery`: accepted, then stored once | `EventPipeline` | `Delivery` |
| `WorkerLife`: who runs, hears and has work | `Startup` (one process, from the inside), `EventPipeline` (all of them, from the broker's side) | `Life`, `Lives` |
| `Leases`: copies of facts that expire | `ApiKeyAuth` (the flags in the Redis cache), `Sessions` (the admin role in tokens) | `Cache`, `Tokens` |

What else one module needs of another is small enough to be one of its actions (the deletion of
an account in `EventPipeline` and `ApiKeyAuth`, recognising a key in `Sessions`); seeding is in
`Accounts` for what it races with and in `Startup` for when it happens. Each `MC...` module
names the constants of its module's small instances, each `...Proofs` module holds its theorems. A
definition `X_Y` is definition `X` with the slip `Y`; no specification uses it, and `PROJECT.json`
("mutants") says which property notices the slip.

### EventPipeline, EventDelivery

`EventPipeline` is the whole way of an event: `Receive` and the `Publish...` actions are
`Handler.CreateEvent` and `NATSPublisher.PublishEvent`, `Confirmed` and `Unconfirmed` the two ends of
its wait for the stream's confirmation; `DeliverNew`, `Redeliver` and
`AckWaitExpires` are the JetStream server as `Subscribe` configures it (external code, modelled from
its use); `Start`, `Stop`, `Crash` and `LinkCloses` are `cmd/worker`'s life; `Insert...` is the handler
(`EventService.CreateEvent` down to PostgreSQL's checks), and `Ack`, `Nak`, `AnswerLost` are the end
of the callback. `DeleteAccount` and `DeleteKey` run at any time.

Storing a message and answering its client are separate steps. The stream has the message
(`PublishToStream`, `reply[e]` is "sent") before the handler hears of it, so workers may handle it
first, and the confirmation may be lost (`Unconfirmed`: a 500 for an event that is stored). While NATS
is away nats.go buffers what is published (`PublishBuffered`): `js.Publish` times out and the client
gets its 500, `conn.Publish` returns at once and the client gets its 202; in both cases the message is
sent when the connection is back (`FlushToStream`, `FlushToSubscriber`, `FlushToNobody`), long after the
answer, or never, when the API's process ends first.

A worker told to stop sleeps, unsubscribes and closes its connection, and then its deferred `pool.Close()`
(`cmd/worker/main.go:45`) waits for the connection an `INSERT` in progress holds. So `Stop` takes the
worker out of `up` and may leave the head of its `inbox`: the handler goes on, what it answers is lost,
and the process is gone, and may be started again, when the `inbox` is empty.

| Variable | Code |
|---|---|
| `accounts`, `keys`, `row` | the tables; `row[e]` is the `api_key_id` of the event's row |
| `reply`, `msg` | how far `POST /events` is (its publication, its answer), and its message |
| `buffered` | the API's messages that nats.go keeps until it is connected again |
| `stream`, `pending`, `redeliver` | stream `EVENTS` (work queue) and the consumer's unacknowledged messages |
| `broker` | `BROKER_JETSTREAM_ENABLED`, false by default |
| `consumer`, `creator`, `attached` | the durable consumer, the subscription that created it (and deletes it when closed), the subscribers |
| `deaf` | workers that run on after nats.go gave up reconnecting: no subscription, no buffer, no answers |
| `up`, `inbox`, `pc` | workers that run and are not on their way out, their subscription buffers, the handler's outcome for the head |
| `everStored` | history: events whose `INSERT` committed |

The broker is chosen at the start, among the constant `Brokers`, and `JetStream` says which one it is;
so one specification, one run and one proof are about both. A message is its event's identifier: the content that the properties tell apart is the author and the
key. An event without a payload (constant `Blank`) reaches the `JSONB` column as an empty string,
which PostgreSQL refuses.

`EventDelivery` is the promise: queued when answered 202, then stored at most once, nothing else. A
500 promises nothing, and the event may be queued before it, after it, or never.
`EventPipeline` implements it under the mapping in `Delivery`. The mapping gives core NATS's answers
to nobody, since that broker keeps no promise of the kind (see `core_loss`).

### WorkerLife

`Startup` looks into a worker's process which `EventPipeline` takes for granted. What they must agree on
is `WorkerLife`: `life` is "down", "subscribed" or "deaf", `busy` the workers with a message in hand.
`Lives` calls a worker of `EventPipeline` subscribed while it is `up` and not `deaf`, busy while its
`inbox` is not empty, and deaf also when it has left `up` with something in its `inbox`; `Life` calls
`Startup`'s one worker subscribed in the phases `serving` and `stopping` until its `link` is `closed`,
deaf from there to the end of `closing`, busy while it has `work`. So `GoDeaf` is `LinkCloses` or a
`Stop` with an `INSERT` in progress of the one, and `ReconnectGivesUp` or `Unsubscribe` of the other, and
neither has a way back but the end of the process.

### Leases

A copy of a fact (`holds`) is made at most `Delay` ticks after somebody looked, lives for `Life` ticks
(`left`) and is never prolonged; `since` counts the ticks since a fact last held. In `ApiKeyAuth` a fact
is a key with one of the flags, `FillCache` is `Copy`, every other write to Redis is `Drop`, `Life` is the
TTL. In `Sessions` a fact is "this account is an admin", `LoginIssue` is `Copy`, `Life` the lifetime of
tokens. In both, `WriteKey` or `WriteTarget` are `Change`, which no copy hears of, and `Delay` is
`MaxLatency`. What a request does with what it took from a copy is not part of `Leases` but of the bounds
stated in the two modules.

### ApiKeyAuth

Requests are processes that make one Redis or database call per step: `CacheHit` / `CacheMiss`,
`LookupKey`, `FillCache`, then the two reads of the account (`APIKeyValidatorFunc` and
`UniversalAuth`); `BeginWrite`, `WriteKey` and `Invalidate` are `UpdateActive` and `Delete`, of the
owner's and the admin's handlers alike. A failed Redis call is logged and the request goes on
(`FillFails`, `InvalidateFails`, and a `CacheMiss` with an entry present). Account deletion takes
the keys with it and leaves their entries. `Tick` lets time pass: entries expire, requests age.
`since` counts, per key and flag, the ticks since the row last had that flag: "active" tells how
long a revoked key may still be accepted, "inactive" how long a reactivated one may be refused.

### Accounts

The owner's PATCH is three steps (`PatchRead` in the handler, `PatchPreserve` in the service,
`Update`), the admin's PUT two (`PutRead`, `Update`), login two reads by email (`LoginVerify`,
`LoginIssue`), seeding a lookup and a creation. `Insert` and `Update` carry the UNIQUE constraint on
emails. `granted` records the rights given by creation and by PUTs, `raced` the requests whose
account changed since their last read.

### Sessions

Each request is a process: a login verifies (`LoginVerify`), reads the account again (`LoginRead`)
and makes a token (`LoginIssue`); any other request enters with a `Bearer` token or an `ApiKey`,
passes the account check of `UniversalAuth` (`ReadAccount`) and, on an admin's route,
`RequireAdmin`. What follows is what the handlers do to `role` and `state`, in two statements for an
update (`ReadTarget`, `WriteTarget`) and one for a deletion. So the requests change what guards the
other requests, and each other's. `Refuse` is every way out with an error before something changed.

A token is the time it has left, per account and claimed role: of several tokens of one account and
role the newest allows everything the others do. `sinceAdmin` and `sinceActive` count the ticks
since an account last had the role or the state.

### RateLimiter

One client's buckets in Redis. `Allow` and `Refuse` are the script of `redis_rate` (external code)
as `RateLimiter` calls it; a login passes the second limiter after the first. `debt` is the bucket in
ticks until it is full again, which is what the script stores as a time.

go-redis repeats a call that failed, up to `REDIS_MAX_RETRIES` times (3 by default,
`internal/config/config.go:81`, passed on at `internal/repository/cache/redis_client.go:22`), and a call
fails also when the script ran and its reply was lost (`ReplyLost`). So one request may charge its bucket
several times (`Retry`) before it is allowed, refused, or, after the last failure, let through
(`FailOpen`). Redis may also lose charges, or the bucket, when it restarts (`LoseCharges`):
`docker-compose.yml` runs it with an append-only file on a volume, which loses the last moments at most,
and other installations need not.

`Observe` starts the observation of a window of one period at any moment, so that what holds of the
observed window holds of every window. In it `count` is the charges whose reply arrived, `lost` those
whose reply did not, `losses` how often Redis lost charges. `RefusedAtLimitOnly` says that the two
together reach the limit before anyone is refused: a lost reply does cost the client a request, and
nothing else does. `LessThanTwice` speaks of windows without `losses` and counts what limiters that answer
let through: fail-open requests are not bounded by anything.

### Listing

A request is `Count` and `Select`, between which `Insert`, `Delete` and `Update` of rows may come.
`place` says, per column, where each row is in the order, and `Update` moves a row within it, as the
`UPDATE` of an account's email, role or active flag or of a key's active flag does; events are never
updated (`Updated`). An `UPDATE` that makes a row match the filter, or no longer match it, is `Insert` or
`Delete`. `moves` counts the updates of the listed rows in the column the walk is sorted by: both walk
properties depend on it, because a row whose email changes to an earlier one is on no page that is left,
and one whose email changes to a later one is shown twice.
`FirstPage`, `NextPage` and `Retry` are the panel's `dataProvider` and the table that shows its
answers (the table is a library: `More` is how the panel uses `X-Total-Count`); `Query` is any other
client. `Parse` and `Valid` are `pagination`, `Column` the white lists of sort columns,
`ContentRange` the header. `Page` is what SQL says of `ORDER BY ... LIMIT ... OFFSET`: rows which the
order does not tell apart come in any order, and in another one for the next page. `SelectCut` is the
loop over `rows.Next()` that ends early.

### Startup

One container of the API or of the worker: `phase` is the call `main` is in.

| Definitions | Code |
|---|---|
| `Load`, `ConnectPostgres` | `config.Load`; the pool, which `pgxpool` connects lazily, so that only its settings can fail |
| `PingAnswered`, `PingFails`, `BackoffOver`, `GiveUp` | `connectRedisWithRetry`: a ping of 5 s, `retryConnect`'s select, its context of 30 s |
| `ConnectBroker`, `EnsureStream`, `Subscribe` | `nats.Connect` and what JetStream must answer, none of it retried |
| `SeedLookup`, `SeedCreate` | the seeding in the API's `main`, whose failures (the database's, the UNIQUE email's, bcrypt's over 72 bytes: `hashable`) are only logged |
| `Begin`, `Finish`, `Signal` | serving, SIGTERM |
| `Close` | the API: `srv.Shutdown` with its 30 s, after which `main` returns whatever still hangs (it defers no `pool.Close`) |
| `Unsubscribe`, `ClosePool` | the worker: the sleep of 2 s and the deferred calls, of which `pool.Close` waits for the `INSERT` in progress |
| `LinkBreaks`, `Reconnect`, `ReconnectGivesUp` | nats.go (external): 60 attempts, then closed for good, which nothing in the program notices |
| `Start`, `Dies`, `Deploy` | Docker (external): `restart: unless-stopped`, a crash or a kill, the operator |
| `ComesUp`, `GoesDown` | the services |
| `OthersCreate`, `OthersFree` | other replicas and users: they create the account with the seed email, delete it or change its email |

Time passes (`Tick`) only where the program measures it: in the Redis retries, the shutdown and the
reconnects. An attempt may be answered at any moment of its time and fails only if Redis was away at
some moment of it; when the back-off and the context end together the `select` may choose either. A
SIGTERM that arrives before `main` waits for it ends the process. Docker's own patience (10 s after
`docker stop`, less than the 30 s of the drain) is a case of `Dies`, and the only thing that ends a worker
whose `INSERT` is never answered: the handler's context is `context.Background()`. `SignalEnds`
therefore promises the end of a worker only if no message hangs, and the end of the API in any case. A
service that is down refuses or fails; a database that accepts a connection and never answers is
considered for the worker's `INSERT` and for requests, not for the seeding (`context.Background()` too,
`cmd/api/main.go:102`), which it would keep for ever. `settings` stands for what the
configuration can get wrong: a value `config.Load` refuses, a pool size `pgxpool` refuses, a seed
password bcrypt refuses, and `BROKER_SUBJECT` other than the subject of stream `EVENTS`, whose name is fixed in the code.

## Runs

| Run | Bounds | Shows |
|---|---|---|
| `delivery` | both brokers, 2 events, 2 workers, 1 account with 1 key, `MaxAckPending` 2, 2 faults (484,936 states) | safety, the refinements of `EventDelivery` and `WorkerLife`, `StreamedIsStored` under fairness; with core NATS each message is handled once |
| `core_loss` (violation) | core NATS, no fault | core NATS drops what nobody listens to |
| `poison_stall` (violation) | one event without payload, `MaxAckPending` 1, no fault | it fills `MaxAckPending` for ever |
| `revocation` | 1 key, 2 requests, TTL 2, latency 1, Redis fails | the bounds on revocation and healing, finality, healing under fairness, the cache as `Leases` |
| `overtaken` (violation) | the same, Redis never fails | an entry contradicts the row after both requests ended |
| `account_rights` | 2 accounts, 2 emails, 2 requests | emails, granted rights, deletion, races of PATCH and login |
| `lost_update` (violation) | the same | PATCH undoes an admin's PUT |
| `guards` | 2 accounts, 2 requests, lifetime 1, latency 1 | for how long lost rights can be used, tokens as `Leases` |
| `rate_bounds` | 3 requests per 3 ticks and 2 logins per 4, 2 requests, Redis fails, 3 retries, charges lost once per window | what a bucket is charged per period, who is refused, no lock-out |
| `list_walk` | 3 rows, pages of at most 2, 2 insertions and 1 move per walk, sorted by `email` or `name` (953,814 states) | what walks show, what the header says |
| `list_cut` (violation) | the same | a page cut short under a header for all of it |
| `lifecycle` | both programs under 7 settings, back-offs 1, 2, 3, 3 within 10 ticks, attempts of 2, 1 reconnect in vain, grace 3 and 2, 2 work items, 1 crash (393,152 states) | when the retries give up, who has the seeded email, recovery by restarts, the end after SIGTERM, a worker's process as `WorkerLife` |

Bounds. Two faults allow a lost acknowledgement followed by a crash, a stop of the consumer's
creator followed by a late `AckWait`, or a publication buffered by the API and a crash of the worker it
reaches; two events let one message wait behind, or be blocked by,
another; two workers let a redelivery run beside the first delivery. `MaxAckPending` is 100 in the
code: it is at least the number of events in `delivery`, so that it never blocks, and below it in
`poison_stall`. Two requests on one key are the shortest interleavings that overtake each other; a
TTL of 2 leaves an entry time to age. In `Accounts` the second account lets an email move. In `Sessions` two accounts can demote each other;
a demoted account's token is used up to one tick before `Lifetime + 2 * MaxLatency`, so the bound of
`DemotionBounded` is tight. The two limits of `rate_bounds` differ, so that a login is refused by
either limiter, and so do their refills; three retries are the code's default, and one loss of charges
per window is enough to tell what holds without. Three rows, pages of one or two and two insertions make
walks of up to five pages, one of them short; one move takes a row across a page border in either direction, on
four places of which one is free; `MaxLimit` 2 lets clients ask for more than they get (100 in the
code). In `lifecycle` the back-off reaches its cap, a wait at the cap and an attempt both end before
and after the deadline, which attempts of no, one or two ticks beside back-offs of 1 + 2 + 3 + 3 reach from
all sides; one reconnect in vain is one more than none; one
crash, because every exit resets the process anyway; services come and go without a bound. Accounts and
requests are interchangeable where a configuration declares symmetry: `account_rights` and `guards` do
so, because they check safety only.

Fairness. The server delivers, times out and redelivers (`Serve`, of which one step is possible for a
message at a time); a worker continues its handler (`Handle`, the insert or the answer), also on its way out; the replicas in `Kept` are restarted (the containers' restart policy). In `Startup` Docker starts
what exited, `main`, the drain and nats.go go on, and the clock ticks (strong fairness, because a
service that flaps keeps taking the clock's turn away); no service need ever answer, and no request or
message in progress need ever end. In `ApiKeyAuth` time passes
and requests proceed, which their client timeouts and the drivers ensure. In `RateLimiter` only
time passes. `Accounts`, `Sessions` and `Listing` are checked for safety alone and assume nothing.
Nowhere is anything assumed of clients, administrators or faults. A buffered publication need never be sent.

Where the check for deadlocks is off (`EventPipeline`'s runs), the bounded instance ends: every event was
sent and handled and the faults are used up.

A replica that stops takes along the durable consumer if its subscription created it
(`Unsubscribe`), and the others are then subscribed to nothing until they restart. The runs assume
with `Kept` that a stopped replica comes back and subscribes again, with a consumer of its own making.
What remains is that all replicas run and none is subscribed (`Abandoned`): a consumer's deletion or
nats.go's giving up left them so, no process ends and nothing restarts one. `StreamedIsStored` excepts
that state, and the messages wait in the stream.

What the stream stored it is assumed to keep. `docker-compose.yml` gives the `nats` service no volume, so
that this holds as long as its container does: recreating it takes the stream, its messages and the
consumer away, and no module models that. PostgreSQL keeps its rows; Redis is modelled as one that may
lose entries (`ApiKeyAuth`) and charges (`RateLimiter`).

`Recovers` accepts a `link` that nats.go has `closed`, because no restart heals it and the process does
not notice; what such a worker means for the messages is `Abandoned` and `StreamedIsStored`.

## Proofs

- `EventPipelineProofs`: `TypeOK`, `NoSilentLoss`, `Attribution`, `StoredOnce`, `CoreHandlesOnce` and
  the refinements of `EventDelivery` and `WorkerLife`, for any numbers of events, workers, accounts, keys and faults. The inductive
  invariant `IInv` adds to the properties what the messages in flight are: everything in the
  stream or in a buffer was published (`MessagesInv`, `FlightInv`), a handler that succeeded has
  stored its head (`HandlersInv`), a message nats.go still buffers is nowhere else and its client has the
  answer that goes with it (`BufferInv`), and a stored row is missing only because its author was deleted
  (`HistoryInv`). The last one is why a redelivery after the deletion is refused: with the row gone
  the foreign key takes over from the primary key. For core NATS it says that an event is in at most
  one place of one buffer. For `WorkerLife` it takes `DeafInv`: no worker is both attached and deaf, so
  that the server, which delivers to attached workers, delivers to none that is deaf.
- `ApiKeyAuthProofs`: `TypeOK`, `RevocationBounded`, `HealingBounded`, `DeletionIsFinal` and the
  refinement of `Leases`. The invariant follows one reading of a row, with either flag: as old as the
  request that holds it (`FillInv`), then at most `TTL + MaxLatency` minus the entry's remaining life
  (`EntryInv`), then plus the age of the request that hit the entry (`HitInv`). A request goes on after a
  hit only with "active", so that a refusal is bounded by one `MaxLatency` less.
- `LeasesProofs`: `TypeOK` and `Recent`, for any facts and durations: a copy with `x` ticks left shows
  what held at most `Life + Delay - x` ticks ago. The invariant adds that the clock of whatever holds
  stands at zero (`ClockInv`). `CachedFlagsAreRecent` and `ClaimedRolesAreRecent` draw that bound for
  entries and tokens from the refinement and from `LeasesProofs`, instanced under the same mapping
  (`Promise`), with `Durations` proved of their constants.
- `AccountsProofs`: `TypeOK`, `EmailUnique`, `RightsWereGranted`, `DeletedForGood`,
  `UnracedPatchKeepsRights`, `UnracedLogin`. The invariant relates the copies that requests hold to
  the rows: granted rights (`CopyGrantedInv`), and agreement unless raced (`FreshInv`).
- `RateLimiterProofs`: `TypeOK`, `LessThanTwice`, `RefusedAtLimitOnly`, for any limits and periods.
  `WindowInv` bounds what was charged in the observed window from both sides: the debt is at least
  what was charged less the time that passed, unless Redis lost charges, and at most what the full burst
  and the charges, confirmed or not, leave. The first bounds what is allowed, the second shows that
  whoever is refused was charged its limit (`LimitIsGranted`). `ChargedRate` states both of every moment
  of a window, not only of its end.
- `SessionsProofs`: `TypeOK`, `DemotionBounded`, `DeactivationBounded` and the refinement of `Leases`, for
  any lifetime, latency and numbers of accounts and requests. A token that claims admin has no more time left than `Lifetime +
  MaxLatency` less the time since its account was admin (`TokenOK`), because the request that issued it
  read the role within `MaxLatency` (`FreshOK`, one clause per kind of request); a request that passed
  a guard adds at most one `MaxLatency` more.
- `ListingProofs`: `TypeOK`, `RangeTellsRows`, `WalkShowsAll`, `RepeatsNeedChanges`, for any table, page
  size and number of insertions and moves. A row's rank in the order is its place in the page (`RankIsPlace`), a
  segment of ranks has as many rows as its length (`SegmentIsRanks`), and an insertion moves ranks by
  one (`RankGrows`); so what the walk passed was shown as long as no row moved (`PassedWasShown`), and each
  repetition is accounted for by an insertion or a move (`RepeatsAccounted`). That the emails stay UNIQUE
  (`EmailsStayUnique`) is what keeps that column free of ties through the updates.
- `StartupProofs`: `TypeOK`, `StartsInTime`, `SeededWhenReachable`, `NotGivenUpOn` and the refinement of
  `WorkerLife`, for any back-offs and deadlines. `RetryInv` says that attempts and back-offs begin no later than the context ends, and for
  how long Redis can have answered: no longer than an attempt that saw it away has lasted, then one
  attempt and the back-off so far. `SeedInv` says that only the API seeds, and that the database answers
  as long as `steady` says so. `SeedsWhenItCan` is then about what seeding leaves behind: `hashable` and
  `steady` exclude the refused password, the failing database and the email given up again.

Assumptions on the constants are named in the modules; `MaxLatency` is one about the environment,
because no timeout of the code limits a request.

Only model-checked: the liveness properties (`StreamedIsStored`, `ReactivationHeals`, `AdmitsAgain`,
`Recovers`, `SignalEnds`), which are out of the prover's reach, and the properties that the violation
runs refute. Where the code bounds a time, the bound is a safety property and proved: `HealingBounded`
is that form of `ReactivationHeals`, and needs no fairness. No proof needs induction over data: the modules use no recursion.

## Findings

The violations are disagreements of the code with its own documentation or tests; `PROJECT.json`
("findings") quotes the lines.

- `core_loss`: with core NATS, the default, an event answered 202 is dropped when no worker listens.
- `poison_stall`: a request without payload is never stored, redelivered for ever, and `MaxAckPending`
  of them stop the consumer. A stored event whose acknowledgement was lost comes to the same: each
  redelivery meets its own row and is refused, and it keeps its place among the `MaxAckPending`.
- `overtaken`: a validation may put a key's old state into the cache after the update's invalidation.
- `lost_update`: `PATCH /account` can change role and state, by writing back what it read before.
- `list_cut`: the lists of events and API keys do not ask `rows.Err()` and pass a broken answer for
  the whole page.

Three sentences of the documentation hold only under a condition, or not as they are written, and have
no run of their own:

- The admin account is created "automatically on first startup" (`README.md:144`) only if the database
  answers while it is seeded and bcrypt accepts the password (`steady` and `hashable` in
  `SeededWhenReachable`).
- "Exits if the connection cannot be established" (`cmd/api/main.go:175`) is not what a lazily
  connecting pool does (`ConnectPostgres`).
- "Admin routes (JWT only, admin role required)" (`internal/handler/router.go:122`; `README.md:219` says
  the same): these routes are behind `UniversalAuth`, which takes an admin's API key as well, and so does
  `Sessions` (`ApiKey`). `DemotionBounded` holds for both.

## Plan

The modules that were planned are there, and every invariant and action property of a passing run is
proved, as are all refinements. What could still be added: the bounds of `ApiKeyAuth` and `Sessions` drawn
from `Leases` instead of proved beside it; a theorem that joins the two implementations of `WorkerLife`
(the drain of `Startup` with `EventPipeline`'s buffers); larger instances (three workers, three requests).

## Not modelled

- The pages of the admin panel, metrics, logging, request IDs, CORS and validators keep no state that
  the others depend on.
- Password hashing, the signature of tokens and the encodings of messages and JSON are taken to work;
  their failure is an error path of the operation they belong to.
- Running migrations: the constraints they create are part of the modules that write the tables.
- The session of the admin panel (`authProvider.ts`): it is local to one browser, and the server decides
  every request by itself (`Sessions`); what the panel believes of its role only chooses what it shows.
- The statistics and the reads of single rows: the six counts are independent statements of which
  nothing promises that they agree, and the reads keep no state. The panel's `getMany` sends a filter
  the server does not know, which is a mismatch of two formats and no behaviour over time.
- What the configuration's parsers accept, beyond accepted or refused; the rate limits' periods are
  `RateLimiter`'s constants.
- `AcceptedIsStored` and `StreamedIsStored` except events without payload, and those whose author or key
  was deleted before the insert: the database refuses them for ever.
- Two requests with the same content are two events, since `CreateEvent` draws a new identifier for
  each; the code has nothing by which a repetition could be recognised.
