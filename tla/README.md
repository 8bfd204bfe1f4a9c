# TLA+ models of gamifykit

This directory holds TLA+ models of the gamifykit Go code under `src/`, with
the TLC configurations that check them. `PROJECT.json` lists the components,
the runs, the mutants that show each property can fail, the map from every
definition to the source lines it models, and the hazards the properties are
aimed at.

## 1. Inventory

The system counts and ranks user activity. An HTTP API (or an SDK, or a demo
server) calls the `GamifyService`. The service changes a user's state in a
storage adapter, publishes domain events on an `EventBus`, runs rules that
derive more events (level-ups), and bridges events to a realtime `Hub` for
WebSocket clients and to analytics hooks. A ranked leaderboard (a skip list)
is a separate in-memory index. The spec (`spec.md`) calls it the core of the
system.

| Component | Source | State kept | Operations | Concurrency / failure |
|---|---|---|---|---|
| Leaderboard skip list | `leaderboard/skiplist.go`, `leaderboard/leaderboard.go` | head sentinel, nodes with forward pointers per level, `byUser` index, `lvl`, PRNG | `Update`, `Remove`, `TopN`, `Get`, `randomLevel`, `removeLocked` | one `sync.RWMutex`: writers exclusive, readers shared |
| Board contract | `leaderboard/leaderboard.go` | (interface) | the same four calls | - |
| GamifyService | `unnamed/part_004` (package engine), `engine/interfaces.go` | references to storage, bus and rules | `AddPoints`, `AwardBadge`, `EvaluateRules`, `GetState`, `Close` | called from many HTTP goroutines at once; each call is several storage calls with no lock around them |
| Rules | `unnamed/part_002`, `core/types.go` (`DefaultLevel`) | none | `LevelUpRule.Evaluate` | pure; works on a snapshot read before it runs |
| Domain types | `core/types.go`, `unnamed/part_002` | none | `AddSafe`, `NormalizeUserID`, `ValidateBadgeID`, `Clone`, event constructors | integer overflow check |
| EventBus | `engine/service_test.go` lines 64-181 (the `EventBus` type) | subscriptions by type, `nextID`, a 2048-slot queue, 4 workers, a cancel context | `Subscribe` (and its unsubscribe closure), `Publish`, `dispatchSync`, worker loop, `Close` | async mode drops when the queue is full; 4 workers deliver in any order; `Close` abandons queued events |
| Realtime Hub | `unnamed/part_007` lines 152-211 | subscriber channels by id, `next` | `Subscribe`, `Unsubscribe`, `Broadcast` | `Broadcast` copies the channels under a read lock and sends after unlocking; `Unsubscribe` closes a channel |
| Memory store | `adapters/memory/storage.go` | `sync.Map` of user records, each with a mutex | `AddPoints`, `AwardBadge`, `GetState`, `SetLevel` | each call is atomic per user, nothing spans two calls |
| Fallback store | `gamify/gamify.go` (`inMemoryFallback`, `memStore`) | a plain map | the same four calls | no lock at all; used by `gamify.New` with async dispatch |
| JSON file store | `unnamed/part_001` | map cache + a file written via tmp + rename | the same four calls, `load`, `persist` | memory is changed before `persist`; a failed persist returns an error but keeps the change |
| Redis store | `adapters/redis/storage.go` | keys per metric, badge set, level keys, a cached JSON state with 5 min TTL | the same four calls, cache fill and invalidation | `GetState` rebuilds from keys and writes the cache after other writers may have invalidated it |
| HTTP API | `api/httpapi/httpapi.go` | per-client token buckets | routing, auth, CORS, `rateLimiter.allow` | `now` is read before the limiter lock |
| Analytics | `analytics/*.go` | counters and sets per day/week/month, aggregations, stream subscribers, export buffers | `OnEvent`, `AggregateNow`, `PublishEvent`, `Export`, `Flush` | mutex-protected maps; the stream publisher copies subscribers before calling them |
| Webhook sink | `unnamed/part_005` | endpoints | `OnEvent` (HTTP POST per endpoint) | errors ignored |
| SDK client | `unnamed/part_000`, `sdk/go/types.go` | base URL, headers | HTTP and WebSocket calls | network I/O only |
| Config | `config/config.go`, `unnamed/part_008` | the loaded config | `Load`, `Validate` | none |
| Server wiring | `cmd/gamifykit-server/*`, `unnamed/part_006`, `unnamed/part_007` lines 1-150 | none | building the app | none |

How the parts interact: an HTTP request passes the rate limiter, the API-key
check, CORS and the mux (`NewMux`), and then a handler calls
`GamifyService.AddPoints`. The
service calls `storage.AddPoints`, then `bus.Publish(PointsAdded)`, then
`storage.GetState`. It evaluates the rules on that snapshot, and for each
level-up it calls `storage.SetLevel` and `bus.Publish(LevelUp)`. Bus handlers
(registered by `gamify.New` and the servers) call `Hub.Broadcast`, which sends
to every WebSocket subscriber's channel. The leaderboard is driven by an
external scoring authority that calls `Update(user, total)`. No code in this
repository calls it yet.

What makes the system hard:

- Skip list: the remove-then-insert in `Update`, the update vector, growing
  and shrinking `lvl`, and the tie-break order. The lock makes every call
  atomic, so the difficulty is in long sequences of legal calls.
- Engine: `AddPoints` is four storage and bus calls with no lock around them.
  Two calls for the same user interleave, and `SetLevel` is a blind write of
  a level computed from a snapshot that may be stale.
- EventBus: dropped events, out-of-order delivery by 4 workers, events
  abandoned by `Close`, handlers run after they were unsubscribed.
- Hub: `Broadcast` sends on channels it copied before a concurrent
  `Unsubscribe` closed them.
- Stores: a persist that fails after memory changed (JSON file); a cache
  filled from a read that an invalidation overtook (Redis); an unlocked map
  (fallback store).

Properties that make each component correct:

- Skip list: every level is sorted by (score desc, user asc) and acyclic;
  towers are nested; `byUser` matches level 0; `lvl` is tight; and the whole
  structure implements the Board contract (`TopN` gives the ranking, `Get`
  gives the stored score).
- Engine and rules: a stored level never decreases, and it never lags the
  level of the stored total once no call is in flight; one LevelUp per level
  reached; the stored total is the sum of the applied deltas.
- EventBus and Hub: no send on a closed channel; every published event is
  delivered unless the bus says it may drop it; ordering per user as far as
  the bus promises it.
- Stores: an error return means the change did not happen; the cache never
  serves a state older than the last completed write.
- Rate limiter: tokens stay in `[0, burst]` and time never runs backwards
  for a bucket.

## 2. Plan

Modules, in the order they are built:

1. `SkipList` (done). The leaderboard, one action per exported method, with
   the search, splice, shrink and allocation as operators. `MCSkipList`
   instantiates it.
2. `LeaderboardSpec` (done). The Board contract as an abstract map from users
   to scores. `SkipList` is shown to implement it by `INSTANCE ... WITH` a
   refinement mapping, checked as the property `LeaderboardRefinement`.
3. `Core` and `Engine` (done). `GamifyService.AddPoints` and `AwardBadge` as
   per-call processes over the per-user atomic memory store, with
   `LevelUpRule`, `DefaultLevel` and `AddSafe` as operators.
4. `Hub` (done). `Subscribe`, `Unsubscribe` and `Broadcast`, split at the
   unlock.
5. `EventBus` (done). Sync and async modes, a bounded queue, several workers
   and `Close`.
6. `RedisStore` (done). The cache fill and invalidation race, as a
   read-your-writes violation, and the Lua overflow check letting 2^63
   through, as a violation of its own.
7. `JsonFileStore` (done). Persist failure and a crash at any step of
   persist; the file is compared with the last acknowledged store.
8. `FallbackStore` (done). The unlocked `memStore`, as a lost-update violation.
9. `RateLimiter` (done). The token bucket with `now` read before the lock.
   It is checked against the documented burst.
10. `Realtime` (done). The async `EventBus` composed with the `Hub` through
   `gamify.New`'s bridge handlers.
11. `Analytics` (done). The metrics hook, `AggregateNow` and the stream
   publisher with its WebSocket and dashboard subscribers.
12. `Export` (done). The periodic export, `ExportData` over the console,
    HTTP and Segment exporters, with POSTs that are lost or late.
13. Reference checks of pure code (done): `GetTopMetrics`
    against the definition of a top-k (`Analytics`), and the HTTP handler
    chain against the README's route table (`HttpRoutes`). `AddSafe` is
    checked through the engine (`StoredTotalExact`).

The abstract specifications worth stating are:

- the Board contract (done);
- the durable `engine.Storage` contract, `StorageSpec`. The JSON file
  store is shown to refine it (done).
- a bus that delivers every event to every subscriber (for `EventBus` and
  `Hub`). Both drop events by design (a full queue, a full buffer), so
  this contract holds only with the drops allowed.

The Redis store cannot refine `StorageSpec`. Its Lua check lets a sum of
exactly 2^63 through, and `AddSafe` refuses that sum.

## 3. What is modelled and checked

### SkipList (`SkipList.tla`, `MCSkipList.tla`, `MCSkipList.cfg`)

State, as in `SkipList` and `node`:

- `next[x][i]` is the forward pointer of node `x` (or of the sentinel `head`)
  at level `i`.
- `entry[x]` is the node's `Entry`.
- `lvl` is `s.lvl`.
- `byUser[u]` is the node `s.byUser` maps `u` to, or `Nil`.
- `lastRead` is what the last `TopN` or `Get` returned, with its argument.

Node addresses come from a finite set `Nodes`. An allocation (`&node{e: e}`)
takes an address that no pointer from the head and no `byUser` entry
reaches, which is what Go's collector guarantees. The new node's fields are
overwritten completely. `randomLevel` is a nondeterministic choice of
`1..MaxLevel`: the PCG seed comes from `crypto/rand`, so any level can be
drawn at any call.

Actions: `Update(u, s)`, `Remove(u)`, `TopN(n)`, `Get(u)`. Each one is the
whole method. The RWMutex is held for the full body, so no other call can see
an intermediate state, and each method is one atomic step. `Update` composes
`removeLocked` (when the user is present) with the insertion in one step,
exactly as the method does under one lock. The search loop is `Advance` per
level and `SearchFrom` for the update vector. `Shrink` is the `for s.lvl > 1`
loop, and `Collect` is `TopN`'s loop.

Properties (run `skiplist`):

- `OrderedLevels`: every level is finite and strictly ordered by rank, so
  level 0 has no duplicate user. The order is written apart from `less`.
- `TowerNested`: a node linked at level i is linked at every lower level.
- `IndexMatchesChain`: `byUser` and level 0 hold the same nodes, each indexed
  under its own user.
- `LevelTight`: no head pointer at or above `lvl`, and the top level is in use
  unless `lvl = 1`.
- `LeaderboardRefinement`: `SkipList` implements `LeaderboardSpec` under the
  mapping "score of u = entry of byUser[u]". `TopN(n)` returns the first n
  entries of the ranking, and `Get` returns the stored score. Reads record
  their argument, so a `TopN(2)` that returns three entries cannot pass as a
  `TopN(4)`.

Bounds: 3 users (ids 1 < 2 < 3 stand for three strings in Go order), scores
{0, 1}, so ties happen, `MaxLevel` 3, 3 node addresses, and `TopN`
arguments {0, 2, 4}. These cover `n <= 0`, truncation and `n` beyond the
size. Three levels let a removal shrink `lvl` by two at once, and let an
insertion raise it by two. Node addresses are symmetric model values. The
view `LiveView` ignores the contents of unreachable nodes. They are never
read again, because allocation overwrites every field. The run has about
33,000 distinct states and takes about 30 s.

What the run shows: the skip list keeps its four structural invariants and
implements the Board contract over every sequence of calls within the
bounds. The mutants show that each property catches a plausible slip:

- ties not broken by user id;
- only level 0 relinked on removal;
- `Update` without the removal;
- no shrink;
- `TopN`'s loop running one step too far.

No fairness is assumed. The leaderboard is passive, and the only liveness
it could have is that calls return. Each call is a single step, so it
returns.

### Core and Engine (`Core.tla`, `Engine.tla`, `MCEngine.tla`, `MCEngine*.cfg`)

`Core` holds the pure code of package `core`:

- `AddSafe`, with int64 shrunk to `IntWidth` bits and Go's two's-complement
  wrap (`Wrap`), so that the overflow boundary is reachable;
- `DefaultLevel`, through an integer square root. float64 is exact at these
  magnitudes, so the float path of the code (`math.Sqrt`, the rounding
  above 2^53) is not modelled and no run checks `DefaultLevel` against its
  curve: the integer square root could only be checked against itself;
- the event constructors and `LevelUpRule.Evaluate`.

`Engine` models `GamifyService` over `memory.Store` with the default rule
engine.

- State: the store's `points`, `levels` and `badges` per user. Per caller,
  the `pc`, the call's arguments, the `total` returned by the store and the
  derived events not yet handled. The bus is `published`, the log of events
  in publication order (a synchronous bus).
- Callers: each caller in `Procs` is a goroutine (an HTTP request) making
  `MaxCalls` calls. Each memory-store method holds the user record's mutex
  for its whole body, so it is one step. The service has no lock, so a call
  is split at every storage or bus call:
  - `AddPoints` covers the checks and `storage.AddPoints`;
  - `PublishPoints`;
  - `GetStateAndEvaluate` reads the snapshot and runs the rules;
  - `SetLevel`;
  - `PublishDerived` loops back to `SetLevel` for further derived events.
  `AwardBadge` and `PublishBadge` are split the same way. The early returns
  are part of the first step: zero delta, blank user, invalid badge, and an
  overflow refused by `AddSafe`.
- Ghost variables: `exact` is the unbounded sum of the applied deltas, and
  `peak` is the highest total stored.
- `Terminating` lets the finished system stutter. It is not a deadlock: the
  callers simply made all their calls.

Runs:

- `engine_concurrent` (pass, two callers, two calls each):
  - `StoredTotalExact`: the stored total equals the exact sum of the applied
    deltas. No update is lost, and a sum past `MaxInt` is refused, not
    wrapped.
  - `LevelBackedByPoints`: no stored level is above the level of the peak
    total.
  - `EngineBehindRoutes`: the HTTP front of the engine (`HttpRoutes`, below)
    follows the README's route table. It is a constant, so TLC evaluates it
    once, and it is checked as an invariant of the callers' states.
  - `TypeOK`.
- `engine_level_race` (violation), `StoredLevelNeverDecreases`: the first
  caller adds -100 XP and reads a snapshot (level 1 derived). The second
  adds +200, reads, and writes level 2. The first then writes level 1.
  `SetLevel` is a blind write of a level computed from a stale snapshot, so
  the stored level goes down. This is a bug in `AddPoints`
  (`part_004:51-58`).
  The same interleaving also publishes LevelUp 2 before LevelUp 1, or the
  same level twice. The module states this as `LevelUpsIncrease`, which the
  same race violates. With one caller at a time, `LevelTracksPeak` and
  `LevelUpsIncrease` hold, but unit tests reach that sequential case, so no
  run checks them.

Bounds: one user, because users never share a record or a lock. Metrics
`xp` and `coins` are included, so the rule's metric filter is exercised.
Deltas are {0, -100, 200}: 0 is rejected, and negative deltas lower the
total below the peak. `IntWidth` 10 gives `MaxInt` 511: two +200 calls reach
400 (level 3), and a third overflows. Badge ids are one valid and one
invalid. The concurrent run has about 96,000 states and takes about 80
seconds.

Mutants:

- `AddSafe` without its upper check;
- `LevelUpRule` computing the level from `total + delta`, from the delta
  alone, or with `>=`;
- the derived-event loop not exiting after the last event;
- `withAPIKeyAuth` refusing only a missing key (`AuthMissingOnly`).

No fairness is assumed. Every property is a safety property. The
interesting behaviour is which interleavings are possible, not whether a
call finishes.

### Hub (`Hub.tla`, `MCHub.tla`, `MCHubClosedSend.cfg`)

State:

- `subs` is the set of ids in `h.subs`, and `next` is `h.next`.
- Each id has a channel, `buf[id]` (the buffered events) and `closed[id]`.
- Broadcasters (the bus handlers that call `Broadcast`) have a `bpc` and the
  set of copied `receivers` they have not sent to yet.
- `readerDone[id]` says whether the reader of id's channel has stopped.
- `crashed` records a panic.

Actions:

- `Subscribe` and `Unsubscribe` each hold the write lock, so each is one
  step.
- `Broadcast` is `BroadcastCopy`, the read-locked copy, then one
  `BroadcastSend` per copied channel. The sends go in any order, because Go
  randomises map order. `Subscribe` and `Unsubscribe` can run between them.
- A send is the `select` with a `default` case:
  - on a closed channel it panics (`crashed`);
  - on a full buffer it drops the event;
  - otherwise it appends the event.
- `Receive` is the reader's `for ev := range ch`, as `hub_test` does it. The
  reader side (the WebSocket adapter) has no source in the repository.

Runs:

- The hub's `TypeOK` is checked in the `realtime` run, where the
  broadcasters are the bus workers (see Realtime). No run states that an
  unsubscribed reader stops: `Unsubscribe` closes the channel in the same
  step, so that would only restate `close(ch)`, which `hub_test` already
  tests.
- `hub_send_on_closed` (violation), `NoSendOnClosedChannel`: a subscription
  is made, a broadcast copies its channel, `Unsubscribe` closes the channel,
  and the broadcast sends on it and panics. The select's `default` only
  covers a full buffer, not a closed channel. This is a bug in `Broadcast`
  (`part_007:197-200`). Fixes: send while holding the read lock, or make
  `Unsubscribe` not close the channel while a broadcast holds a copy.

Bounds: two broadcasters (the bus runs handlers on several workers), two
subscriptions, two broadcasts each, and buffer 1 (as in the tests), so full
buffers drop events.

### EventBus (`EventBus.tla`)

The `EventBus` type sits in `engine/service_test.go` (lines 64-181).

State:

- `active` and `subType` are the subscriptions.
- `nextID` is `e.nextID`.
- `unsubbed` holds the ids whose unsubscribe function has returned.
- `queue` is `asyncQueue`, and `cancelled` says whether the context has
  been cancelled.
- Each goroutine that runs `dispatchSync` (a publisher in sync mode, a
  worker in async mode) has the event it is dispatching and its `pending`
  copied handlers.
- `accepted`, `dispatched` and `delivered[id]` record what happened to
  events.

Actions:

- `Subscribe`, `Unsubscribe` (the returned closure) and `Close` are one step
  each. `Close`'s sleep changes nothing.
- `Publish` (async) enqueues the event, or drops it on a full queue.
  `Publish` (sync) performs the copy.
- `WorkerTake` and `WorkerExit` are the two cases of the worker's `select`.
  When both are ready, either may be taken.
- `CallHandler` is one handler call of the dispatch loop.

Runs:

- `TypeOK` is checked in the `realtime` run. There the handlers are the
  hub bridges, and `AcceptedHandledUnlessClosed` becomes
  `AcceptedBroadcastUnlessClosed`. That a handler gets only its own type,
  once per event, is not a run: it restates the type filter of the copy and
  the worker taking each event once.

`EventBus` has no MC module of its own. `Realtime` instantiates it, and
the `realtime` run checks it.

`Close` can drop a queued event. An event is queued, `Close` runs, and
both workers take `ctx.Done()`, so the event is never handled. Close's
comment says "allow workers to drain briefly", but nothing waits for the
drain. This state is reachable in `realtime`, and
`AcceptedBroadcastUnlessClosed` states the guarantee the bus does give
under Close. An earlier run checked the drop as its own violation.

Two more hazards are listed in `PROJECT.json`, and no run checks either
of them:

- A dispatch copies the handler list under the read lock. A handler
  unsubscribed after the copy is still called. In the repository nothing
  unsubscribes from the bus (the realtime bridges never do), so the late
  call cannot happen in the composed system.
- Two workers can handle one publisher's events out of order. The bus
  documents no order.

The sync mode (`Mode` = "sync") is in the module, but no run
instantiates it. The services run it as the engine's direct publication,
which `Engine` models.

Bounds: one publisher making two calls, two event types (so the type
filter matters), two subscriptions, two workers and a one-slot queue. Two
workers are the least that can race on `Close`. One slot is the least that
can be full.

### FallbackStore (`FallbackStore.tla`, `MCFallbackStore.tla`, `MCFallbackConcurrent.cfg`)

The store that `gamify.New` uses when it is given none
(`gamify/gamify.go`). `inMemoryFallback.ensure` creates a `memStore` on
first use. `memStore` is a map with no lock, and every service call
reaches it from bus handlers and callers at once.

The heap is explicit:

- `mem` is `m.mem`.
- `dataOf` holds each store's data map.
- `entries` holds each map's UserState, as one address standing for its
  shared Points, Badges and Levels maps. `ensure` makes the three maps
  together.
- `pts`, `bdg` and `lvl` hold those maps.

Every read or write of a shared field is one step:

- `FbCheck`, `FbAlloc` and `FbRead` (inMemoryFallback.ensure);
- `DataAlloc` (memStore.ensure);
- `Lookup` and `StoreNew`;
- `ReadPoints`, `WritePoints` and `Save` (memStore.AddPoints);
- `WriteBadge` and `Save` (memStore.AwardBadge);
- `WriteLevel` and `Save` (memStore.SetLevel).

A goroutine's call is any member of `Ops`: AddPoints, AwardBadge,
SetLevel or GetState.

The ghost `exact` sums the deltas of the calls that returned success.

- `fallback_lost_update` (violation), `FallbackTotalExact`: two goroutines
  both find `m.mem` nil. Each creates its own `memStore`, and the one that
  loses the race writes its points into a store that is then dropped. The
  same happens between `ReadPoints` and `WritePoints` on one store. A call
  reports success, but its points are gone. Go's "concurrent map writes"
  detector may instead crash the process. That check is best effort and is
  not modelled.

An AwardBadge or a SetLevel on a new user races an AddPoints the same way.
Its `StoreNew` can overwrite the entry that carries the points.

Bounds: one user, the metric xp, +200 per AddPoints, one badge, one level,
and two goroutines with two calls each.

The serial case is not a run. With one goroutine the module's steps reduce
to the memory store that `Engine` already checks.

### RedisStore (`RedisStore.tla`, `MCRedisStore.tla`, `MCRedis.cfg`, `MCRedisStaleRead.cfg`)

State:

- The keys of the Redis server: `pts[u][m]`, `lvl[u][m]`, `badges[u]`.
- The cached state `cache[u]`, with whether its TTL is still running.
- Per goroutine: `pc`, the call `op`, and the state being built.
- Ghosts: a version per points key, the versions a `GetState` read (`got`),
  and the `floor` of versions its caller's own writes had reached.

Actions: every Redis command is one step, because nothing is held between
two commands of a method:

- `Script` is the Lua script of `AddPoints`, with its overflow check;
- `SAdd` and `SetLevel`;
- `Invalidate` is the DEL, which may fail (its error is ignored);
- `GetCached`, then `KeysPoints`, `GetPoints`, `SMembers`, `KeysLevels`
  and `GetLevels` rebuild the state, and `UpdateCache` writes it;
- `Expire` is the TTL running out.

Runs:

- `redis_overflow` (violation), `PointsStayInt64`: the script is documented
  as "atomic point addition with overflow protection". Its check compares
  with the literal 9223372036854775807, which as a Lua double is 2^63, so a
  sum of exactly 2^63 passes and is SET. `buildStateFromKeys` cannot parse
  that value back as an int64 and skips the key ("Skip invalid entries"),
  so `GetState` shows no points for the metric, and the next `AddPoints`
  starts from a float. In the model two +256 calls at 10 bits reach 2^9,
  the same boundary. This is a bug in `storage.go:113`.
- `redis_stale_read` (violation), `ReadYourWrites`: a `GetState` reads the
  keys, a concurrent `AddPoints` runs its script and its DEL, and the
  `GetState` then caches the older state. The writer's next `GetState`
  returns a total without its own write. This is a bug in
  `storage.go:166-175`.

Bounds: two goroutines with two calls each, one user, the metric xp, deltas
{0, 256, -100} at 10 bits (two +256 reach exactly 2^9).

No run checks that a stale cache eventually goes away: with the TTL as
an action the model may always take, that would hold by the model's shape.
A failed DEL (`storage.go:139`) leaves the cache stale until its TTL, and
no run checks that either: `redis_stale_read` keeps the DEL reliable so
that its trace shows the race alone.

Not modelled: how Lua writes a number with SET. Values from 1e17 up are
written in exponent form (`%.17g`), which `.Int64()` cannot parse either.
That is a matter of the data's size, not of the control, and a 10-bit
model has no such values.

### JsonFileStore (`JsonFileStore.tla`, `StorageSpec.tla`, `MCJsonFileStore.tla`, `MCJsonFileCrash.cfg`)

Every method holds `s.mu` for its whole body, so one caller is enough.
`data` is `s.data` (Nil while the process is down), and `file` and `tmp`
are the contents of `path` and `path.tmp`: a snapshot, missing, or `Torn`.
A call changes memory in one step. `Write` is MkdirAll plus WriteFile, and
`Rename` is the rename. Both can fail. `Crash` can happen at any step, and
it tears the file being written. `Restart` is `New(path)`.

- `jsonfile_crash` (pass), `RestartLoadsLastAck`: the file always loads, and
  it always holds exactly the store as of the last call that returned
  success.
- `JsonFileImplementsStorage` (same run): the store refines `StorageSpec`.
  That module is the durable `engine.Storage` contract. `mem` is the state
  served, `Down` while the process is down, and `disk` is what a restart
  loads. Each call changes `mem` as the interface says (AddPoints through
  `AddSafe`). `Sync` writes out the current `mem`, and `Restart` loads
  `disk`. The mapping takes `mem` from `s.data` and `disk` from `path`.
  The users a snapshot lists are left out, since `get` adds an empty
  state only. A failed persist is allowed: the change stays in `mem`
  unsynced, which is hazard `part_001:89`. Mutant: `SetLevel` writing the
  level into the Points map. `RestartLoadsLastAck` cannot see that, but
  the refinement can.

Bounds: one user, four calls, one crash. A +300 delta at 10 bits makes the
second `AddPoints` overflow.

### RateLimiter (`RateLimiter.tla`, `MCRateLimiter.tla`, `MCRateLimiterBurst.cfg`)

`withRateLimit` and `rateLimiter.allow` (`api/httpapi/httpapi.go`). Each
request goroutine takes two steps:

- `Arrive` takes one request of `Requests` and is `clientKey` (from
  `HttpRoutes`) and `now := time.Now()`;
- `Allow` is the body under `l.mu`, and it ends in the answer.

`Tick` moves the clock. Tokens are kept in ticks (`TicksPerToken` ticks per
token), so the float arithmetic is exact. Ghosts count the granted requests
per key, and whether the key was ever denied.

- `limiter_burst` (violation), `NoDenialWithinBurst`: a client is refused
  only after `Burst` of its requests were allowed. Two first requests of one
  client read the clock at ticks 1 and 2, and the later one takes the lock
  first, creating the bucket. The earlier one then sees a negative elapsed
  time, and its refill removes half a token. It is refused after one allowed
  request, with a burst of 2. This is a bug at `httpapi.go:306-317`: reading
  `now` under the lock, or clamping elapsed at 0, fixes it.

Bounds: two goroutines with two requests each, burst 2, two ticks per
token, and three ticks. These bounds are the smallest in which the two
clock reads can differ. The requests come from one host. Two of them carry
the key `k1` and share a bucket. One carries an unknown key and gets a
bucket of its own. Two carry no usable key: a preflight, and a probe whose
blank bearer token hides its `X-API-Key`. Both count against the host.

### HttpRoutes (`HttpRoutes.tla`, checked from `MCEngine.tla`)

What `NewMux` answers to one request once the rate limiter has let it
through, as operators from a request to `[status, call]`. `call` is the
engine call made, or `"none"`. `ok` is whether that engine call succeeds.

- A request is a record with these fields:
  - the method;
  - the path, as the segments `split` returns. `PathPrefix` is taken as
    empty; `TrimPrefix` leaves the same segments for any prefix.
  - the `Authorization` header: none, a blank bearer token, or a key;
  - the `X-API-Key` header;
  - the remote host;
  - the `delta` parameter.
- Ids, badges and deltas are tokens. `BadUserIds`, `BadBadgeIds` and
  `BadDeltas` are the tokens that `NormalizeUserID`, `ValidateBadgeID` and
  `ParseInt` refuse.
- `ExtractAPIKey`, `ClientKey`, `UsersHandler` (with every early return in
  code order), `HealthCheck`, `Mux`, `WithCORS` and `AuthCheck` are one
  operator per Go function. `CorsChain` and `Handler` are `NewMux`'s
  wrapper order: auth outermost, then CORS, then the mux.
- `RoutesFollowTable` compares the chain with a reference. The reference
  is the README's endpoints (`GET /healthz`, `POST /users/{id}/points`,
  `POST /users/{id}/badges/{badge}`, `GET /users/{id}`) plus "a configured
  key in either header", as `Options.APIKeys` documents it ("via
  Authorization: Bearer or X-API-Key"). `Presents` does not copy
  `extractAPIKey`'s precedence. It checks four things:
  - the engine is called only for a request that presents a configured
    key in one of the headers and whose inputs for that call are valid;
  - every endpoint with valid inputs, sent with a configured key in its
    only key header, calls its operation;
  - a request that reaches the engine gets 2xx exactly when the call
    succeeds;
  - a request that presents no configured key in either header gets 401.
- `MCEngine` instantiates the module with one key, CORS and a hub. It
  checks the property on 648 requests: three methods, nine paths, four
  `Authorization` headers, three `X-API-Key` headers (none, the key, a
  wrong one) and two deltas. The property is `EngineBehindRoutes` of
  `engine_concurrent`.

What the reference accepts, read off the code:

- `/healthz` answers any method.
- A `GET` of any path below a user id answers that user's state.
- Auth wraps CORS, so with keys configured a browser preflight, which
  carries no key, gets 401. The README suggests CORS for calls from a
  React app; with keys configured that needs a same-origin proxy.

The reference states these the way the code behaves.

What the reference leaves open: a request that sends both headers. There
`extractAPIKey` takes the `Authorization` header whenever it has the
bearer prefix, so a blank or wrong bearer token refuses a valid
`X-API-Key` with 401. The documentation's "Bearer or X-API-Key" does not
say which header wins, so completeness is claimed only for requests with
one key header. Soundness and the 401 rule do cover both-header requests.
No run checks the precedence itself.

### Realtime (`Realtime.tla`, `MCRealtime.tla`, `MCRealtime.cfg`)

`gamify.New` with a hub (as `provideService` builds it, with async
dispatch) subscribes one bridge handler per event type. Each handler calls
`hub.Broadcast`. `Realtime` composes `EventBus` (mode "async") and `Hub` by
`INSTANCE ... WITH` over disjoint variables:

- The bus workers are the hub's broadcasters.
- `HandlerStart` is the bridge call, which begins with `Broadcast`'s copy.
- The hub's `BroadcastSend` steps follow.
- `HandlerEnd` returns to the dispatch loop after the last send, as
  `Bus!CallHandler`.
- After a panic (`crashed`), no bus step runs.

- `realtime` (pass, `FairSpec`):
  - `AcceptedBroadcastUnlessClosed`: every accepted event is eventually
    dispatched to every bridge, unless `Close` ran or a send panicked. A
    broadcast never blocks a worker for good.
  - `TypeOK`: the queue and the buffers are within capacity.

Fairness: weak fairness only on steps of goroutines that are already
running: a worker's select, the handler start and end, each send of a
broadcast, and a reader with something to read. `Publish`, `Close`,
`Subscribe` and `Unsubscribe` are up to callers.

Bounds: two event types, one publisher with two calls, two workers, a
one-slot queue, two clients and buffer 1. The run has about 94,000 states.

Mutants:

- the send allowed on a full buffer;
- a worker exiting when the queue is empty.

### Analytics (`Analytics.tla`, `MCAnalytics.tla`, `MCAnalytics.cfg`)

The analytics service of `analytics/` as `NewAnalyticsService` wires it: a
`StreamPublisher` (the hook) updates `ComprehensiveMetrics` and publishes to
its subscribers. The subscribers are a `DashboardManager` (registered as
"dashboard") and WebSocket subscribers. An `AggregationEngine` reads the
metrics.

Time is a tick clock, with `TicksPerDay` ticks per day. The day, ISO week
and month keys become numbers: weeks have 7 days and months 28, so no
month is split.

State:

- the metrics: active users per day, week and month; points and badges per
  day; the real-time counters;
- the publisher: the registered subscribers, and per emitter its pc and
  the subscribers it copied;
- each WebSocket subscriber's buffered event count, `closeChan` and whether
  its reader got `io.EOF`;
- the dashboard's count of recent events;
- the aggregation engine: the remaining getter calls of the running
  `AggregateNow`, the data being built, and the stored aggregates.

Actions:

- `Emit` is `StreamPublisher.OnEvent`: `ComprehensiveMetrics.OnEvent`, one
  step under `cm.mu`.
- `Copy` is `PublishEvent`'s read-locked copy.
- `Deliver` is one call of its loop, either the WebSocket select or the
  dashboard append.
- `Subscribe` and `Unsubscribe` are one step each (under `sp.mu`; `Close` is
  called inside).
- `ReadEvent` is the reader's select.
- `AggStart` begins `AggregateNow`. `AggRead` is one getter call under
  `cm.mu.RLock`, in `Plan`'s order: daily, then weekly (its days in order),
  then monthly. Each period's aggregate is stored after its last read.

- `TopMetrics` is `GetTopMetrics` as an operator, a function of the
  points map read under `cm.mu.RLock`:
  - the `range` copy in a given map order (`TopSlice`);
  - the exchange sort (`ExchangeSort`, RECURSIVE);
  - the cut to `limit`;
  - the totals (`SumValues`).

- `analytics` (pass, `Spec`; every property is a safety property):
  - `WeeklyCoversDays`: whenever `ae.mu` is free, a stored weekly aggregate
    covers its stored days. No day has more active users than its week, and
    the days' points and badges add up to at most the week's. This holds
    because the weekly reads come after the daily one, and counters only
    grow. Reading weekly first breaks it (the `PlanWeeklyFirst` mutant).
  - `TopMetricsAreTop`: for every map of four metrics to points 0..2,
    every map order (`SetToSeqs`, standing for Go's random map iteration)
    and every limit in {0, 1, 2, 3, 5}, `GetTopMetrics` returns
    min(limit, n) distinct metrics of the map with their points. They come
    most points first, no metric left out has more points than one
    returned, and the points total is that of the returned metrics and
    the rest. The badge map passed is a different map (one badge per key),
    and the badges total must be its sum, so taking one map for the other
    is caught.
    Ties come out in whatever order the map gave, which is why the check
    covers every order. It is a constant, evaluated once.
  - `TypeOK`: the buffers and the dashboard's recent list are within their
    bounds.

No fairness is assumed: the run checks safety properties only.

`Subscribe` takes a subscriber id that is not registered. The code's
`SubscribeToRealtime` (`streaming.go:49`) overwrites an existing entry
under the same id without calling its `Close`. The old subscriber's
reader then never gets `io.EOF`. The model does not reach this, because
its ids are WebSocket subscribers that subscribe once.

Bounds:

- one emitter with two events, one user, +10 points, kinds points_added
  and badge_awarded;
- one WebSocket subscriber with buffer 1, and a dashboard keeping 1 event;
- two aggregations, two ticks per day, and the clock up to 2, so events
  fall on two days of one week.

The run has about 560,000 states and takes about a minute. With a clock
of 2 the 24-hour reset of the real-time counters is never reached. A larger
clock makes the run too large (see Not modelled).

Mutants:

- `DashboardAppend` without the trim;
- the weekly aggregate read before the daily one;
- the exchange sort putting the smaller points first.

### Export (`Export.tla`, `MCExport.tla`, `MCExport.cfg`)

`startPeriodicExport` (`analytics/integration.go`) runs the exporters of
an `AnalyticsService` built with an "http" and a "segment" exporter. On
every tick, `GetAllAggregatedData` copies the daily aggregates in Go's map
order. `ExportManager.ExportData` then hands each aggregate to the console,
HTTP and Segment exporters in turn, and calls `em.Flush` at the end.

State:

- `store` is `dailyAggregations`. An aggregate is abstracted to its day,
  a version (one per `AggregateNow` call of the day) and the set of its
  non-zero fields.
- `epc`, `snap`, `i`, `j` and `k` are the export goroutine: where it
  is, the copied slice, the aggregate, the exporter, and the Segment event
  being sent.
- `buf` is the HTTP exporter's buffer.
- `httpGot` and `segGot` record what the endpoints received, and
  `appended` is every aggregate ever put in `buf` (ghost).

Actions:

- `Aggregate` and `NewDay` are the aggregator. `Tick` is the ticker.
- `ConsoleExport`, `HttpExport` and `SegmentExport` are one exporter step
  each.
- `HttpPost` is `HTTPExporter.Flush` with a non-empty buffer, from a full
  batch or from `em.Flush`. `FlushEmpty` is `em.Flush` with nothing
  buffered.
- `Advance` is the loop structure of `ExportData`.

Fault model: a POST fails before the endpoint got it (lost), or after
(late, a timeout or an error status once the body was taken). Each
endpoint fails at most `MaxHttpFails` or `MaxSegFails` times. Any error
ends the whole `ExportData`: the rest of the aggregates, the rest of the
exporters and the final Flush wait for the next tick.

Fairness: weak fairness on the ticker and on the export goroutine's steps.
The ticker fires every six hours, and a running goroutine makes progress.
The aggregator and the days are left unforced.

Run `export` (pass), with two days, two versions a day, non-zero field
sets {}, {au, bdg} and all three, a batch of 2, and one failure per
endpoint. It has about 306,000 states and takes a few seconds.

- `BufferKeepsUnsent`: every aggregate appended to the HTTP buffer has
  reached the endpoint or is still buffered. Flush clears the buffer only
  after a successful response.
- `BufferBounded`: the buffer holds at most `Batch` aggregates plus one
  per failed POST. After a failure leaves a full buffer, the next append
  reaches the `>=` test in `Export` and POSTs again.
- `AllEventuallyExported`: once the failures are spent, every day's latest
  aggregate reaches the HTTP endpoint, and Segment gets an event for each
  of its non-zero fields. Each error aborts `ExportData`, but the next tick
  exports everything again.

The module has no type invariant in this run. `ExportData`'s loops are Go
`range` loops, so no plausible change to the code moves an index out of
range, and such an invariant would say nothing about the code.

Mutants:

- `HttpPost` clearing the buffer before checking the response
  (`BufferKeepsUnsent`);
- `Export` flushing only when the length equals the batch size
  (`BufferBounded`);
- `convertToSegmentEvents` without the badges event
  (`AllEventuallyExported`).

The code itself sets no absolute bound on the buffer: while the endpoint
keeps failing, every tick appends again. Not checked: in
`NewAnalyticsServiceWithConfig` the `BatchSize` default is set after the
exporter has been built (read off the code; batching is not observable by
the properties, so it is not listed as a hazard), so a zero batch size reaches `NewHTTPExporter`,
and every `Export` POSTs at once.

## 4. Not modelled

- The SDK client, the webhook sink, config loading and validation, the server
  wiring and the examples are network I/O, environment parsing and
  assembly, with no state a model checker can say anything about.
- The WebSocket adapter (`adapters/websocket`) and the SQL adapter
  (`adapters/sqlx`) have no source in the repository (only a test of the SQL
  adapter).
- Analytics: `MultiExporter` (never used by the service), the exporters'
  `Close` methods, and the JSON encoding of the bodies.
  `convertToStreamEvent` only formats. The
  per-metric, per-badge, level-distribution and achievement maps are
  increments under `cm.mu` that no getter used by `AggregateNow` reads.
  `GetRealtimeStats` only reads (without the lock, for the subscriber count).
  A negative `limit` would make `GetTopMetrics` panic in its slice
  expression; its callers pass 5 and 10. The real-time counters'
  24-hour reset is in `MetricsOnEvent`, but no run reaches it.
- HTTP API: `withPrefix` and `split` (string handling; the model takes the
  segments `split` returns), the JSON bodies, the `/ws` handler (the Hub
  model covers the hub), and `ServeMux`'s redirect of `/users` to
  `/users/` (301; the path `<<"users">>` is answered 404 in the model).
  When both key headers are sent, which one wins is not checked (see
  HttpRoutes).
- Analytics: `StreamPublisher.Subscribe` replacing a subscriber under an id
  already in use without closing the old one (see Analytics).
- Redis: the `KEYS` glob and `redisKeyParts` parsing (user ids are taken
  without ':' or '*'), the rounding of Lua doubles near 2^63 other than the
  literal of the check, the exponent form Lua's SET writes for values from
  1e17 up, and connection errors of commands other than DEL.
- `AddPoints`' ordering of PointsAdded and LevelUp across bus workers: the
  bus documents no order (see the EventBus hazards).
