# gorl in TLA+

Specifications, model checks and proofs for gorl, a Go rate limiting library:
four algorithms (fixed window, token bucket, leaky bucket, sliding window) over
two stores (a concurrent in-memory map, and Redis through Lua scripts).
The modules are translated from the code under `src/`; `PROJECT.json` maps every
definition to its lines.

## 1. Inventory of the system

| Component | State | Operations | What is hard | What makes it correct |
| --- | --- | --- | --- | --- |
| In-memory store, `storage/inmem/inmem.go` | a `sync.Map` of `*item`, an atomic counter and a fixed expiry in each, `done` channel | `Incr`, `Get`, `Set`, `Close`, the collector goroutine | no lock anywhere: CAS loops, load-or-store, replacement of expired items, a collector that decides with an old clock | no increment lost or revived, nothing but expired items removed, every call atomic, no livelock, memory reclaimed |
| Storage contract, `storage/storage.go` | expiring numbers | `Incr`, `Get`, `Set`, `Close` | atomicity only per call: a limiter's several calls are not one | the linearizable counter store of `CounterStore` |
| Fixed window, `internal/algorithms/fixed_window.go` | one counter per key and bucket | `Allow` | the bucket is chosen before the `Incr`, the expiry counts from the first `Incr` | at most Limit admissions per bucket, no needless denial |
| Token bucket, `token_bucket.go` | two store keys, a mutex | `Allow` | four fallible accesses, two expiries, integer and float64 rounding | the rate; `RetryAfter` and `Reset` kept |
| Leaky bucket, `leaky_bucket.go` | two store keys, a mutex | `Allow` | the same, with float64 quotients | the rate; `RetryAfter` and `Reset` kept to a unit |
| Sliding window, `sliding_window.go` | three store keys, **no** mutex | `Allow` | check-then-act, a rotation in three writes, races and failures inside it | the rolling estimate; counts that agree with history; recovery from stale counts |
| Redis scripts, `storage/redis/lua/*.lua`, `scripts.go`, `redis.go` | two or three keys with one expiry | `Incr`, `EvalScript` | clocks of several callers, duplicated, late and lost requests, millisecond expiries | the same promises over all instances |
| Helpers, `common.go` | none | `failOpenHandler`, clamps, unit conversions | an error may hide an applied write | fail-open admits without counting, and never blocks |
| Configuration, `config/resource.go`, `core/*.go` | none | `LoadResourceConfig`, `toCore`, `Validate` | two layouts of a file, invalid parts anywhere in it | only valid policies get through, unchanged |
| Construction, `limiter.go` | which store, which limiter | `New`, `NewResourceLimiter`, `Close` | a failure after the store is open; a wrapper that could hide the scripts | the policy asked for is enforced; no store left open |
| Resource router, `resource_limiter.go` | a limiter per resource over one store, `closeOnce` | `AllowResource`, `Close` | concurrent `Close`, key isolation | the store is closed once; resources do not mix |
| Middleware, `middleware/{http,gin,echo,fiber}` | none | key functions, headers, 429, denied and error handlers | layers in a chain, four ways to hand a request on, delays rounded to seconds, proxies | served exactly if admitted; delays long enough; an obedient client gets through |
| Metrics, `metrics/prometheus.go` | counters of a library | `IncAllow`, `IncDeny`, `ObserveLatency` | — | — |

How they interact: `New` picks a store and hands it to a limiter; `Allow` reads
the wall clock, makes one (fixed window), four (buckets) or four to eight
(sliding window) store calls, and turns them into a `Result`. When the store offers
`EvalScript` (Redis), the three multi-key limiters send a single script with
their own clock reading instead. Goroutines share the store, and for the two
buckets a mutex of the limiter; instances share Redis. An error of the store
goes to `failOpenHandler`, which admits or refuses without further writes. A middleware
layer turns a request into a key, asks one limiter, and answers or hands the request on.

The hazards this code is exposed to are listed, each at its line and with the
properties that cover it, in `PROJECT.json` under `hazards`.

## 2. The modules

| Module | Models | Based on |
| --- | --- | --- |
| `CounterStore` | abstract: what a concurrent store of expiring counters promises | — |
| `InMemStore` | the in-memory store, one action per access to shared memory; its refinement mapping | `CounterStore` |
| `TTLCell` | one key of a store as a limiter sees it; float64 rounding; `clampDuration` | — |
| `LimiterConfig` | what a limiter is built with, as a variable that never changes | — |
| `FixedWindow`, `TokenBucket`, `LeakyBucket`, `SlidingWindow` | one limiter each, on a generic store | `LimiterConfig`, `TTLCell` |
| `SlidingEstimate` | the sliding window arithmetic that Go and Lua share | `LimiterConfig`, `TTLCell` |
| `RedisScripts` | the Lua scripts as functions of the keys and the caller's clock | `SlidingEstimate` |
| `RedisLimiter` | instances with their own clocks calling a script over a network | `RedisScripts` |
| `ResourceRouter` | the resource-scoped limiter: routing, storage keys, `Close` | — |
| `Construction` | configuration files, validation, `New`, `NewResourceLimiter`, `Close` | — |
| `Middleware` | clients, proxies, chains of middleware layers of the four frameworks | `TTLCell` |
| `InMemStoreProofs`, `FixedWindowProofs`, `TokenBucketProofs`, `LeakyBucketProofs`, `SlidingWindowProofs`, `RedisLimiterProofs`, `MiddlewareProofs` | theorems about the module of that name | the module, TLAPS |
| `RouterProofs` | theorems about `ResourceRouter` and `Construction` | both, TLAPS |
| `MC*` | TLC instances: records of parameters, symmetry; `MCRouter` explores `ResourceRouter` and `Construction`, one or the other, since they share no state | the above |

### The in-memory store

`heap` holds every item ever published; a pointer is a position in it, so
`CompareAndSwap` and `CompareAndDelete` compare positions, and `data` is
`sync.Map`. The program points of a call are its accesses: `IncrCall` (the call
and its first `Load`), `IncrStamp` (the clock reading for a new item),
`IncrLoadOrStore`, `IncrClock` (the expiry check), `IncrSwap`, `IncrReadValue`,
`IncrCas`, `IncrReload` (after `continue`); `GetCall`, `GetClock`, `GetValue`;
`SetCall`, `SetStore`. The collector reads the clock once (`GcTick`), visits
the keys one at a time and in any order (`GcVisit`) as `Range` does, and deletes
between two visits (`GcDelete`). `Close` stops the collector and nothing else: the
code keeps serving calls after it. Values are the numbers the float64 bits stand
for. The history fields of a call (`time`, `item`, `top`) and `due` are read by
properties and the refinement mapping only.

`CounterStore` is the promise: a key goes through generations with fixed expiries, and
each call takes effect in one step between its invocation and its return. It says
exactly which relaxations the code makes: an `Incr` may count on a generation that
was current during the call and unexpired when the call began, although it may have been
replaced or have expired since. The mapping is at the end of `InMemStore`: the published
items are the generations, the map says which of them are current, and a call is pending until its
last access. `ImplementsCounterStore` is the promise under that mapping.

The limiter modules use a store whose `Get`, `Set` and `Incr` are atomic
(`TTLCell`): the refinement is what justifies it. For one key and a `TTL`
counted from the moment of the step, `Read`, `Written` and `Incremented` are the
steps `GetHit`/`GetMiss`, `SetOpen` and `IncrBump`/`IncrOpen`; the delay between a
call and its effect is in the limiters' own steps.

### The limiters

A limiter is built once from a `core.Config`, so its parameters are one record:
`cfg`, chosen by `Init` from the constant `Configs` and left unchanged by every action
(`LimiterConfig`). The record also says what environment this limiter runs in: whether its
store can fail (`mayFail`), the spacing of its float64 values (`grain`), and the bounds
of the clock, the stalls and the calls. The modules give the fields the names used below
(`Limit`, `Grain`, `MaxTime`, ...). One TLC run explores all the records of its `MC` module.

Each limiter module is one key's `Allow` on a generic store with a goroutine per
element of `Threads`. A call reads the clock once and keeps it in
`loc[t].now` while time goes on; each store access is an action; `StoreError` is
`failOpenHandler` after any of them, and a write that reports an error may or may
not have been applied. `Float64(x, Grain)` is the rounding a `UnixNano` meets when it is
stored as a float64 (today every 256th nanosecond is representable). Times of
`now` start at one or at `Grain` because zero means "absent" to the code.

* `FixedWindow` keeps the counters of all buckets. `RefreshTTL` chooses
  between the in-memory counter, whose expiry is fixed, and the Redis script, which
  pushes it back.
* `TokenBucket` and `LeakyBucket` hold the mutex `mu` from `Lock` to
  `Return`. `LeakyBucket` takes its quotients from `Floors`: with `Inexact`, a
  quotient that should be a whole number may also come out one less, as the
  float64 product `elapsed * (limit/window)` does for windows of one second and
  limits such as 2, 4 or 10000. So may the product `water * nanoPerToken` of `Reset` when
  `nanoPerToken` is no whole number (29 calls a second, at level 29: 999,999,999 ns). Results
  that are no whole numbers are taken to lose only their fraction, which holds while
  `elapsed * limit`, `leaked * window` and `water * window` are below 2^52.
* `SlidingWindow` has no mutex. `GetTs` selects the first-request,
  rotation or plain path; `SetAccess` tables the six `Set` calls in code order.
  `Outcomes` allows both answers when the estimate equals the limit and the ratio is
  a fraction.

### The Redis path

A Lua script is atomic, so it is a function from the key tuple and the caller's
clock to the new tuple, the verdict and the two delays. All keys of a script are
set with one time to live and expire together on the server's millisecond clock
(`ExpiryOf`: Redis drops a key when the clock is beyond its expiry millisecond). `RedisLimiter`
gives each instance a clock up to `MaxSkew` ahead, lets a request run
up to `MaxDelay` after it was sent, lets the client library send it again
(`Resend`; the first copy may run before, after or never) and lets an instance
give up (`StoreError`) on a request the server may still run. Redis and the client
library are external: they are modelled from how `scripts.go` uses them.

### The resource router

`ResourceRouter` keeps one limiter per configured name and a default one over a
shared store. The limiters are abstract here: a counter per storage key, one window
(`LimiterAllow`, and `StoreError` for Redis). `buildResourceKey` is modelled as a string,
because `Isolated` is about the characters in it: a string with a decimal number
and a colon in front is the pair of that number and the rest. `Close` goes through
`closeOnce`: `OnceRun` is the first caller, which goes on to `StoreClose`; `OnceWait` is a
caller that waits until `Do` has returned; `CloseReturn` reads `closeErr`. After a close, calls
still count in the in-memory store and fail on Redis, as in the code.

### Construction and configuration

A program holds at most one configuration at a time (`held`), from a file (`Load`) or its own
(`Make`), and builds limiters from it. A document is a record of policies; its text is left to the
decoders, except that a window may not parse (`Parses`), and a file's fields may be in an
envelope, which replaces those beside it. `New` and `NewResourceLimiter` take every outcome
of opening the store; each store goes on record in `stores`, with `open` until somebody
closes it. Where the two constructors differ in their clean-up, the actions differ:
`NewResourceLimiter` closes the store when the strategy is unknown and `New` does not. The
module's specification is `BuildSpec`, so that one module can hold the theorems of router and construction.

### The middleware

A chain is a sequence of layers, each with its key function, its handlers and
its limiter, in one of the four frameworks (`cfg.framework`). `Handle` is one layer's whole
handler: the key from the request, `Allow`, the headers, the answer, and whether the next handler
runs: net/http, echo and fiber call it, gin runs it unless the layer has
aborted (`GoesOn`). The limiter is `core.Limiter`'s contract, owed per key: a denied key that
waits for `RetryAfter` is admitted unless another call was admitted meanwhile; it may also fail.
`Sent` has the honest ways of a request, straight or through proxies. What a client was told is
in seconds (`told`), what a limiter owes in finer units (`owed`), and both run down
with `Tick`, so the state is finite without a bound on time.

## 3. What is checked

All runs are small instances for TLC. `now` is bounded by `MaxTime` and the number of
calls by `MaxCalls` in every module, so a behaviour stops when both are
used up: `CHECK_DEADLOCK FALSE` everywhere. Every bound is a constant of the module
and a conjunct of `Allow`/`Begin` or `Tick`.

| Run | Question | Instances (the records of the `MC` module) |
| --- | --- | --- |
| `MCInMemStore` | increments exact; acts on live items; only expired items leave; `ImplementsCounterStore` | 3 goroutines, 1 key, `Incr`, `Get` and `Set`, 3 calls, expiry 1, clock to 3 |
| `MCInMemStoreLive` | `LockFree`, `ExpiredReclaimed` | 2 goroutines, fair scheduler |
| `MCFixedWindow` | limit per counter generation; no needless denial | 3 goroutines; `Late`: delays of two windows, errors; `Prompt`: refreshed expiry, no delay |
| `MCTokenBucket` | rate, `RetryAfter` and `Reset`, the mutex | 2 goroutines; `Reliable`, `Stalled` (a stall of most of a window), `Rounded` (float64 times), `Failing` (store errors), `Stepping` (three tokens, four calls, the wall clock is set back by up to two units) |
| `MCTokenBucketReset` | *violation*: `ResetKept` | a stall of two units, two calls |
| `MCLeakyBucket` | rate, `RetryAfter` and `Reset` | `Fractional` (`Window` not a multiple of `Limit`, inexact quotients and products), `Rounded`, `Failing` |
| `MCSlidingWindow` | counts match history; rolling limit; no needless denial; `RetryAfter`; stale counts are forgotten | `Sequential`: one call at a time, 6 calls, three windows; `Rounded`: the same with clock readings that float64 rounds; `Racing`: 2 goroutines, errors in a rotation, five windows; `Straggling`: 2 goroutines that are stalled, so that a call of a window that is over counts in the next |
| `MCSlidingWindowRetry` | *violation*: `RetryAfterKept` | `Sequential` |
| `MCSlidingWindowRace` | *violation*: `AtMostLimitAtOnce` | 2 goroutines |
| `MCRedisLimiter` | shared rate, rolling limit, `RetryAfter` and `Reset` | 2 instances, skew 1, delay 1; token bucket and sliding window with resends, leaky bucket with timeouts; `Bursting`: a sliding window with time for two bursts at a boundary |
| `MCRouter` | isolation of names and keys; one close; termination; the policy asked for is in force; nothing left open | router: 3 goroutines, 4 calls, names and keys that meet when only a colon is between them, both stores; construction: files and literals with every kind of invalid part, up to two stores |
| `MCMiddleware` | served exactly if admitted; announced delays kept; obedient clients served | `Shared`: two clients and a proxy at one layer; `Custom`: two layers with handlers of their own on failing limiters; `Stacked`: an obedient client behind two layers; each framework |

Why the bounds are enough for what they ask:

* In the store one key suffices for the data races, because an `Incr`, `Get` or
  `Set` touches the entry of its own key only, and the collector treats the entries
  independently. Three goroutines give one that wins and two that lose in
  different ways; three calls let an item be created, expire, be replaced, be
  overwritten by a `Set` and be incremented; `TTL = 1` and a clock to 3 let two generations expire.
* In the buckets both keys expire within the run, so every combination of one key gone and one
  present occurs, before and between the two Gets. `MaxTime` exceeds two windows but in the instances
  `Failing`, which pass one and have more calls instead. The token bucket's `Stepping` has one call more
  than `Limit`, and passes two windows on the monotonic clock. `MaxStall` bounds
  only the time between a clock reading and the last `Get`. What a stall does to the promises is
  stated in them, not assumed away: a call then decides with a clock that is older than
  what it finds expired.
* The sliding window runs pass three windows when calls come one at a time: one in which counts
  are made, one in which they are carried, and one in which they must be gone; and five when
  calls race. `StaleCountsForgotten` speaks of four windows, and they are tight: with three, TLC
  finds a count that is still in force.
* In the Redis runs a millisecond is three microseconds and the windows are four and five: the
  server's and the callers' units differ, and a window is no whole number of
  milliseconds, so its keys expire early. Each record has resends or timeouts, so that a
  script is run twice or for nobody.
* In the middleware two layers give one that admits and one that refuses; a second of
  four units and delays of 0, 2, 3 and 7 give delays below a second, ones that the body rounds
  down, and the middle, which goes to the even second. Time has no bound.
* Of construction, two stores let one limiter be closed while another is open, and one
  construction fail beside one that worked. Every reason to fail has a document.

### What the properties say

*In-memory store.* `NoLostIncrement`: an item's value is its initial value plus one
for each `Incr` that returned on it. `ActsOnLiveItem`: a call past its expiry check holds
an item that its key mapped to during the call and that was valid when the
call began. `OnlyExpiredLeave`: apart from `Set`, an entry is removed or replaced only if its
item has expired by now, although the deciding clock reading is older. `LockFree`: whatever the other
goroutines do, and however often, a call under way returns or the shared memory
changes again and again; nobody spins on an item or a value that is the same every time. It is not promised
that each call returns: one may lose every race. `ExpiredReclaimed`: an entry that has expired is removed or
replaced in the end.

*Fixed window.* `BucketLimit`: at most `Limit` admissions per counter a bucket can go
through, which is one counter when calls are prompt. `DeniedOnlyWhenFull`: behind
every denial are `Limit` other increments.

*Buckets.* `RateBound`: over any interval, at most `Limit` plus one per
`TimePerToken` (the leaky bucket: per `LeakInterval`), with three corrections. The first is the
rounding of stored times, which in the leaky bucket is part of the interval, since each call rounds the
last leak anew. The second is what failed calls give back, at most `(Limit - 1) \div 2` each, because
a failed call leaves a count written beside an old time. The third is `Lent`: when a key expires
between a call's clock reading and its Gets, the call decides with a clock older than what it
finds gone, and takes the bucket for new before it is. The last expiry started a window before,
so that happens once in a window at most. In the token bucket it is
`Limit * (TimePerToken - Err) + MaxStall - Window - 1` if that is positive: for a policy whose `Limit` divides its `Window`
on today's clock (`Err` = 128 ns), a stall of up to `128 * Limit` ns and one lends nothing, and a longer one
the rest. In the leaky bucket it is a leak interval and the stall, and nothing with exact quotients, exact times and a stall of one unit.
The token bucket's rate is stated for token times longer than `Err`.

`DelaysKept` (token bucket) and `DelaysNearlyKept` (leaky bucket) are promises about a *later* call, whoever makes it.
With no token taken in between, the token bucket denies nobody who reads the clock `RetryAfter` or more after a
denied call. `Reset` comes with two reservations. The stored refill time may have been
rounded up, so the bucket is full `Err`, half a grain, later than announced. And the count, which is
written first, may have expired when the refill time has not: the call then finds the tokens that
have come in since the refill, at least `Sure`, those of a window less the stall and half a grain. That is
`Limit` when a window is that much longer than `Limit` token times, and can be one less when `Limit` divides the
window, as in 100 calls a minute. It takes a call that reads its clock before the count expires and gets
it after. Without the reservations the promise is `ResetKept`, and false.

The leaky bucket truncates float64 delays to a `Duration`. A call that reads the clock *later* than `RetryAfter` after a
denied one, by a nanosecond at least, is admitted. One that reads it later than `Reset` finds the bucket
empty, also when either key has expired by then, but for another nanosecond where the product can come
out short (`Late`: `nanoPerToken` is no whole number) and for half a grain (`Err`, 128 ns today), by which the stored
leak time may have been rounded up. TLC finds a violation without any one of the three.

In the token bucket's `Stepping` the wall clock is set back, during a call or
between two; announcements made before are void, those made after it hold, and
the rate holds throughout. One `Reset` may be short there: while the stored refill time is ahead of the
clock, the bucket's count can expire before it is full, and then only the time that an empty
bucket needs is promised (`FullAt`). `MutexReleased` covers errors inside the critical section.

*Sliding window.* One call at a time on a store that works (`Undisturbed`), `CountsMatchHistory` relates the three keys to the calls
really counted, through rotations and expiries, up to what float64 makes of a stored clock reading
(`Drift` for one, `Blur` for the two windows that a reading is carried through) and to what a stall can
make a rotation miss (`Late`). `RollingLimit` is what the estimate guarantees: at most twice
`Limit` calls in any interval of nearly a window, and in a shorter one at most one more than `Limit`
and what accrues in it. A full window of up to `2 * Limit` calls does occur. `DeniedOnlyWhenFull`: a denial
has `Limit` counted calls in the two windows before it. All three ask for stalls and rounding that are
small beside the window (`Prompt`). With concurrent
callers or failed rotations none of them holds: counts can be read twice, once as previous and once as
current, and the number of calls admitted together grows with the number of goroutines. What
remains is `StaleCountsForgotten`: a denial needs a call counted in the four
windows before it, so no key stays blocked by corrupted counts.

*Redis.* `SharedRate` (the buckets) and `SharedRollingLimit` (the sliding window) hold
over all instances, with the clocks' skew and the requests' delay as their only allowance (`Spread`): each lends what
accrues in it, however many requests run late or twice. A bucket's rate is promised within the life of the keys
(`Lifetime`, the window in whole milliseconds), since an expiry refills the bucket. `SharedDelaysKept` is
`RetryAfter`, and `Reset`: a script that runs `Reset` or more after the previous one decides and leaves
the keys as a first call does, although by then it may be the keys' expiry or the
arithmetic that emptied them.

*Resource router.* `Isolated`: what is admitted and denied for a name and key depends on the
calls of that name and key only. `ClosedOnce`: one close of the store, finished
before any caller of `Close` returns, its outcome told to all. `CallsReturn`: nobody waits in
`closeOnce` for ever.

*Construction.* `InForce`: each limiter enforces for each name exactly the policy asked for,
envelope and default included, never calls a nil metrics collector, and decides in a
script whenever the store has scripts and the strategy several keys, also behind the wrapper of a shared
store. `NothingLeftOpen` says exactly which stores nobody can close any more: one
whose strategy `New` did not know, and a Redis client whose `Ping` failed.

*Middleware.* `ServedIffAdmitted`: the handler runs exactly for requests that all layers
admitted, and no layer after a refusal is asked. `AnnouncedDelaysKept`: with nothing admitted
in between, a client that waits for the seconds of `Retry-After`, or half a second
more than the body says, is not denied by the same layer, whatever way its requests take.
`ObedientClientServed`: two layers, of which the first counts what the second
denies, do not send an obedient client to and fro for ever.

### Disagreements between code and documentation

1. `core/core.go:56` calls `RetryAfter` the earliest *reliable* delay. When the
   current count is at the limit, the sliding window announces the time to the boundary, at
   which the count still weighs in full: a retry at that instant is denied; one
   nanosecond later it is not (`MCSlidingWindowRetry`, `RetryAfterNearlyKept`). A delay of exactly
   whole seconds carries this into the `Retry-After` header.
2. `core/core.go:55` calls `Reset` the time until the limiter fully refills. In the token bucket the
   count can expire before the refill time, which was written later: a call whose Gets come after the
   one expiry and before the other is credited with the time since the refill only, a token less
   than `Limit` (`MCTokenBucketReset`). Half a grain of rounding can do the same for a
   call exactly `Reset` after the previous one.
3. `core/core.go:37` calls `Limit` the maximum per window. The sliding window on the in-memory
   store is check-then-act without a lock: two goroutines are both admitted by the same
   last place (`MCSlidingWindowRace`).

Seen while modelling, without a run: the fixed window counter lives for a window from its first
increment rather than to the end of its bucket, so a call that is delayed past the window restarts it
and the bucket admits more than `Limit` (the case `BucketLimit` allows for). The README says the
middleware "always sets" (`README.md:206`) and a comment that it sets "on all
responses" (`middleware/http/middleware.go:131`) the rate limit headers; an error response has none, nor
has any with `SetHeaders` off. The body of a denial, rounded to the nearest
second, may announce up to half a second less than the header.

### Fairness

`InMemStore`: weak fairness of each goroutine's next access and of the collector:
the Go scheduler runs every runnable goroutine, the ticker keeps firing. Nobody
has to call the store or close it. The router: weak fairness of each goroutine's
steps. The middleware: weak fairness of each layer's `Handle`, of `Tick`, since time passes, and of
the `Retry` of an obedient client, which is what makes it obedient. New calls and requests are
never assumed to happen. No fairness is assumed of the limiters: their liveness is
that nobody leaves with the mutex, an invariant.

## 4. What is proved

`InMemStoreProofs` proves, for any sets of goroutines, keys and values and any times,
with `ConstantsAssumption` (a non-empty set of keys, natural numbers elsewhere) as the only
assumption:

| Theorem | Statement |
| --- | --- |
| `InductiveInvariant` | `IInv /\ [Next]_vars => IInv'` |
| `TypeCorrect` | `Spec => []TypeOK` |
| `IncrementsExact` | `Spec => []NoLostIncrement` |
| `LiveItemsOnly` | `Spec => []ActsOnLiveItem` |
| `ExpiredOnlyLeave` | `Spec => OnlyExpiredLeave` |
| `StoreRefines` | `Spec => ImplementsCounterStore` |

None of the three safety properties is inductive. `ActsOnLiveItem` speaks of
goroutines past the expiry check, but what they hold was loaded before it; and
`OnlyExpiredLeave` depends on what `IncrSwap` and the collector learnt from an
earlier clock. `IInv` adds: the map holds published items under their own keys
(`MapOK`); since a call began, its key has mapped to nothing, to the item it mapped to
then, or to one published later (`CallOK`); the item it holds is one of those
(`HeldOK`); past the check it was valid at the start, and on the way to a replacement
it has expired for good (`CheckedOK`); the same for the collector's entry (`CollectorOK`).

The argument has two halves. `Frame` is what a step guarantees to everybody who does not
take it: the clock and the heap only grow, items keep key and expiry, and a key keeps its
item, loses it, or moves to an item published by this very step. `OthersOK`
derives from `Frame` that the bystanders' parts of `IInv` survive, and one lemma per action
proves the acting goroutine's part. `IncrementsExact` needs the type invariant only, but the
CAS: the value compared is the value incremented.

`StoreRefines` is a step simulation from `IInv` and a second invariant, `Promises`: the expiry that a
call has computed for a new item counts its `TTL` from a moment of the call, and a `Get` still holds
the item that its key had when it began. With them every access of the code is one abstract step or a stutter.
The step of an `Incr` is the successful CAS on the value, `LoadOrStore` or `CompareAndSwap`; that of a
`Set` its `Store`; that of a `Get` the load of the value or the failed expiry check; and a deletion
by the collector is `Forget`.

`RouterProofs` proves, of `ResourceRouter`, for any goroutines, names, keys and policies, with
`NamesAssumption` (names and keys are strings over an alphabet with a colon) and
`ConfigsAssumption` (positive limits, what `Validate` enforces):

| Theorem | Statement |
| --- | --- |
| `TypeCorrect` | `Spec => []TypeOK` |
| `ResourcesIsolated` | `Spec => []Isolated` |
| `StoreClosedOnce` | `Spec => []ClosedOnce` |

`Isolated` needs to know that the store's count under a storage key is the number of
calls of one name and key (`CountsOK`), which rests on `KeyInjective`: the lengths in
front are equal, so the names are the prefixes of equal strings at the same length.
`ClosedOnce` needs what each state of `closeOnce` stands for (`OnceOK`): only one goroutine is
ever in the function, and nobody reports before it is done.

`FixedWindowProofs`, for any goroutines (finitely many), limits, windows and delays:

| Theorem | Statement |
| --- | --- |
| `TypeCorrect`, `WindowLimited`, `DenialsJustified` | `Spec => []TypeOK`, `[]BucketLimit`, `[]DeniedOnlyWhenFull` |

The limit needs a bucket's counters told apart, and the state does not number them.
Their expiries do: counter number `j + 1` cannot have expired before `j + 1` windows and units
from the start of the bucket (`Within`), since each starts after the one before it expired. The
denials need every increment accounted for (`Accounted`) and that passing calls are
among those counted (`SpentOnPassing`).

`TokenBucketProofs`, for any goroutines, limits, windows, failures and clocks that are set back:

| Theorem | Statement |
| --- | --- |
| `TypeCorrect`, `MutexIsReleased` | `Spec => []TypeOK`, `[]MutexReleased` |
| `DelaysAreKept` | `Spec => DelaysKept` |
| `RateIsBounded` | `Spec /\ []FailuresOrStepsBack => []RateBound` |

The delays need no assumption. A second invariant, `KInv`, ties announcements to the two keys. A denial
leaves the refill time where it is, to the last grain (`Stored`), so what is left of a `RetryAfter` can be read off the store
(`RetryOK`). From the end of `Reset` on, the time since the stored refill is enough for the tokens
missing in the stored count, and it is enough for all of them too unless the refill time was written
about when the count was (`FullOK`). During a call that is true of the two values together only, so `InHand` says what the
goroutine with the mutex holds, also that a count it has lost had expired by its clock and a stall, from which comes
`Sure`; and `KeptBy` that its decision keeps what was announced.

`FailuresOrStepsBack` is the one assumption of the rate: accesses that fail and a clock that is set back do
not come in one run. Stalls are not bounded by anything, nor is `Limit` by the window: what they cost is `Lent`. The
instances of `MCTokenBucket` all meet it. The rate needs a third invariant, `RInv`. `Ahead` is what the grants from the `i`-th
on are over `Limit`, and `Within` bounds it, for every `i`, by two things in the store: the
stored pair, through the tokens that any number of refills would add, and the expiry of the refill time, at
which the bucket becomes full, `Lent` too early at most. Each expiry that is used so adds one `Lent` and one whole window
to a count (`Covered`, `Passed`), from which comes the quotient in `RateBound`. A decision turns both into a
bound on its own clock reading and on the refill time it is about to store (`Afforded`, `Paid`), and the two Sets turn that
into `Covered` again. A call that fails between them leaves its count beside the old refill time; `GivenBackAtMost` is the
argument that this is worth `GivenBack` tokens and no more.

`LeakyBucketProofs`, for any goroutines, limits, windows, roundings and failures:

| Theorem | Statement |
| --- | --- |
| `TypeCorrect`, `DelaysAreNearlyKept` | `Spec => []TypeOK`, `Spec => DelaysNearlyKept` |
| `RateInvariant`, `RateBoundHolds` | `Spec => [](IInv /\ RInv)`, `Spec => []RateBound` |

The first invariant is a relation between announcements and stored values: from the announced
time on, the time since the stored leak times the limit is more than the level times the
window (`EmptyAfter`). Only the mutex makes it one: between its Gets and its Sets a call's
copies are what is stored (`LocalOK`). When a denied call moves the last leak, its own
announcement is made from the moved time, and earlier ones are the shorter (`KeptBy`). The products that
come out short are in it as `Late`.

The rate has an invariant of its own, `RInv`. Of the calls admitted since a grant, those but the stored level are paid
for by the time up to the stored last leak (`Covers`); what has leaked since then is
counted as level too (`Due`), because one call only can use it. That is a statement about two keys with two expiries. While
both stand (`Stands`), it bounds what is lost when one goes: the keys outlive the last leak by a
window, and a window leaks `Limit` requests (`LeakGone`, `WaterGone`). Once the last leak is gone (`Gone`), time must have paid for
everything. Each expiry that a call sees costs one `Lent`, and the expiry times in `Stands` say
that the next one is a window away, which is where the quotient in `RateBound` comes from. During a
call, `CallPays` says at each program point what the store would owe were the call to fail there
(`Owing`, with one more failure) and what it will owe when both keys are written (`Writing`). A call that
fails between its Sets leaves a drained level beside a last leak that did not move, so that the
leak is used twice; `HalfWritten` shows that this is worth `GivenBack` requests at most. `LeakInterval > 0` is the only condition.

`SlidingWindowProofs`, for any goroutines, that race and fail anywhere:

| Theorem | Statement |
| --- | --- |
| `TypeCorrect`, `StaleCountsAreForgotten` | `Spec => []TypeOK`, `Spec => StaleCountsForgotten` |
| `OrderlyInvariant` | `Spec => [](IInv /\ SInv)` |
| `CountsAreHistory`, `RollingLimitHolds` | `Spec => []CountsMatchHistory`, `[]RollingLimit` |
| `DenialsAreJust` | `Spec => DeniedOnlyWhenFull` |

Nothing relates the three keys when calls race, so `IInv` does not: it traces every live count,
in the store (`CellsOK`) or in a goroutine's hands (`LocalOK`), to a counted call. A current count
expires two windows after it was begun, a previous one was a current one when it was read and
lives for two more, and each copy may lie about for a stall.

`SInv` is for calls that come one after the other, and does relate them: at every point between two
accesses of the one call under way, it says which of the three keys are written already and what the
history was when each of them was. A rotation writes them one by one, each with an expiry that starts
anew, so the keys of one window may expire under the next call; `Late` is what that can take from a count, and
`Drift` what the rounding of the stored window start moves between two windows. The rolling limit then
follows from the estimate: the last call of an interval was admitted on counts that
contain, as `Kept` says of the three keys, all the others.

`RedisLimiterProofs`, for any instances, limits, windows, clocks, delays, resends and timeouts:

| Theorem | Statement |
| --- | --- |
| `InductiveInvariant`, `TypeCorrect` | `Spec => []IInv`, `Spec => []TypeOK` |
| `SharedRateHolds`, `SharedRollingLimitHolds` | `Spec => []SharedRate`, `[]SharedRollingLimit` |
| `SharedDelaysAreKept` | `Spec => SharedDelaysKept` |

A script is one step, so there is one lemma for what each script does to the keys on a reading
that is `MaxSkew` ahead of the server or `MaxDelay` behind it at most (`Reading`), and the
steps of the network only have to keep requests within that (`Underway`). A bucket's keys account for
the grants that are not older than their life (`Level`): those they do not count as used have been paid for by the
time to the stored one. That time never goes back, whatever the readings do, which is why
a late or repeated request cannot lend twice. The window's keys hold the newest grants, those in
the current window and those in the one before it (`Counted`). `Promised`, the properties in terms of a
history, is carried along, since keys that have expired no longer witness it. For the delays a further
invariant says of the last decision that the keys, or their expiry, still stand for what it announced
(`Announced`).

`MiddlewareProofs`, for any clients, proxies, paths, chains and limiters:

| Theorem | Statement |
| --- | --- |
| `TypeCorrect`, `ServedOnlyIfAdmitted` | `Spec => []TypeOK`, `[]ServedIffAdmitted` |
| `AnnouncedDelaysHold` | `Spec => AnnouncedDelaysKept` |

`OnItsWay`: a request at layer `i` has passed exactly the layers before it. `ToldCoversOwed`: what
is left of a told delay is never less than what the limiter owes the key; it rests on the rounding
(`CeilCovers`, `NearestCovers`) and on all ways of a client's request having one key.

`RouterProofs` also proves, of `Construction`, for any names, files, configurations and number of stores:

| Theorem | Statement |
| --- | --- |
| `BuildTypeCorrect`, `AskedIsEnforced`, `StoresAreClosed` | `BuildSpec => []BuildTypeOK`, `[]InForce`, `[]NothingLeftOpen` |

`NothingLeftOpen` needs that no two limiters share a store (`OwnStore`), or closing one
would take another's; `InForce`, that a configuration in hand is what was asked for.

Model-checked only: the four liveness properties (`LockFree` of the store, `CallsReturn` of the router,
`ExpiredReclaimed`, `ObedientClientServed`), since fairness and `ENABLED` are out of the prover's
reach; and `RetryAfterNearlyKept` of the sliding window. The two expected violations are TLC's.

## 5. What is not modelled

* The Prometheus exporter, which calls a third-party library, the examples and the benchmarks.
* `Result.Remaining`, the headers made from it and from `Reset`, latencies, and in `FixedWindow` the
  `Reset` and `RetryAfter` fields, which are read from a second clock when the call returns.
* A wall clock that steps back under the leaky bucket and the sliding window; the token
  bucket's arithmetic and the stores' are the same.
* `Get` and `Set` of the Redis store: no limiter calls them, since it has `EvalScript`.
* Integer overflow: limits, windows and nanosecond times are far from 2^63, and
  counts from 2^53.
* A second `Close` of the in-memory store, which panics; `Construction` closes a limiter once.
* Token times of 128 ns or less, where the rounding of the stored time is as large as the interval
  and the rate is lost.
* The decoders of JSON and YAML and the frameworks' own address resolution: `Parses` and
  `FrameworkIP` are what they promise.

## 6. Plan

Done, in this order: `CounterStore`, `InMemStore` with its runs and proofs; the
buckets; the fixed window; the sliding window; the Redis path; the resource router and its proofs;
construction and configuration with their proofs; the middleware with its proofs; the
clock that is set back under the token bucket; the proofs about the limiters; the refinement of
`CounterStore`, the sliding window's calls one at a time, the Redis path and the leaky bucket's rate, proved.

Left, to model: the token bucket script and `allowGeneric` of one caller as the same abstract
bucket, and the leaky bucket as its mirror image; `Reset` and `RetryAfter` of the fixed window.

Left, to prove: `RetryAfterNearlyKept`, from `SInv` and what the last result announced.
