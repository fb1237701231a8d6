----------------------------- MODULE LeakyBucket -----------------------------
(***************************************************************************)
(* The leaky bucket limiter on a generic store                             *)
(* (internal/algorithms/leaky_bucket.go, allowGeneric) for one key.        *)
(*                                                                         *)
(* Two store keys hold the water level and the time of the last leak; a    *)
(* call holds the limiter's mutex while it reads the clock and then reads  *)
(* and writes both keys one after the other.                               *)
(*                                                                         *)
(* Unlike the token bucket this limiter computes with float64 ratios.      *)
(* When limit/window or window/limit has no exact float64 (Inexact), a     *)
(* result that is a whole number may come out just below it, and           *)
(* math.Floor, or the conversion to a Duration, then takes the integer     *)
(* below.  A result that is no whole number is at least 1/window, or       *)
(* 1/limit, away from one, and loses only its fraction while elapsed *     *)
(* limit, leaked * window and water * window are below 2^52.               *)
(***************************************************************************)
EXTENDS LimiterConfig, TTLCell, Sequences

CONSTANT Threads    \* goroutines calling Allow

Nobody == <<>>     \* a mutex that is not held

ASSUME EnvironmentAssumption ==
    /\ Nobody \notin Threads
    /\ \A c \in Configs :
         /\ {c.mayFail, c.inexact} \subseteq BOOLEAN
         /\ c.grain \in Nat \ {0}
         /\ {c.maxStall, c.maxTime, c.maxCalls} \subseteq Nat

MayFail  == cfg.mayFail     \* the store can return errors
Inexact  == cfg.inexact     \* limit/window or window/limit is not exact in float64
Grain    == cfg.grain       \* spacing of the float64 values around the current time
MaxStall == cfg.maxStall    \* bound on the time between the clock reading and the Gets
MaxTime  == cfg.maxTime     \* bound on the clock
MaxCalls == cfg.maxCalls    \* bound on the number of calls

VARIABLES
    now,        \* the clock
    waterCell,  \* the store's value of "gorl:lb:{key}:water"
    leakCell,   \* and of "gorl:lb:{key}:leak"
    mu,         \* l.mu: the goroutine that holds it, or Nobody
    pc, loc,    \* program point and local variables of each goroutine
    calls,      \* calls made so far
    metrics,    \* IncAllow and IncDeny counts
    failures,   \* (history) number of calls that met a store error
    grants,     \* (history) the admitted calls: their clock reading and the
                \* number of calls that had failed before
    last        \* (history) what the last completed decision announced

vars == <<cfg, now, waterCell, leakCell, mu, pc, loc, calls, metrics, failures, grants, last>>

PCs == {"idle", "lock", "getWater", "getLeak", "setWater", "setLeak"}

Local == [now : Nat, water : 0..Limit, lastLeak : Nat, allowed : BOOLEAN]

IdleLocal == [now |-> 0, water |-> 0, lastLeak |-> 0, allowed |-> FALSE]

NoDecision == [made |-> FALSE, allowed |-> FALSE, retryAt |-> 0, emptyAt |-> 0]

TypeOK ==
    /\ cfg \in Configs
    /\ now \in Nat
    /\ waterCell \in [value : 0..Limit, expiresAt : Nat]
    /\ leakCell \in [value : Nat, expiresAt : Nat]
    /\ mu \in Threads \union {Nobody}
    /\ pc \in [Threads -> PCs]
    /\ loc \in [Threads -> Local]
    /\ calls \in Nat
    /\ metrics \in [allow : Nat, deny : Nat]
    /\ failures \in Nat
    /\ grants \in Seq([at : Nat, failures : Nat])
    /\ last \in [made : BOOLEAN, allowed : BOOLEAN, retryAt : Nat, emptyAt : Nat]

-----------------------------------------------------------------------------
(* The integer part of the float64 that stands for a/b. *)
Floors(a, b) ==
    {a \div b} \union (IF Inexact /\ a % b = 0 /\ a > 0 THEN {a \div b - 1} ELSE {})

(* What has leaked since the last leak. *)
Leaks(elapsed) == Floors(elapsed * Limit, Window)

(* How far the last leak moves for it. *)
Advances(leaked) == Floors(leaked * Window, Limit)

(* Mutant: the level is allowed to go below empty. *)
DrainedBelow(water, leaked) == water - leaked

Drained(water, leaked) == IF leaked > water THEN 0 ELSE water - leaked

(* Mutant: the leak restarts with every call. *)
LeaksMovedToNow(t0, water, lastLeak) ==
    { [water |-> Drained(water, n), lastLeak |-> t0] : n \in Leaks(t0 - lastLeak) }

(* The level and the time of the last leak before the call is counted.     *)
Leaked(t0, water, lastLeak) ==
    IF lastLeak = 0 THEN { [water |-> 0, lastLeak |-> t0] }
    ELSE UNION { IF n > 0
                 THEN { [water |-> Drained(water, n), lastLeak |-> lastLeak + a] : a \in Advances(n) }
                 ELSE { [water |-> water, lastLeak |-> lastLeak] } : n \in Leaks(t0 - lastLeak) }

(* time.Duration(x): the integer part of x = a/b, clamped. *)
ToDuration(a, b) == IF a < 0 THEN 0 ELSE a \div b

(* nanoPerToken is exact when it is whole, and x is not whole otherwise. *)
NextLeak(since) == ToDuration(Window - Limit * since, Limit)

(* But a multiple of a nanoPerToken that is not whole can be. *)
Reset(water, since) ==
    LET left == water * Window - Limit * since IN
    IF water = 0 \/ left < 0 THEN {0}
    ELSE IF Window % Limit = 0 THEN {left \div Limit}
    ELSE Floors(left, Limit)

-----------------------------------------------------------------------------
Init ==
    /\ cfg \in Configs
    /\ now = Grain
    /\ waterCell = EmptyCell
    /\ leakCell = EmptyCell
    /\ mu = Nobody
    /\ pc = [t \in Threads |-> "idle"]
    /\ loc = [t \in Threads |-> IdleLocal]
    /\ calls = 0
    /\ metrics = [allow |-> 0, deny |-> 0]
    /\ failures = 0
    /\ grants = << >>
    /\ last = NoDecision

Goto(t, l) == pc' = [pc EXCEPT ![t] = l]

(* Allow is called, and goes for the mutex. *)
Allow(t) ==
    /\ pc[t] = "idle"
    /\ calls < MaxCalls
    /\ calls' = calls + 1
    /\ Goto(t, "lock")
    /\ UNCHANGED <<cfg, now, waterCell, leakCell, mu, loc, metrics, failures, grants, last>>

(* Mutant: no mutex. *)
LockNothing(t) ==
    /\ pc[t] = "lock"
    /\ mu' = t
    /\ loc' = [loc EXCEPT ![t].now = now]
    /\ Goto(t, "getWater")
    /\ UNCHANGED <<cfg, now, waterCell, leakCell, calls, metrics, failures, grants, last>>

(* The mutex is acquired, then the clock is read. *)
Lock(t) ==
    /\ pc[t] = "lock"
    /\ mu = Nobody
    /\ mu' = t
    /\ loc' = [loc EXCEPT ![t].now = now]
    /\ Goto(t, "getWater")
    /\ UNCHANGED <<cfg, now, waterCell, leakCell, calls, metrics, failures, grants, last>>

GetWater(t) ==
    /\ pc[t] = "getWater"
    /\ loc' = [loc EXCEPT ![t].water = Read(waterCell, now)]
    /\ Goto(t, "getLeak")
    /\ UNCHANGED <<cfg, now, waterCell, leakCell, mu, calls, metrics, failures, grants, last>>

(* The second Get, the leak and the decision. *)
GetLeak(t) ==
    /\ pc[t] = "getLeak"
    /\ \E l \in Leaked(loc[t].now, loc[t].water, Read(leakCell, now)) :
         LET allowed == l.water < Limit IN
         loc' = [loc EXCEPT ![t].water = IF allowed THEN l.water + 1 ELSE l.water,
                            ![t].lastLeak = l.lastLeak,
                            ![t].allowed = allowed]
    /\ Goto(t, "setWater")
    /\ UNCHANGED <<cfg, now, waterCell, leakCell, mu, calls, metrics, failures, grants, last>>

WriteWater(t) == Written(loc[t].water, now, Window)
WriteLeak(t) == Written(Float64(loc[t].lastLeak, Grain), now, Window)

SetWater(t) ==
    /\ pc[t] = "setWater"
    /\ waterCell' = WriteWater(t)
    /\ Goto(t, "setLeak")
    /\ UNCHANGED <<cfg, now, leakCell, mu, loc, calls, metrics, failures, grants, last>>

(* The deferred Unlock. *)
Return(t) ==
    /\ mu' = Nobody
    /\ loc' = [loc EXCEPT ![t] = IdleLocal]
    /\ Goto(t, "idle")

(* The earliest end of RetryAfter announced since the last admitted call. *)
RetryAt(at) == IF last.made /\ ~last.allowed /\ last.retryAt < at THEN last.retryAt ELSE at

(* The second Set, the metrics, the result. *)
SetLeak(t) ==
    LET l     == loc[t]
        since == l.now - l.lastLeak IN
    /\ pc[t] = "setLeak"
    /\ leakCell' = WriteLeak(t)
    /\ IF l.allowed
       THEN /\ metrics' = [metrics EXCEPT !.allow = @ + 1]
            /\ grants' = Append(grants, [at |-> l.now, failures |-> failures])
       ELSE /\ metrics' = [metrics EXCEPT !.deny = @ + 1]
            /\ UNCHANGED grants
    /\ \E reset \in Reset(l.water, since) :
         last' = [made |-> TRUE, allowed |-> l.allowed,
                  retryAt |-> IF l.allowed THEN 0 ELSE RetryAt(l.now + NextLeak(since)),
                  emptyAt |-> l.now + reset]
    /\ Return(t)
    /\ UNCHANGED <<cfg, now, waterCell, calls, failures>>

(* failOpenHandler after a failed access.  A Set that reports an error may *)
(* have reached the store.                                                 *)
StoreError(t) ==
    /\ MayFail
    /\ \/ pc[t] \in {"getWater", "getLeak"} /\ UNCHANGED <<waterCell, leakCell>>
       \/ /\ pc[t] = "setWater"
          /\ waterCell' \in {waterCell, WriteWater(t)}
          /\ UNCHANGED leakCell
       \/ /\ pc[t] = "setLeak"
          /\ leakCell' \in {leakCell, WriteLeak(t)}
          /\ UNCHANGED waterCell
    /\ metrics' = IF FailOpen THEN [metrics EXCEPT !.allow = @ + 1] ELSE metrics
    /\ failures' = failures + 1
    /\ last' = NoDecision
    /\ Return(t)
    /\ UNCHANGED <<cfg, now, calls, grants>>

(* Time passes, but the runtime does not stall a goroutine for longer than *)
(* MaxStall between its clock reading and its Gets.                        *)
Tick ==
    /\ now < MaxTime
    /\ \A t \in Threads :
         pc[t] \in {"getWater", "getLeak"} => now < loc[t].now + MaxStall
    /\ now' = now + 1
    /\ UNCHANGED <<cfg, waterCell, leakCell, mu, pc, loc, calls, metrics, failures, grants, last>>

Step(t) ==
    Lock(t) \/ GetWater(t) \/ GetLeak(t) \/ SetWater(t) \/ SetLeak(t) \/ StoreError(t)

Next ==
    \/ \E t \in Threads : Allow(t) \/ Step(t)
    \/ Tick

Spec == Init /\ [][Next]_vars

-----------------------------------------------------------------------------
(* What rounding can shift a stored leak time by. *)
Err == Grain \div 2

(* The least time that one leaked request moves the last leak by, in the   *)
(* store.                                                                  *)
LeakInterval == (Window \div Limit) - (IF Inexact /\ Window % Limit = 0 THEN 1 ELSE 0) - Err

(* The most time that a call leaves unused behind the last leak.           *)
Unused ==
    IF Inexact \/ Window % Limit # 0 THEN Window \div Limit + 1 ELSE Window \div Limit - 1

(* How many requests a call that fails between its two Sets can give back: *)
(* the level it wrote is drained again by what has leaked already.         *)
GivenBack == (IF Inexact THEN Limit ELSE Limit - 1) \div 2

(* The time that a key which expires in the middle of a call can lend:     *)
(* what is read of the store is then older than the clock that was read.   *)
Lent == IF Inexact \/ MaxStall + Err > 1 THEN Window \div Limit + 1 + MaxStall ELSE 0

(* The rate: of the calls that read the clock within d, at most Limit and  *)
(* one per LeakInterval of d, and of Unused, are admitted, whatever the    *)
(* interleaving, wherever in a call the two keys expire and whichever way  *)
(* the quotients round.  A key expires in the middle of a call, and lends  *)
(* time, once in a Window at most; a failed call gives back at most        *)
(* GivenBack requests (leaky_bucket.go:62-109; core.go:37).  That a leaked *)
(* request moves the stored time at all is the one condition.              *)
RateBound ==
    LeakInterval > 0 => \A i, j \in 1..Len(grants) : i <= j =>
        LET n == j - i + 1
            d == grants[j].at - grants[i].at
            k == grants[j].failures - grants[i].failures IN
        (n - Limit - k * GivenBack) * LeakInterval
            <= d + Unused + ((d + MaxStall) \div Window) * Lent

(* The step that completes a call without an error, with an announcement   *)
(* before it.                                                              *)
Decided(t) == pc[t] = "setLeak" /\ pc'[t] = "idle" /\ last.made /\ last'.made

(* What the product in Reset can come out short of. *)
Late == IF Inexact /\ Window % Limit # 0 THEN 1 ELSE 0

(* What a result announces.  With no call admitted in between no call is   *)
(* denied that reads the clock later than RetryAfter after any earlier     *)
(* denied one: exact but for the unit that the conversion to a Duration    *)
(* drops, although every denied call writes the last leak again.  And a    *)
(* call that reads it later than Reset after the previous one finds the    *)
(* bucket empty, although either key may have expired by then: but for     *)
(* one more unit where the product in Reset can come out short, and for    *)
(* half a grain by which the leak time may have been rounded up            *)
(* (leaky_bucket.go:75-99, 106, 124).                                      *)
DelaysNearlyKept ==
    [][ \A t \in Threads : LET l == loc[t] IN Decided(t) =>
          /\ (~l.allowed /\ ~last.allowed) => l.now <= last.retryAt
          /\ l.now > last.emptyAt + Late + Err => l.allowed /\ l.water = 1 ]_vars
=============================================================================
