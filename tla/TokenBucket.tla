----------------------------- MODULE TokenBucket -----------------------------
(***************************************************************************)
(* The token bucket limiter on a generic store                             *)
(* (internal/algorithms/token_bucket.go, allowGeneric) for one key.        *)
(*                                                                         *)
(* The bucket is two store keys, the token count and the time of the last  *)
(* refill, each with its own time to live.  A call takes the limiter's     *)
(* mutex, reads the clock once, then reads and writes the two keys one     *)
(* after the other; time passes, and the keys may expire, between any two  *)
(* of those accesses, and each of them may fail.  The limiter and the      *)
(* in-memory store read the wall clock, which may be set back at any time. *)
(*                                                                         *)
(* The last refill time is stored as a float64, which at the size of a     *)
(* UnixNano keeps only every Grain-th value (256 ns today).                *)
(***************************************************************************)
EXTENDS LimiterConfig, TTLCell, Sequences

CONSTANT Threads    \* goroutines calling Allow

Nobody == <<>>     \* a mutex that is not held

ASSUME EnvironmentAssumption ==
    /\ Nobody \notin Threads
    /\ \A c \in Configs :
         /\ c.mayFail \in BOOLEAN
         /\ c.grain \in Nat \ {0}
         /\ {c.maxBack, c.maxStall, c.maxTime, c.maxCalls} \subseteq Nat

MayFail  == cfg.mayFail     \* the store can return errors
Grain    == cfg.grain       \* spacing of the float64 values around the current time
MaxBack  == cfg.maxBack     \* bound on what the wall clock is set back by, over a run
MaxStall == cfg.maxStall    \* bound on the time between the clock reading and the Gets
MaxTime  == cfg.maxTime     \* bound on the clock
MaxCalls == cfg.maxCalls    \* bound on the number of calls

(* NewTokenBucketLimiter *)
TimePerToken == IF Window \div Limit > 0 THEN Window \div Limit ELSE 1

VARIABLES
    now,        \* the time that has passed
    back,       \* what the wall clock has been set back by since the start
    tokensCell, \* the store's value of "gorl:tb:{key}:tokens"
    refillCell, \* and of "gorl:tb:{key}:refill"
    mu,         \* t.mu: the goroutine that holds it, or Nobody
    pc, loc,    \* program point and local variables of each goroutine
    calls,      \* calls made so far
    metrics,    \* IncAllow and IncDeny counts
    failures,   \* (history) number of calls that met a store error
    grants,     \* (history) the calls that took a token: the time of their clock
                \* reading and the number of calls that had failed before
    last        \* (history) what the last completed decision announced

vars == <<cfg, now, back, tokensCell, refillCell, mu, pc, loc, calls, metrics, failures, grants, last>>

(* time.Now().UnixNano(), here and in the in-memory store. *)
Wall == now - back

PCs == {"idle", "lock", "getTokens", "getRefill", "setTokens", "setRefill"}

Local == [now : Int, back : Int, tokens : Int, lastRefill : Int,
          allowed : BOOLEAN, reset : Int, nextTokenDelay : Int]

IdleLocal == [now |-> 0, back |-> 0, tokens |-> 0, lastRefill |-> 0,
              allowed |-> FALSE, reset |-> 0, nextTokenDelay |-> 0]

NoDecision == [made |-> FALSE, allowed |-> FALSE, retryAt |-> 0, fullAt |-> 0]

TypeOK ==
    /\ cfg \in Configs
    /\ now \in Nat
    /\ back \in Nat
    /\ tokensCell \in [value : 0..Limit, expiresAt : Nat]
    /\ refillCell \in [value : Nat, expiresAt : Nat]
    /\ mu \in Threads \union {Nobody}
    /\ pc \in [Threads -> PCs]
    /\ loc \in [Threads -> Local]
    /\ calls \in Nat
    /\ metrics \in [allow : Nat, deny : Nat]
    /\ failures \in Nat
    /\ grants \in Seq([at : Nat, failures : Nat])
    /\ last \in [made : BOOLEAN, allowed : BOOLEAN, retryAt : Nat, fullAt : Nat]

-----------------------------------------------------------------------------
(* Pure parts of allowGeneric. *)

Smaller(a, b) == IF a < b THEN a ELSE b

(* Go's integer division of elapsed by timePerToken, of which only a       *)
(* positive quotient is used.                                              *)
NewTokens(elapsed) == IF elapsed > 0 THEN elapsed \div TimePerToken ELSE 0

(* Mutant: no cap at Limit. *)
AvailableUncapped(t0, tokensVal, refillVal) ==
    IF refillVal = 0 THEN Limit ELSE tokensVal + NewTokens(t0 - refillVal)

(* The tokens before the call, from the two values read. *)
Available(t0, tokensVal, refillVal) ==
    LET new == NewTokens(t0 - refillVal) IN
    IF refillVal = 0 THEN Limit
    ELSE IF new > 0 THEN Smaller(tokensVal + new, Limit)
    ELSE tokensVal

(* Mutant: the fraction of a token is forgotten. *)
LastRefillNow(t0, refillVal) == t0

LastRefill(t0, refillVal) ==
    IF refillVal = 0 THEN t0
    ELSE refillVal + NewTokens(t0 - refillVal) * TimePerToken

Reset(tokens, since) ==
    IF Limit - tokens > 0 THEN clampDuration((Limit - tokens) * TimePerToken - since) ELSE 0

(* The decision, from the two values read and the clock reading.           *)
Decide(l, refillVal) ==
    LET t0         == l.now
        available  == Available(t0, l.tokens, refillVal)
        allowed    == available > 0
        tokens     == IF allowed THEN available - 1 ELSE available
        lastRefill == LastRefill(t0, refillVal)
        since      == t0 - lastRefill
    IN  [now |-> t0, back |-> l.back, tokens |-> tokens, lastRefill |-> lastRefill,
         allowed |-> allowed, nextTokenDelay |-> clampDuration(TimePerToken - since),
         reset |-> Reset(tokens, since)]

-----------------------------------------------------------------------------
Init ==
    /\ cfg \in Configs
    /\ now = Grain + MaxBack
    /\ back = 0
    /\ tokensCell = EmptyCell
    /\ refillCell = EmptyCell
    /\ mu = Nobody
    /\ pc = [t \in Threads |-> "idle"]
    /\ loc = [t \in Threads |-> IdleLocal]
    /\ calls = 0
    /\ metrics = [allow |-> 0, deny |-> 0]
    /\ failures = 0
    /\ grants = << >>
    /\ last = NoDecision

Goto(t, l) == pc' = [pc EXCEPT ![t] = l]

(* Allow is called, and goes for the mutex. *)
Allow(t) ==
    /\ pc[t] = "idle"
    /\ calls < MaxCalls
    /\ calls' = calls + 1
    /\ Goto(t, "lock")
    /\ UNCHANGED <<cfg, now, back, tokensCell, refillCell, mu, loc, metrics, failures, grants, last>>

(* Mutant: no mutex. *)
LockNothing(t) ==
    /\ pc[t] = "lock"
    /\ mu' = t
    /\ loc' = [loc EXCEPT ![t].now = Wall, ![t].back = back]
    /\ Goto(t, "getTokens")
    /\ UNCHANGED <<cfg, now, back, tokensCell, refillCell, calls, metrics, failures, grants, last>>

(* The mutex is acquired, then the clock is read. *)
Lock(t) ==
    /\ pc[t] = "lock"
    /\ mu = Nobody
    /\ mu' = t
    /\ loc' = [loc EXCEPT ![t].now = Wall, ![t].back = back]
    /\ Goto(t, "getTokens")
    /\ UNCHANGED <<cfg, now, back, tokensCell, refillCell, calls, metrics, failures, grants, last>>

GetTokens(t) ==
    /\ pc[t] = "getTokens"
    /\ loc' = [loc EXCEPT ![t].tokens = Read(tokensCell, Wall)]
    /\ Goto(t, "getRefill")
    /\ UNCHANGED <<cfg, now, back, tokensCell, refillCell, mu, calls, metrics, failures, grants, last>>

(* The second Get, and the computation that follows it. *)
GetRefill(t) ==
    /\ pc[t] = "getRefill"
    /\ loc' = [loc EXCEPT ![t] = Decide(@, Read(refillCell, Wall))]
    /\ Goto(t, "setTokens")
    /\ UNCHANGED <<cfg, now, back, tokensCell, refillCell, mu, calls, metrics, failures, grants, last>>

SetTokens(t) ==
    /\ pc[t] = "setTokens"
    /\ tokensCell' = Written(loc[t].tokens, Wall, Window)
    /\ Goto(t, "setRefill")
    /\ UNCHANGED <<cfg, now, back, refillCell, mu, loc, calls, metrics, failures, grants, last>>

(* Mutant: the mutex stays locked. *)
ReturnLocked(t) ==
    /\ UNCHANGED mu
    /\ loc' = [loc EXCEPT ![t] = IdleLocal]
    /\ Goto(t, "idle")

(* The deferred Unlock. *)
Return(t) ==
    /\ mu' = Nobody
    /\ loc' = [loc EXCEPT ![t] = IdleLocal]
    /\ Goto(t, "idle")

(* The time of a call's clock reading. *)
ReadAt(d) == d.now + d.back

(* The earliest end of RetryAfter announced since the last granted call. *)
RetryAt(d) ==
    LET at == ReadAt(d) + d.nextTokenDelay IN
    IF d.allowed THEN 0
    ELSE IF last.made /\ ~last.allowed THEN Smaller(last.retryAt, at)
    ELSE at

(* The end of Reset.  When a clock that was set back is behind the refill  *)
(* time, the count can expire before the bucket is full, which then counts *)
(* as empty: all that is left to promise is what an empty one needs.       *)
FullAt(d) ==
    IF d.lastRefill > d.now THEN d.lastRefill + d.back + Limit * TimePerToken
    ELSE ReadAt(d) + d.reset

(* The second Set, the metrics, the result.  What a call announces that    *)
(* the clock was set back under is void.                                   *)
SetRefill(t) ==
    LET d == loc[t] IN
    /\ pc[t] = "setRefill"
    /\ refillCell' = Written(Float64(d.lastRefill, Grain), Wall, Window)
    /\ IF d.allowed
       THEN /\ metrics' = [metrics EXCEPT !.allow = @ + 1]
            /\ grants' = Append(grants, [at |-> ReadAt(d), failures |-> failures])
       ELSE /\ metrics' = [metrics EXCEPT !.deny = @ + 1]
            /\ UNCHANGED grants
    /\ last' = IF d.back # back THEN NoDecision
               ELSE [made |-> TRUE, allowed |-> d.allowed,
                     retryAt |-> RetryAt(d), fullAt |-> FullAt(d)]
    /\ Return(t)
    /\ UNCHANGED <<cfg, now, back, tokensCell, calls, failures>>

(* failOpenHandler after a failed access.  A Set that reports an error may *)
(* have reached the store.                                                 *)
StoreError(t) ==
    /\ MayFail
    /\ \/ pc[t] \in {"getTokens", "getRefill"} /\ UNCHANGED <<tokensCell, refillCell>>
       \/ /\ pc[t] = "setTokens"
          /\ tokensCell' \in {tokensCell, Written(loc[t].tokens, Wall, Window)}
          /\ UNCHANGED refillCell
       \/ /\ pc[t] = "setRefill"
          /\ refillCell' \in {refillCell, Written(Float64(loc[t].lastRefill, Grain), Wall, Window)}
          /\ UNCHANGED tokensCell
    /\ metrics' = IF FailOpen THEN [metrics EXCEPT !.allow = @ + 1] ELSE metrics
    /\ failures' = failures + 1
    /\ last' = NoDecision
    /\ Return(t)
    /\ UNCHANGED <<cfg, now, back, calls, grants>>

(* Time passes, but the runtime does not stall a goroutine for longer than *)
(* MaxStall between its clock reading and its Gets.                        *)
Tick ==
    /\ now < MaxTime
    /\ \A t \in Threads :
         pc[t] \in {"getTokens", "getRefill"} => now < ReadAt(loc[t]) + MaxStall
    /\ now' = now + 1
    /\ UNCHANGED <<cfg, back, tokensCell, refillCell, mu, pc, loc, calls, metrics, failures, grants, last>>

(* The wall clock is set back, which voids the delays announced before. *)
StepBack ==
    /\ \E b \in (back + 1)..MaxBack : back' = b
    /\ last' = NoDecision
    /\ UNCHANGED <<cfg, now, tokensCell, refillCell, mu, pc, loc, calls, metrics, failures, grants>>

Step(t) ==
    Lock(t) \/ GetTokens(t) \/ GetRefill(t) \/ SetTokens(t) \/ SetRefill(t) \/ StoreError(t)

Next ==
    \/ \E t \in Threads : Allow(t) \/ Step(t)
    \/ Tick
    \/ StepBack

Spec == Init /\ [][Next]_vars

-----------------------------------------------------------------------------
(* What rounding can shift a stored refill time by. *)
Err == Grain \div 2

(* A refill time that has expired stands for a full bucket, although the   *)
(* time to fill it may exceed the window by that much: by the stall of a   *)
(* call that reads the clock before the expiry and the keys after it.      *)
Lent ==
    LET short == Limit * (TimePerToken - Err) + MaxStall - Window - 1 IN
    IF short > 0 THEN short ELSE 0

(* A call that fails between its two Sets leaves the count written and the *)
(* refill time not, so the refill is credited again.                       *)
GivenBack == (Limit - 1) \div 2

(* The rate: among the calls that read the clock from s to e, at most      *)
(* Limit plus one per TimePerToken elapsed take a token, whatever the      *)
(* interleaving, wherever in a call the two keys expire, and although the  *)
(* clock is set back.  What is conceded are GivenBack tokens for a call    *)
(* that fails, Lent of time for a window that passes, and the rounding of  *)
(* the refill time, here and in the time per token, which must be longer   *)
(* than that (token_bucket.go:57, 75-111; core.go:37).                     *)
RateBound ==
    TimePerToken > Err =>
      \A i, j \in 1..Len(grants) :
        LET k       == grants[j].failures - grants[i].failures
            extra   == (j - i + 1) - Limit - k * GivenBack
            elapsed == grants[j].at - grants[i].at IN
        (i <= j /\ extra > 0) =>
          (extra - 1) * (TimePerToken - Err)
            < elapsed + Err + ((elapsed + MaxStall) \div Window) * Lent

(* The mutex is held by the goroutine inside the critical section and by   *)
(* nobody else, also when a store error has ended a call in the middle of  *)
(* it: nobody waits for ever (token_bucket.go:51-52, 63-114).              *)
MutexReleased == \A t \in Threads : mu = t <=> pc[t] \notin {"idle", "lock"}

(* The step in which a call decides, with an announcement before it that   *)
(* is still valid.                                                         *)
Deciding(t) == pc[t] = "getRefill" /\ pc'[t] = "setTokens" /\ last.made

(* The tokens that a decision found. *)
Found(d) == d.tokens + (IF d.allowed THEN 1 ELSE 0)

(* What a refill time is good for that has not expired, when the count has. *)
Sure == NewTokens(Window + 1 - Err - MaxStall)

(* What a result announces is kept.  With no token taken in between no     *)
(* call is denied that reads the clock RetryAfter or more after any        *)
(* earlier denied one, so callers that poll do not push the next token     *)
(* back.  And a call that reads it Reset after the previous one, or half a *)
(* grain later if the refill time was rounded up, finds a full bucket,     *)
(* unless it loses the count to the expiry but not yet the refill time: it *)
(* then finds as many tokens as have come in over a window less that half  *)
(* a grain and the stall of the call, which can be one short of Limit      *)
(* (token_bucket.go:63-104, 111, 129; core.go:55-56).                      *)
DelaysKept ==
    [][ \A t \in Threads : LET d == loc'[t] IN Deciding(t) =>
          /\ (~d.allowed /\ ~last.allowed) => ReadAt(d) < last.retryAt
          /\ ReadAt(d) >= last.fullAt + Err =>
               Found(d) >= IF loc[t].tokens = tokensCell.value THEN Limit ELSE Smaller(Limit, Sure)
      ]_vars

(* "Time until the limiter fully resets or refills" (core.go:55): Reset    *)
(* after the previous call the bucket is full (token_bucket.go:104).       *)
ResetKept ==
    [][ \A t \in Threads : LET d == loc'[t] IN
          (Deciding(t) /\ ReadAt(d) >= last.fullAt) => Found(d) = Limit ]_vars
=============================================================================
