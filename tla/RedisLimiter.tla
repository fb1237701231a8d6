---------------------------- MODULE RedisLimiter ----------------------------
(***************************************************************************)
(* Several instances of a service that share one key's limiter in Redis    *)
(* (allowRedis of the token bucket, leaky bucket and sliding window, and   *)
(* storage/redis).                                                         *)
(*                                                                         *)
(* An instance reads its own clock, which may run ahead of the server's,   *)
(* and sends the script with that reading.  Requests and replies are       *)
(* delayed or lost: the client library sends a request again, the instance *)
(* gives up, and the server may run a request after either.                *)
(***************************************************************************)
EXTENDS RedisScripts, Sequences

CONSTANT Instances  \* callers of Allow, one call each at a time

ASSUME EnvironmentAssumption ==
    \A c \in Configs :
        /\ c.mayFail \in BOOLEAN
        /\ {c.maxSkew, c.maxDelay, c.maxResends, c.maxTime, c.maxCalls} \subseteq Nat

MaxSkew    == cfg.maxSkew       \* how far ahead of the server an instance's clock may be
MaxDelay   == cfg.maxDelay      \* bound on the time from the clock reading to the script
MaxResends == cfg.maxResends    \* how often the client library sends a request again
MayFail    == cfg.mayFail       \* instances give up
MaxTime    == cfg.maxTime       \* bound on the clock
MaxCalls   == cfg.maxCalls      \* bound on the number of calls

VARIABLES
    now,        \* the server's clock
    skew,       \* how far ahead the clock of each instance is
    keys,       \* the values of the limiter's keys
    expiresAt,  \* when they expire
    pc,         \* where the call of each instance is
    request,    \* what it sent, and the reply
    strays,     \* requests the server may still run for nobody
    calls,      \* calls made so far
    metrics,    \* IncAllow and IncDeny counts
    grants,     \* (history) the server's clock at each script that allowed
    last        \* (history) what the last script run announced

vars == <<cfg, now, skew, keys, expiresAt, pc, request, strays, calls, metrics, grants, last>>

Idle == [us |-> 0, sentAt |-> 0, call |-> 0, resends |-> 0, allowed |-> FALSE]

NoDecision == [allowed |-> TRUE, us |-> 0, retryAt |-> 0, resetAt |-> 0]

Stray == [us : Nat, sentAt : Nat, call : Nat, resends : Nat]

TypeOK ==
    /\ cfg \in Configs
    /\ now \in Nat
    /\ skew \in [Instances -> 0..MaxSkew]
    /\ keys \in Nat \X Nat \X Nat
    /\ expiresAt \in Nat
    /\ pc \in [Instances -> {"idle", "sent", "replied"}]
    /\ request \in [Instances -> [us : Nat, sentAt : Nat, call : Nat, resends : 0..MaxResends,
                                  allowed : BOOLEAN]]
    /\ strays \subseteq Stray
    /\ calls \in Nat
    /\ metrics \in [allow : Nat, deny : Nat]
    /\ grants \in Seq(Nat)
    /\ last \in [allowed : BOOLEAN, us : Nat, retryAt : Nat, resetAt : Nat]

Init ==
    /\ cfg \in Configs
    /\ now = Milli
    /\ skew \in [Instances -> 0..MaxSkew]
    /\ keys = Absent
    /\ expiresAt = 0
    /\ pc = [i \in Instances |-> "idle"]
    /\ request = [i \in Instances |-> Idle]
    /\ strays = {}
    /\ calls = 0
    /\ metrics = [allow |-> 0, deny |-> 0]
    /\ grants = << >>
    /\ last = NoDecision

-----------------------------------------------------------------------------
(* What GET finds. *)
Current == IF expiresAt >= now THEN keys ELSE Absent

(* The earliest end of RetryAfter announced since the last granted call. *)
RetryAt(at) == IF ~last.allowed /\ last.retryAt < at THEN last.retryAt ELSE at

(* The server runs the script on a clock reading. *)
Run(us, result) ==
    /\ result \in Script(Current, us)
    /\ keys' = result.keys
    /\ expiresAt' = ExpiryOf(now)
    /\ grants' = IF result.allowed THEN Append(grants, now) ELSE grants
    /\ last' = [allowed |-> result.allowed, us |-> us, resetAt |-> us + result.reset,
                retryAt |-> IF result.allowed THEN 0 ELSE RetryAt(us + result.retryAfter)]

AsStray(r) == [us |-> r.us, sentAt |-> r.sentAt, call |-> r.call, resends |-> r.resends]

-----------------------------------------------------------------------------
(* allowRedis: time.Now().UnixMicro(), and the request is sent. *)
Allow(i) ==
    /\ pc[i] = "idle"
    /\ calls < MaxCalls
    /\ calls' = calls + 1
    /\ request' = [request EXCEPT ![i] = [Idle EXCEPT !.us = now + skew[i], !.sentAt = now,
                                                      !.call = calls]]
    /\ pc' = [pc EXCEPT ![i] = "sent"]
    /\ UNCHANGED <<cfg, now, skew, keys, expiresAt, strays, metrics, grants, last>>

(* The server runs the script and replies. *)
Eval(i) ==
    /\ pc[i] = "sent"
    /\ \E result \in Script(Current, request[i].us) :
         /\ Run(request[i].us, result)
         /\ request' = [request EXCEPT ![i].allowed = result.allowed]
    /\ pc' = [pc EXCEPT ![i] = "replied"]
    /\ UNCHANGED <<cfg, now, skew, strays, calls, metrics>>

(* The client library sends the same arguments again; the server may run   *)
(* the first request before the second, after it, or never, so that a lost *)
(* request and a lost reply are the same to it.                            *)
Resend(i) ==
    /\ pc[i] = "sent"
    /\ request[i].resends < MaxResends
    /\ strays' = strays \union {AsStray(request[i])}
    /\ request' = [request EXCEPT ![i].resends = @ + 1]
    /\ UNCHANGED <<cfg, now, skew, keys, expiresAt, pc, calls, metrics, grants, last>>

EvalStray(r) ==
    /\ \E result \in Script(Current, r.us) : Run(r.us, result)
    /\ strays' = strays \ {r}
    /\ UNCHANGED <<cfg, now, skew, pc, request, calls, metrics>>

Finish(i) ==
    /\ pc' = [pc EXCEPT ![i] = "idle"]
    /\ request' = [request EXCEPT ![i] = Idle]

(* The reply becomes the result. *)
Return(i) ==
    /\ pc[i] = "replied"
    /\ metrics' = IF request[i].allowed THEN [metrics EXCEPT !.allow = @ + 1]
                  ELSE [metrics EXCEPT !.deny = @ + 1]
    /\ Finish(i)
    /\ UNCHANGED <<cfg, now, skew, keys, expiresAt, strays, calls, grants, last>>

(* failOpenHandler: no reply in time, whether or not the server has run or *)
(* will run the request.                                                   *)
StoreError(i) ==
    /\ MayFail
    /\ pc[i] = "sent"
    /\ strays' = strays \union {AsStray(request[i])}
    /\ metrics' = IF FailOpen THEN [metrics EXCEPT !.allow = @ + 1] ELSE metrics
    /\ Finish(i)
    /\ UNCHANGED <<cfg, now, skew, keys, expiresAt, calls, grants, last>>

(* Time passes; no request is run later than MaxDelay after it was sent. *)
Tick ==
    /\ now < MaxTime
    /\ \A i \in Instances : pc[i] = "sent" => now < request[i].sentAt + MaxDelay
    /\ now' = now + 1
    /\ strays' = { r \in strays : now < r.sentAt + MaxDelay }
    /\ UNCHANGED <<cfg, skew, keys, expiresAt, pc, request, calls, metrics, grants, last>>

Next ==
    \/ \E i \in Instances : Allow(i) \/ Eval(i) \/ Resend(i) \/ Return(i) \/ StoreError(i)
    \/ \E r \in strays : EvalStray(r)
    \/ Tick

Spec == Init /\ [][Next]_vars

-----------------------------------------------------------------------------
IsBucket == Strategy # "sliding_window"

(* How long the keys live on at least after a script has set them. *)
Lifetime == TtlMs * Milli

(* What the clocks and the delays can lend. *)
Spread == MaxSkew + MaxDelay

(* The rate of a bucket over all instances: while the keys live, at most   *)
(* Limit plus one per token's time elapsed on the server's clock are       *)
(* granted, however far the instances' clocks are apart and in whatever    *)
(* order late and repeated requests run; the clocks and the delays can     *)
(* lend what accrues in Spread (token_bucket.lua:9-25,                     *)
(* leaky_bucket.lua:14-33, token_bucket.go:141-149).                       *)
SharedRate ==
    IsBucket => \A i, j \in 1..Len(grants) :
        LET extra == (j - i + 1) - Limit
            d     == grants[j] - grants[i] IN
        (i <= j /\ extra > 0 /\ d <= Lifetime) => (extra - 1) * MicrosPerToken < d + Spread

(* The promise of the sliding estimate over all instances: at most twice   *)
(* Limit calls are allowed in any interval of nearly a Window of the       *)
(* server's clock, and in a shorter one at most one more than Limit and as *)
(* many as Limit per Window gives in its length and in Spread              *)
(* (sliding_window.lua:10-42).                                             *)
SharedRollingLimit ==
    ~IsBucket => \A i, j \in 1..Len(grants) :
        LET n == j - i + 1
            d == grants[j] - grants[i] IN
        (i <= j /\ d <= Window - Spread) =>
            n <= 2 * Limit /\ (n - Limit - 1) * Window <= Limit * (d + Spread)

(* A script run that denies. *)
Denied == last' # last /\ ~last'.allowed

(* By how much a delay may come out short: a clock behind the one that     *)
(* opened a sliding window is told too short a delay, by as much as it is  *)
(* behind.                                                                 *)
Short == IF IsBucket THEN 0 ELSE Spread

(* The bucket or window that the last script left is what a first call     *)
(* leaves.                                                                 *)
AsAfterFirstCall ==
    CASE Strategy = "token_bucket"   -> keys[1] = Limit - 1
      [] Strategy = "leaky_bucket"   -> keys[1] = 1
      [] Strategy = "sliding_window" -> keys[2] = 1 /\ keys[3] = 0

(* What a script announces is kept, whichever instances the clock readings *)
(* are from and across an expiry of the keys: with nothing granted in      *)
(* between, no script denies a reading that is RetryAfter or more (for the *)
(* sliding window, later than RetryAfter) after an earlier denied one; and *)
(* a script that runs on a reading Reset or more after that of the         *)
(* previous run decides like a first call (token_bucket.lua:16-51,         *)
(* leaky_bucket.lua:17-60, sliding_window.lua:28-88).                      *)
SharedDelaysKept ==
    [][ last' # last =>
          /\ (~last'.allowed /\ ~last.allowed) =>
               \/ last'.us < last.retryAt
               \/ ~IsBucket /\ last'.us <= last.retryAt + Short
          /\ last'.us >= last.resetAt + Short => last'.allowed /\ AsAfterFirstCall' ]_vars
=============================================================================
