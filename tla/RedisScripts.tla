---------------------------- MODULE RedisScripts ----------------------------
(***************************************************************************)
(* The Lua scripts that decide in Redis (storage/redis/lua), as functions  *)
(* of the values the keys hold and of the caller's clock reading.  Redis   *)
(* runs a script atomically.  Each script sets all its keys with one time  *)
(* to live, so they expire together and are one tuple here.                *)
(*                                                                         *)
(* The unit of time is the microsecond.  Milli of them make a millisecond, *)
(* the unit of Redis's expiries.                                           *)
(***************************************************************************)
EXTENDS SlidingEstimate

CONSTANT Milli

ASSUME ScriptAssumption ==
    /\ Milli \in Nat \ {0}
    /\ \A c \in Configs : c.strategy \in {"token_bucket", "leaky_bucket", "sliding_window"}

Strategy == cfg.strategy    \* which limiter runs

(* durationToMicros(timePerToken), and us_per_token *)
MicrosPerToken == IF Window \div Limit > 0 THEN Window \div Limit ELSE 1

(* durationToMilliseconds *)
Milliseconds(us) ==
    IF us = 0 THEN 0 ELSE IF us \div Milli = 0 THEN 1 ELSE us \div Milli

(* The time to live the limiters pass. *)
TtlMs == Milliseconds(IF Strategy = "sliding_window" THEN 2 * Window ELSE Window)

(* SET ... PX: a key expires once the server's millisecond clock is beyond *)
(* the millisecond of the SET plus the time to live.                       *)
ExpiryOf(now) == (now \div Milli + TtlMs + 1) * Milli - 1

Absent == <<0, 0, 0>>

Smaller(a, b) == IF a < b THEN a ELSE b

(* Reset: the time until n tokens have come back, or n requests have leaked. *)
Refills(n, since) == IF n > 0 THEN clampDuration(n * MicrosPerToken - since) ELSE 0

(* Mutants: a clock that is behind takes tokens away; the same time is     *)
(* credited again; the fraction of a token is forgotten.                   *)
RefilledWith(keys, us, least, moved(_)) ==
    IF keys[2] = 0 THEN <<Limit, us>>
    ELSE LET new == (us - keys[2]) \div MicrosPerToken IN
         IF new > least THEN <<Smaller(keys[1] + new, Limit), moved(new)>>
         ELSE <<keys[1], moved(0)>>
RefilledBackwards(keys, us) ==
    RefilledWith(keys, us, -1000, LAMBDA n : keys[2] + n * MicrosPerToken)
RefilledAgain(keys, us) == RefilledWith(keys, us, 0, LAMBDA n : keys[2])
RefilledFromNow(keys, us) == RefilledWith(keys, us, 0, LAMBDA n : us)

(* tokens and last_refill, once refilled. *)
Refilled(keys, us) ==
    IF keys[2] = 0 THEN <<Limit, us>>
    ELSE LET new == (us - keys[2]) \div MicrosPerToken IN
         IF new > 0
         THEN <<Smaller(keys[1] + new, Limit), keys[2] + new * MicrosPerToken>>
         ELSE <<keys[1], keys[2]>>

(* token_bucket.lua *)
TokenBucketScript(keys, us) ==
    LET bucket  == Refilled(keys, us)
        allowed == bucket[1] > 0
        tokens  == IF allowed THEN bucket[1] - 1 ELSE bucket[1]
        since   == us - bucket[2]
    IN { [keys |-> <<tokens, bucket[2], 0>>, allowed |-> allowed,
          reset |-> Refills(Limit - tokens, since),
          retryAfter |-> IF allowed THEN 0 ELSE clampDuration(MicrosPerToken - since)] }

(* water and last_leak, once leaked. *)
Leaked(keys, us) ==
    IF keys[2] = 0 THEN <<0, us>>
    ELSE LET leaked == (us - keys[2]) \div MicrosPerToken IN
         IF leaked > 0
         THEN <<IF leaked > keys[1] THEN 0 ELSE keys[1] - leaked,
                keys[2] + leaked * MicrosPerToken>>
         ELSE <<keys[1], keys[2]>>

(* leaky_bucket.lua *)
LeakyBucketScript(keys, us) ==
    LET bucket  == Leaked(keys, us)
        allowed == bucket[1] < Limit
        water   == IF allowed THEN bucket[1] + 1 ELSE bucket[1]
        since   == us - bucket[2]
    IN { [keys |-> <<water, bucket[2], 0>>, allowed |-> allowed,
          reset |-> Refills(water, since),
          retryAfter |-> IF allowed THEN 0 ELSE clampDuration(MicrosPerToken - since)] }

(* Mutant: the previous window is forgotten. *)
RotatedEmpty(keys, us) ==
    LET intervals == (us - keys[1]) \div Window IN
    IF keys[1] = 0 THEN <<us, 0, 0>>
    ELSE IF intervals < 1 THEN keys
    ELSE <<keys[1] + intervals * Window, 0, 0>>

(* window_start, curr and prev, once rotated. *)
Rotated(keys, us) ==
    LET intervals == (us - keys[1]) \div Window IN
    IF keys[1] = 0 THEN <<us, 0, 0>>
    ELSE IF intervals < 1 THEN keys
    ELSE <<keys[1] + intervals * Window, 0, IF intervals = 1 THEN keys[2] ELSE 0>>

(* sliding_window.lua.  A clock behind window_start counts as being at it. *)
SlidingWindowScript(keys, us) ==
    LET w     == Rotated(keys, us)
        since == clampDuration(us - w[1])
        curr(allowed) == IF allowed THEN w[2] + 1 ELSE w[2]
    IN { [keys |-> <<w[1], curr(allowed), w[3]>>, allowed |-> allowed,
          reset |-> IF curr(allowed) > 0 THEN clampDuration(2 * Window - since)
                    ELSE IF w[3] > 0 THEN UntilBoundary(since) ELSE 0,
          retryAfter |-> IF allowed THEN 0 ELSE RetryAfter(since, w[3], w[2])]
         : allowed \in Outcomes(since, w[3], w[2]) }

(* The script EvalScript runs for the limiter. *)
Script(keys, us) ==
    CASE Strategy = "token_bucket"   -> TokenBucketScript(keys, us)
      [] Strategy = "leaky_bucket"   -> LeakyBucketScript(keys, us)
      [] Strategy = "sliding_window" -> SlidingWindowScript(keys, us)
=============================================================================
