--------------------------- MODULE MCRedisLimiter ---------------------------
(* Small instances of RedisLimiter for TLC. *)
EXTENDS RedisLimiter, TLC

Symmetry == Permutations(Instances)

(* Clocks apart, requests that run late and twice. *)
Repeating(strategy, time) ==
    [strategy |-> strategy, limit |-> 2, window |-> 4, failOpen |-> FALSE,
     maxSkew |-> 1, maxDelay |-> 1, maxResends |-> 1, mayFail |-> FALSE,
     maxTime |-> time, maxCalls |-> 3]

(* Clocks apart, instances that give up on requests which run late, and a  *)
(* window that is no whole number of milliseconds.                         *)
GivingUp(strategy) ==
    [strategy |-> strategy, limit |-> 1, window |-> 5, failOpen |-> TRUE,
     maxSkew |-> 1, maxDelay |-> 1, maxResends |-> 0, mayFail |-> TRUE,
     maxTime |-> 11, maxCalls |-> 4]

(* Clocks apart, and time for two bursts at a window's boundary. *)
Bursting ==
    [strategy |-> "sliding_window", limit |-> 2, window |-> 4, failOpen |-> FALSE,
     maxSkew |-> 1, maxDelay |-> 0, maxResends |-> 0, mayFail |-> FALSE,
     maxTime |-> 11, maxCalls |-> 5]

CheckedConfigs ==
    {Repeating("token_bucket", 9), GivingUp("leaky_bucket"), Repeating("sliding_window", 9),
     Bursting}
=============================================================================
