---------------------------- MODULE MCTokenBucket ----------------------------
(* Small instances of TokenBucket for TLC. *)
EXTENDS TokenBucket, TLC

Symmetry == Permutations(Threads)

(* A store that never fails: the rate and what a result announces.  The    *)
(* window is no multiple of the limit, so the bucket is full a little      *)
(* before the keys can expire.                                             *)
Reliable == [limit |-> 2, window |-> 5, failOpen |-> FALSE, mayFail |-> FALSE, grain |-> 1,
             maxBack |-> 0, maxStall |-> 1, maxTime |-> 12, maxCalls |-> 6]

(* Calls that are stalled for most of a window, which is just what it      *)
(* takes to fill the bucket: the count expires under them before the       *)
(* refill time, and refill times that expire lend two units.               *)
Stalled == [limit |-> 2, window |-> 4, failOpen |-> FALSE, mayFail |-> FALSE, grain |-> 1,
            maxBack |-> 0, maxStall |-> 3, maxTime |-> 11, maxCalls |-> 6]

(* Refill times rounded by float64, with a window of the same kind. *)
Rounded == [limit |-> 2, window |-> 6, failOpen |-> FALSE, mayFail |-> FALSE, grain |-> 2,
            maxBack |-> 0, maxStall |-> 1, maxTime |-> 15, maxCalls |-> 5]

(* A store whose accesses fail, before or after taking effect. *)
Failing == [limit |-> 3, window |-> 3, failOpen |-> TRUE, mayFail |-> TRUE, grain |-> 1,
            maxBack |-> 0, maxStall |-> 1, maxTime |-> 4, maxCalls |-> 8]

(* A wall clock that is set back, during calls and between them, with more *)
(* calls than Limit, and three tokens, so that a count that expires early  *)
(* is one that matters.                                                    *)
Stepping == [limit |-> 3, window |-> 6, failOpen |-> FALSE, mayFail |-> FALSE, grain |-> 1,
             maxBack |-> 2, maxStall |-> 1, maxTime |-> 13, maxCalls |-> 4]

CheckedConfigs == {Reliable, Stalled, Rounded, Failing, Stepping}

(* The instance in which the bucket is not full after Reset. *)
ExactConfigs ==
    { [limit |-> 2, window |-> 4, failOpen |-> FALSE, mayFail |-> FALSE, grain |-> 1,
       maxBack |-> 0, maxStall |-> 2, maxTime |-> 11, maxCalls |-> 2] }
=============================================================================
