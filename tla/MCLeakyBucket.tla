---------------------------- MODULE MCLeakyBucket ----------------------------
(* Small instances of LeakyBucket for TLC. *)
EXTENDS LeakyBucket, TLC

Symmetry == Permutations(Threads)

(* A leak interval that is no whole number, results that round down.  The  *)
(* small numbers stand for ones that do, as 29 calls a second.             *)
Fractional == [limit |-> 2, window |-> 5, failOpen |-> FALSE, mayFail |-> FALSE,
               inexact |-> TRUE, grain |-> 1, maxStall |-> 1, maxTime |-> 12, maxCalls |-> 5]

(* Whole quotients that come out one short, leak times rounded by float64. *)
Rounded == [limit |-> 1, window |-> 4, failOpen |-> FALSE, mayFail |-> FALSE,
            inexact |-> TRUE, grain |-> 2, maxStall |-> 1, maxTime |-> 14, maxCalls |-> 5]

(* A store whose accesses fail, before or after taking effect. *)
Failing == [limit |-> 3, window |-> 3, failOpen |-> TRUE, mayFail |-> TRUE,
            inexact |-> FALSE, grain |-> 1, maxStall |-> 1, maxTime |-> 4, maxCalls |-> 8]

SafetyConfigs == {Fractional, Rounded, Failing}
=============================================================================
