---------------------------- MODULE MCFixedWindow ----------------------------
(* Small instances of FixedWindow for TLC. *)
EXTENDS FixedWindow, TLC

Symmetry == Permutations(Threads)

(* Calls delayed past the end of their window, on a store that fails. *)
Late == [limit |-> 1, window |-> 2, failOpen |-> TRUE, refreshTTL |-> FALSE,
         mayFail |-> TRUE, maxDelay |-> 4, maxTime |-> 8, maxCalls |-> 4]

(* Prompt calls on the Redis counter: one counter per bucket. *)
Prompt == [limit |-> 2, window |-> 3, failOpen |-> FALSE, refreshTTL |-> TRUE,
           mayFail |-> FALSE, maxDelay |-> 1, maxTime |-> 8, maxCalls |-> 6]

CheckedConfigs == {Late, Prompt}
=============================================================================
