--------------------------- MODULE MCSlidingWindow ---------------------------
(* Small instances of SlidingWindow for TLC. *)
EXTENDS SlidingWindow, TLC

Symmetry == Permutations(Threads)

(* One call at a time: what the algorithm promises. *)
Sequential == [limit |-> 2, window |-> 5, failOpen |-> FALSE, concurrent |-> FALSE,
               mayFail |-> FALSE, grain |-> 1, maxStall |-> 1, maxTime |-> 16, maxCalls |-> 6]

(* One call at a time, with times that float64 does not hold. *)
Rounded == [limit |-> 1, window |-> 8, failOpen |-> FALSE, concurrent |-> FALSE,
            mayFail |-> FALSE, grain |-> 2, maxStall |-> 2, maxTime |-> 22, maxCalls |-> 4]

(* Goroutines racing through initialisation and rotation, a store that fails. *)
Racing == [limit |-> 1, window |-> 2, failOpen |-> FALSE, concurrent |-> TRUE,
           mayFail |-> TRUE, grain |-> 1, maxStall |-> 0, maxTime |-> 11, maxCalls |-> 4]

(* The same with calls that are stalled: one that belongs to a window that *)
(* is over counts in the one that another has rotated to.                  *)
Straggling == [limit |-> 1, window |-> 2, failOpen |-> FALSE, concurrent |-> TRUE,
               mayFail |-> FALSE, grain |-> 1, maxStall |-> 1, maxTime |-> 11, maxCalls |-> 4]

(* Two calls at the same time. *)
Pair == [limit |-> 1, window |-> 2, failOpen |-> FALSE, concurrent |-> TRUE,
         mayFail |-> FALSE, grain |-> 1, maxStall |-> 1, maxTime |-> 3, maxCalls |-> 2]

CheckedConfigs    == {Sequential, Rounded, Racing, Straggling}
SequentialConfigs == {Sequential}
PairConfigs       == {Pair}
=============================================================================
