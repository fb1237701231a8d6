---------------------------- MODULE MCInMemStore ----------------------------
(* Small instances of InMemStore for TLC. *)
EXTENDS InMemStore, TLC

(* The goroutines are interchangeable in the runs without liveness. *)
Symmetry == Permutations(Threads) \union Permutations(Keys)
=============================================================================
