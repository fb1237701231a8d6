--------------------------- MODULE LimiterConfig ---------------------------
(***************************************************************************)
(* What a limiter is built with (core.Config, or the policy of a           *)
(* resource), chosen at the start and never changed.  A configuration is a *)
(* record; the module of a limiter adds to it the environment it runs in:  *)
(* whether the store can fail, the precision of float64, and the bounds of *)
(* the clock and of the calls.                                             *)
(***************************************************************************)
EXTENDS Integers

CONSTANT Configs    \* the configurations to consider

(* What Validate makes sure of. *)
ASSUME ConfigsAssumption ==
    \A c \in Configs :
        /\ c.limit \in Nat \ {0}
        /\ c.window \in Nat \ {0}
        /\ c.failOpen \in BOOLEAN

VARIABLE cfg

Limit    == cfg.limit
Window   == cfg.window
FailOpen == cfg.failOpen
=============================================================================
