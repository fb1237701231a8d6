------------------------------- MODULE TTLCell -------------------------------
(***************************************************************************)
(* One key of a storage.Storage as a limiter sees it: a number with an     *)
(* expiry.  Each Get, Set or Incr of one key is atomic; that the in-memory *)
(* store behaves so although it takes several steps is the subject of      *)
(* InMemStore and CounterStore.                                            *)
(***************************************************************************)
EXTENDS Integers

Cell == [value : Int, expiresAt : Int]

(* A key that was never written reads as one that expired long ago. *)
EmptyCell == [value |-> 0, expiresAt |-> 0]

(* Valid up to and including the instant of expiresAt. *)
Live(cell, now) == cell.expiresAt >= now

(* Get: zero for a missing or expired key. *)
Read(cell, now) == IF Live(cell, now) THEN cell.value ELSE 0

(* Set: the value, and a fresh time to live. *)
Written(v, now, ttl) == [value |-> v, expiresAt |-> now + ttl]

(* Incr: initialise to one with a fresh time to live, or add one and keep  *)
(* the expiry (in memory) or push it back (the Redis script).              *)
Incremented(cell, now, ttl, refresh) ==
    IF ~Live(cell, now) THEN Written(1, now, ttl)
    ELSE [value |-> cell.value + 1,
          expiresAt |-> IF refresh THEN now + ttl ELSE cell.expiresAt]

(* float64(x) of a UnixNano, and back: float64 keeps 53 bits, so it holds  *)
(* every grain-th integer of that size only (grain is 256 today); x goes   *)
(* to the nearest of them, and from the middle to the even one.            *)
Float64(x, grain) ==
    LET q == x \div grain
        r == x % grain IN
    IF 2 * r < grain \/ (2 * r = grain /\ q % 2 = 0) THEN q * grain ELSE (q + 1) * grain

(* clampDuration *)
clampDuration(d) == IF d < 0 THEN 0 ELSE d
=============================================================================
