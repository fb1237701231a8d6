--------------------------- MODULE SlidingEstimate ---------------------------
(***************************************************************************)
(* The estimate of the sliding window limiter, as                          *)
(* internal/algorithms/sliding_window.go computes it in Go and             *)
(* storage/redis/lua/sliding_window.lua in Lua: the count of the current   *)
(* window plus the part of the previous window's count that the sliding    *)
(* window still covers, and what a denied call is told.  Times and counts  *)
(* are relative to the start of the current window.                        *)
(***************************************************************************)
EXTENDS LimiterConfig, TTLCell

(* The arithmetic of a decision, with every ratio multiplied by Window.    *)

(* prevCount*(1-ratio) + currCount *)
SlidingCount(since, prev, curr) == prev * (Window - since) + curr * Window

(* The outcomes of "slidingCount < limit": when the exact value is the     *)
(* limit and ratio is a rounded fraction, the float64 value may fall on    *)
(* either side.                                                            *)
Outcomes(since, prev, curr) ==
    LET c == SlidingCount(since, prev, curr) IN
    { a \in BOOLEAN :
        \/ a = (c < Limit * Window)
        \/ c = Limit * Window /\ prev > 0 /\ since % Window # 0 }

(* Mutants: the time since the boundary, and a negative time to it. *)
SinceBoundary(since) == since
BeyondBoundary(since) == since - Window

UntilBoundary(since) == clampDuration(Window - since)

DivideUp(a, b) == -((-a) \div b)

(* RetryAfter of a denied call.  (The float64 ratio can raise the ceiling  *)
(* by one, which only makes the announced delay longer.)                   *)
RetryAfter(since, prev, curr) ==
    IF curr >= Limit \/ prev = 0 THEN UntilBoundary(since)
    ELSE LET excess == (prev - (Limit - curr)) * Window - since * prev
             delay  == DivideUp(clampDuration(excess), prev)
             atLeast == IF delay = 0 THEN 1 ELSE delay IN
         IF atLeast > UntilBoundary(since) THEN UntilBoundary(since) ELSE atLeast
=============================================================================
