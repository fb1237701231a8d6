---------------------------- MODULE SlidingWindow ----------------------------
(***************************************************************************)
(* The sliding window limiter on a generic store                           *)
(* (internal/algorithms/sliding_window.go, allowGeneric) for one user key. *)
(*                                                                         *)
(* Three store keys hold the start of the current window and the counts of *)
(* the current and of the previous window.  Unlike the two bucket          *)
(* limiters this one takes no mutex: every Get, Set and Incr of a call is  *)
(* a step of its own here, and the calls of several goroutines interleave  *)
(* at each of them.                                                        *)
(***************************************************************************)
EXTENDS SlidingEstimate, Sequences, FiniteSets

CONSTANT Threads

ASSUME EnvironmentAssumption ==
    \A c \in Configs :
        /\ {c.concurrent, c.mayFail} \subseteq BOOLEAN
        /\ c.grain \in Nat \ {0}
        /\ {c.maxStall, c.maxTime, c.maxCalls} \subseteq Nat

Concurrent == cfg.concurrent    \* calls for the key overlap
MayFail    == cfg.mayFail       \* the store can return errors
Grain      == cfg.grain         \* spacing of the float64 values around the current time
MaxStall   == cfg.maxStall      \* bound on the time a call takes after its clock reading
MaxTime    == cfg.maxTime       \* bound on the clock
MaxCalls   == cfg.maxCalls      \* bound on the number of calls

VARIABLES
    now,        \* the clock
    store,      \* the cells of tsKey, currKey and prevKey
    pc, loc,    \* program point and local variables of each goroutine
    calls,      \* calls made so far
    metrics,    \* IncAllow and IncDeny counts
    counted,    \* (history) the clock reading of each call whose Incr was applied
    last        \* (history) what the last completed decision announced

vars == <<cfg, now, store, pc, loc, calls, metrics, counted, last>>

(* Mutant: counts that live longer than two windows. *)
StateTTLLong == 3 * Window

StateTTL == 2 * Window

Fields == {"ts", "curr", "prev"}

(* The access each program point performs: the Gets, the Sets of the first *)
(* request, those of a rotation, and the Incr.                             *)
Gets  == {"getTs", "rotateGetCurr", "getPrev", "getCurr"}
Sets  == {"initTs", "initCurr", "initPrev", "rotatePrev", "rotateCurr", "rotateTs"}
PCs   == {"idle", "incr"} \union Gets \union Sets

IdleLocal == [now |-> 0, windowStart |-> 0, next |-> 0, prev |-> 0, curr |-> 0]

NoDecision == [made |-> FALSE, allowed |-> FALSE, retryAt |-> 0]

TypeOK ==
    /\ cfg \in Configs
    /\ now \in Nat
    /\ store \in [Fields -> [value : Nat, expiresAt : Nat]]
    /\ pc \in [Threads -> PCs]
    /\ loc \in [Threads -> [now : Nat, windowStart : Nat, next : Nat, prev : Nat, curr : Nat]]
    /\ calls \in Nat
    /\ metrics \in [allow : Nat, deny : Nat]
    /\ counted \in Seq(Nat)
    /\ last \in [made : BOOLEAN, allowed : BOOLEAN, retryAt : Nat]

Init ==
    /\ cfg \in Configs
    /\ now = Grain
    /\ store = [f \in Fields |-> EmptyCell]
    /\ pc = [t \in Threads |-> "idle"]
    /\ loc = [t \in Threads |-> IdleLocal]
    /\ calls = 0
    /\ metrics = [allow |-> 0, deny |-> 0]
    /\ counted = << >>
    /\ last = NoDecision

-----------------------------------------------------------------------------
Goto(t, l) == pc' = [pc EXCEPT ![t] = l]

Get(f) == Read(store[f], now)

Write(f, v) == store' = [store EXCEPT ![f] = Written(v, now, StateTTL)]

Return(t) ==
    /\ Goto(t, "idle")
    /\ loc' = [loc EXCEPT ![t] = IdleLocal]

(* Allow, up to its clock reading. *)
Allow(t) ==
    /\ pc[t] = "idle"
    /\ Concurrent \/ \A u \in Threads : pc[u] = "idle"
    /\ calls < MaxCalls
    /\ calls' = calls + 1
    /\ loc' = [loc EXCEPT ![t].now = now]
    /\ Goto(t, "getTs")
    /\ UNCHANGED <<cfg, now, store, metrics, counted, last>>

(* Get the window start: first request, rotation, or neither. *)
GetTs(t) ==
    LET ts      == Get("ts")
        elapsed == loc[t].now - ts IN
    /\ pc[t] = "getTs"
    /\ \/ /\ ts = 0
          /\ loc' = [loc EXCEPT ![t].windowStart = loc[t].now]
          /\ Goto(t, "initTs")
       \/ /\ ts # 0
          /\ loc' = [loc EXCEPT ![t].windowStart = ts]
          /\ Goto(t, IF elapsed >= Window THEN "rotateGetCurr" ELSE "getPrev")
    /\ UNCHANGED <<cfg, now, store, calls, metrics, counted, last>>

(* Mutants: the current count is carried over any number of windows, or   *)
(* never.                                                                  *)
RotateCarrying(t, carried(_)) ==
    LET elapsed   == loc[t].now - loc[t].windowStart
        intervals == elapsed \div Window IN
    /\ pc[t] = "rotateGetCurr"
    /\ loc' = [loc EXCEPT ![t].next = carried(Get("curr")),
                          ![t].windowStart = @ + intervals * Window]
    /\ Goto(t, "rotatePrev")
    /\ UNCHANGED <<cfg, now, store, calls, metrics, counted, last>>

RotateAlwaysCarrying(t) == RotateCarrying(t, LAMBDA c : c)
RotateNeverCarrying(t) == RotateCarrying(t, LAMBDA c : 0)

(* The count that becomes the previous one, if only one window has passed. *)
RotateGetCurr(t) ==
    LET elapsed   == loc[t].now - loc[t].windowStart
        intervals == elapsed \div Window IN
    /\ pc[t] = "rotateGetCurr"
    /\ loc' = [loc EXCEPT ![t].next = IF intervals = 1 THEN Get("curr") ELSE 0,
                          ![t].windowStart = @ + intervals * Window]
    /\ Goto(t, "rotatePrev")
    /\ UNCHANGED <<cfg, now, store, calls, metrics, counted, last>>

(* Mutant: a rotation that leaves the current count where it was. *)
SetAccessKeepingCurr(t) ==
    CASE pc[t] = "initTs"     -> <<"ts", Float64(loc[t].windowStart, Grain), "initCurr">>
      [] pc[t] = "initCurr"   -> <<"curr", 0, "initPrev">>
      [] pc[t] = "initPrev"   -> <<"prev", 0, "getPrev">>
      [] pc[t] = "rotatePrev" -> <<"prev", loc[t].next, "rotateTs">>
      [] pc[t] = "rotateTs"   -> <<"ts", Float64(loc[t].windowStart, Grain), "getPrev">>

(* The Set of each program point, and what follows it. *)
SetAccess(t) ==
    CASE pc[t] = "initTs"     -> <<"ts", Float64(loc[t].windowStart, Grain), "initCurr">>
      [] pc[t] = "initCurr"   -> <<"curr", 0, "initPrev">>
      [] pc[t] = "initPrev"   -> <<"prev", 0, "getPrev">>
      [] pc[t] = "rotatePrev" -> <<"prev", loc[t].next, "rotateCurr">>
      [] pc[t] = "rotateCurr" -> <<"curr", 0, "rotateTs">>
      [] pc[t] = "rotateTs"   -> <<"ts", Float64(loc[t].windowStart, Grain), "getPrev">>

Set(t) ==
    /\ pc[t] \in Sets
    /\ Write(SetAccess(t)[1], SetAccess(t)[2])
    /\ Goto(t, SetAccess(t)[3])
    /\ UNCHANGED <<cfg, now, loc, calls, metrics, counted, last>>

GetPrev(t) ==
    /\ pc[t] = "getPrev"
    /\ loc' = [loc EXCEPT ![t].prev = Get("prev")]
    /\ Goto(t, "getCurr")
    /\ UNCHANGED <<cfg, now, store, calls, metrics, counted, last>>

(* The earliest end of RetryAfter announced since the last granted call. *)
RetryAt(at) == IF last.made /\ ~last.allowed /\ last.retryAt < at THEN last.retryAt ELSE at

(* The last Get and the decision; a denial returns at once. *)
GetCurr(t) ==
    LET l     == loc[t]
        since == l.now - l.windowStart
        curr  == Get("curr") IN
    /\ pc[t] = "getCurr"
    /\ \E allowed \in Outcomes(since, l.prev, curr) :
         \/ /\ allowed
            /\ loc' = [loc EXCEPT ![t].curr = curr]
            /\ Goto(t, "incr")
            /\ UNCHANGED <<metrics, last>>
         \/ /\ ~allowed
            /\ metrics' = [metrics EXCEPT !.deny = @ + 1]
            /\ last' = [made |-> TRUE, allowed |-> FALSE,
                        retryAt |-> RetryAt(l.now + RetryAfter(since, l.prev, curr))]
            /\ Return(t)
    /\ UNCHANGED <<cfg, now, store, calls, counted>>

Increment(t) ==
    /\ store' = [store EXCEPT !["curr"] = Incremented(@, now, StateTTL, FALSE)]
    /\ counted' = Append(counted, loc[t].now)

(* The Incr of an admitted call. *)
Incr(t) ==
    /\ pc[t] = "incr"
    /\ Increment(t)
    /\ metrics' = [metrics EXCEPT !.allow = @ + 1]
    /\ last' = [made |-> TRUE, allowed |-> TRUE, retryAt |-> 0]
    /\ Return(t)
    /\ UNCHANGED <<cfg, now, calls>>

(* failOpenHandler after a failed access.  A Set or Incr that reports an   *)
(* error may have reached the store.                                       *)
StoreError(t) ==
    /\ MayFail
    /\ pc[t] # "idle"
    /\ \/ UNCHANGED <<store, counted>>
       \/ pc[t] \in Sets /\ Write(SetAccess(t)[1], SetAccess(t)[2]) /\ UNCHANGED counted
       \/ pc[t] = "incr" /\ Increment(t)
    /\ metrics' = IF FailOpen THEN [metrics EXCEPT !.allow = @ + 1] ELSE metrics
    /\ last' = NoDecision
    /\ Return(t)
    /\ UNCHANGED <<cfg, now, calls>>

Tick ==
    /\ now < MaxTime
    /\ \A t \in Threads : pc[t] # "idle" => now < loc[t].now + MaxStall
    /\ now' = now + 1
    /\ UNCHANGED <<cfg, store, pc, loc, calls, metrics, counted, last>>

Step(t) ==
    \/ GetTs(t) \/ RotateGetCurr(t) \/ Set(t) \/ GetPrev(t) \/ GetCurr(t) \/ Incr(t)
    \/ StoreError(t)

Next ==
    \/ \E t \in Threads : Allow(t) \/ Step(t)
    \/ Tick

Spec == Init /\ [][Next]_vars

-----------------------------------------------------------------------------
(* The calls counted with a clock reading from a to b - 1. *)
CountedIn(a, b) == Cardinality({ i \in 1..Len(counted) : a <= counted[i] /\ counted[i] < b })

(* Calls of the key that come one after the other, on a store that works.  *)
Undisturbed == ~Concurrent /\ ~MayFail

(* How far float64 moves a window start, so how far from it a call that is *)
(* counted in the window or before it may be (and nothing at nanosecond    *)
(* precision); how much later than its clock reading a call may find a key *)
(* expired; and windows much longer than both.                             *)
Drift  == Grain \div 2
Blur   == 3 * Drift
Late   == IF MaxStall = 0 THEN 0 ELSE MaxStall - 1
Prompt == MaxStall + 2 * Blur <= Window

(* The three keys agree with history: while the window start is current,   *)
(* curr and prev are the calls counted in its window and in the one before *)
(* it, although the keys are written one by one and expire one by one; a   *)
(* rotation that comes so late that curr expires under it leaves no prev,  *)
(* at the end of the window, when it weighs next to nothing                *)
(* (sliding_window.go:62-114, 137).                                        *)
CountsMatchHistory ==
    LET ts == Get("ts") IN
    (Undisturbed /\ Prompt /\ (\A t \in Threads : pc[t] = "idle")
       /\ ts # 0 /\ now < ts + 2 * Window - Blur) =>
        /\ CountedIn(ts + Blur, ts + Window) <= Get("curr")
        /\ Get("curr") <= CountedIn(ts - Blur, ts + Window + Blur)
        /\ Get("prev") <= CountedIn(ts - Window - Blur, ts + Blur)
        /\ now < ts + Window - Blur - Late =>
              CountedIn(ts - Window + Blur + Late, ts - Blur) <= Get("prev")

(* The promise of the sliding estimate: at most twice Limit calls are      *)
(* admitted in any interval of a Window, and in a shorter one, wherever it *)
(* lies, at most one more than Limit and as many as Limit per Window gives *)
(* in its length: no burst of twice Limit at the end of a window           *)
(* (sliding_window.go:81-137).                                             *)
RollingLimit ==
    (Undisturbed /\ Prompt) => \A i, j \in 1..Len(counted) :
        LET n == j - i + 1
            d == counted[j] - counted[i] IN
        (i <= j /\ d <= Window - 2 * Blur - Late) =>
            n <= 2 * Limit /\ (n - Limit - 1) * Window <= Limit * (d + Blur)

(* The step that denies a call. *)
Denied(t) == metrics'.deny # metrics.deny /\ pc[t] = "getCurr" /\ pc'[t] = "idle"

(* No call is denied for nothing: with calls that come one after the       *)
(* other, a denial needs Limit calls counted in the two windows before it, *)
(* unless there are more calls in a window than float64 has values in it   *)
(* (sliding_window.go:81-113, 131-132).                                    *)
DeniedOnlyWhenFull ==
    [][ \A t \in Threads :
          (Undisturbed /\ Prompt /\ Limit * Drift < Window /\ Denied(t))
          => CountedIn(loc[t].now - 2 * Window - Blur + 1, loc[t].now + 1) >= Limit ]_vars

(* What is left of it when goroutines race through a rotation or a call    *)
(* fails halfway through one, which leaves a stale prev or curr beside a   *)
(* new window start: a count is forgotten four windows after it was made,  *)
(* so an unused key admits again (sliding_window.go:66, 71, 96-108, 137).  *)
StaleCountsForgotten ==
    [][ \A t \in Threads :
          Denied(t) => CountedIn(loc[t].now - 4 * Window - 2 * MaxStall, loc[t].now + MaxStall + 1) > 0 ]_vars

(* RetryAfter is exact to the clock's unit: with no call admitted in       *)
(* between, a call that reads the clock later than RetryAfter after any    *)
(* earlier denied one is not denied, across any number of rotations made   *)
(* by the denied calls (sliding_window.go:81-113, 172-190).                *)
RetryAfterNearlyKept ==
    [][ \A t \in Threads : (Undisturbed /\ Denied(t) /\ last.made /\ ~last.allowed)
                            => loc[t].now <= last.retryAt ]_vars

(* What core.Result says of RetryAfter: "Earliest reliable delay before    *)
(* the next denied request may be allowed again" (core.go:56).             *)
RetryAfterKept ==
    [][ \A t \in Threads : (Undisturbed /\ Denied(t) /\ last.made /\ ~last.allowed)
                            => loc[t].now < last.retryAt ]_vars

(* What Config.Limit says: "Maximum allowed requests/tokens per window"    *)
(* (core.go:37), asked only of the calls that read the same clock value.   *)
AtMostLimitAtOnce ==
    \A i \in 1..Len(counted) : CountedIn(counted[i], counted[i] + 1) <= Limit
=============================================================================
