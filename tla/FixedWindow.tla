----------------------------- MODULE FixedWindow -----------------------------
(***************************************************************************)
(* The fixed window limiter (internal/algorithms/fixed_window.go) for one  *)
(* user key on any store.                                                  *)
(*                                                                         *)
(* A call reads the clock to choose its bucket, then increments the        *)
(* counter of that bucket, then reads the clock again for Reset.  The      *)
(* counter lives for one Window from its first increment, which is not the *)
(* window the bucket stands for: a call that is delayed between the two    *)
(* steps can reach a counter that has expired, and start it again.         *)
(***************************************************************************)
EXTENDS LimiterConfig, TTLCell, FiniteSets

CONSTANT Threads

ASSUME EnvironmentAssumption ==
    /\ IsFiniteSet(Threads)
    /\ \A c \in Configs :
         /\ {c.refreshTTL, c.mayFail} \subseteq BOOLEAN
         /\ {c.maxDelay, c.maxCalls} \subseteq Nat
         /\ c.maxTime \in Nat \ {0}

RefreshTTL == cfg.refreshTTL    \* an increment pushes the expiry back (the Redis script)
MayFail    == cfg.mayFail       \* the store can return errors
MaxDelay   == cfg.maxDelay      \* bound on the time between the clock reading and the Incr
MaxTime    == cfg.maxTime       \* bound on the clock
MaxCalls   == cfg.maxCalls      \* bound on the number of calls

VARIABLES
    now,        \* the clock
    counter,    \* the store's value of "gorl:fw:key:bucket" for each bucket
    pc, loc,    \* program point and local variables of each goroutine
    calls,      \* calls made so far
    metrics,    \* IncAllow and IncDeny counts
    admitted,   \* (history) calls of each bucket admitted by their count
    spent       \* (history) increments of each bucket that admitted nobody:
                \* the call has not returned yet, or was told of an error

vars == <<cfg, now, counter, pc, loc, calls, metrics, admitted, spent>>

Buckets == 0..(MaxTime \div Window)

IdleLocal == [bucket |-> 0, at |-> 0, count |-> 0]

TypeOK ==
    /\ cfg \in Configs
    /\ now \in Nat
    /\ counter \in [Buckets -> [value : Nat, expiresAt : Nat]]
    /\ pc \in [Threads -> {"idle", "incr", "decide"}]
    /\ loc \in [Threads -> [bucket : Buckets, at : Nat, count : Nat]]
    /\ calls \in Nat
    /\ metrics \in [allow : Nat, deny : Nat]
    /\ admitted \in [Buckets -> Nat]
    /\ spent \in [Buckets -> Nat]

Init ==
    /\ cfg \in Configs
    /\ now = 1
    /\ counter = [b \in Buckets |-> EmptyCell]
    /\ pc = [t \in Threads |-> "idle"]
    /\ loc = [t \in Threads |-> IdleLocal]
    /\ calls = 0
    /\ metrics = [allow |-> 0, deny |-> 0]
    /\ admitted = [b \in Buckets |-> 0]
    /\ spent = [b \in Buckets |-> 0]

-----------------------------------------------------------------------------
Goto(t, l) == pc' = [pc EXCEPT ![t] = l]

Return(t) ==
    /\ Goto(t, "idle")
    /\ loc' = [loc EXCEPT ![t] = IdleLocal]

(* Mutant: the bucket number is rounded up. *)
AllowNextBucket(t) ==
    /\ pc[t] = "idle"
    /\ calls < MaxCalls
    /\ calls' = calls + 1
    /\ loc' = [loc EXCEPT ![t] = [bucket |-> now \div Window + 1, at |-> now, count |-> 0]]
    /\ Goto(t, "incr")
    /\ UNCHANGED <<cfg, now, counter, metrics, admitted, spent>>

(* start := time.Now(), and the bucket it falls in. *)
Allow(t) ==
    /\ pc[t] = "idle"
    /\ calls < MaxCalls
    /\ calls' = calls + 1
    /\ loc' = [loc EXCEPT ![t] = [bucket |-> now \div Window, at |-> now, count |-> 0]]
    /\ Goto(t, "incr")
    /\ UNCHANGED <<cfg, now, counter, metrics, admitted, spent>>

(* store.Incr(ctx, storageKey, window) *)
Increment(b) ==
    counter' = [counter EXCEPT ![b] = Incremented(@, now, Window, RefreshTTL)]

Incr(t) ==
    LET b == loc[t].bucket IN
    /\ pc[t] = "incr"
    /\ Increment(b)
    /\ loc' = [loc EXCEPT ![t].count = counter'[b].value]
    /\ spent' = [spent EXCEPT ![b] = @ + 1]
    /\ Goto(t, "decide")
    /\ UNCHANGED <<cfg, now, calls, metrics, admitted>>

(* failOpenHandler after a failed Incr, which may have reached the store.  *)
StoreError(t) ==
    LET b == loc[t].bucket IN
    /\ MayFail
    /\ pc[t] = "incr"
    /\ \/ UNCHANGED <<counter, spent>>
       \/ Increment(b) /\ spent' = [spent EXCEPT ![b] = @ + 1]
    /\ metrics' = IF FailOpen THEN [metrics EXCEPT !.allow = @ + 1] ELSE metrics
    /\ Return(t)
    /\ UNCHANGED <<cfg, now, calls, admitted>>

(* Mutants: off by one in either direction. *)
AllowedOneMore(count) == count - 1 <= Limit
AllowedOneLess(count) == count < Limit

Allowed(count) == count <= Limit

(* The decision and the metrics. *)
Decide(t) ==
    LET b == loc[t].bucket IN
    /\ pc[t] = "decide"
    /\ IF Allowed(loc[t].count)
       THEN /\ metrics' = [metrics EXCEPT !.allow = @ + 1]
            /\ admitted' = [admitted EXCEPT ![b] = @ + 1]
            /\ spent' = [spent EXCEPT ![b] = @ - 1]
       ELSE /\ metrics' = [metrics EXCEPT !.deny = @ + 1]
            /\ UNCHANGED <<admitted, spent>>
    /\ Return(t)
    /\ UNCHANGED <<cfg, now, counter, calls>>

Tick ==
    /\ now < MaxTime
    /\ \A t \in Threads : pc[t] = "incr" => now < loc[t].at + MaxDelay
    /\ now' = now + 1
    /\ UNCHANGED <<cfg, counter, pc, loc, calls, metrics, admitted, spent>>

Next ==
    \/ \E t \in Threads : Allow(t) \/ Incr(t) \/ StoreError(t) \/ Decide(t)
    \/ Tick

Spec == Init /\ [][Next]_vars

-----------------------------------------------------------------------------
(* The counters a bucket can go through: each lives for more than Window,  *)
(* the first starts with the bucket at the earliest, and the last starts   *)
(* MaxDelay after its end at the latest.                                   *)
Generations == 1 + (Window - 1 + MaxDelay) \div (Window + 1)

(* The limit of a window: at most Limit calls of a bucket are admitted for *)
(* each counter the bucket can go through; exactly one, and so at most     *)
(* Limit calls, unless a call can be delayed by two units of time or more  *)
(* (fixed_window.go:38-54).                                                *)
BucketLimit == \A b \in Buckets : admitted[b] <= Limit * Generations

(* No call is denied for nothing: when one is, Limit increments of its     *)
(* bucket other than its own have admitted a call, are about to, or were   *)
(* spent on an error or another denial (fixed_window.go:42-54).            *)
DeniedOnlyWhenFull ==
    \A t \in Threads :
        (pc[t] = "decide" /\ ~Allowed(loc[t].count)) =>
            admitted[loc[t].bucket] + spent[loc[t].bucket] > Limit
=============================================================================
