--------------------------- MODULE ResourceRouter ---------------------------
(***************************************************************************)
(* The resource-scoped limiter (resource_limiter.go): one limiter for each *)
(* configured resource and one for all other names, on a single store that *)
(* only the router closes.                                                 *)
(*                                                                         *)
(* AllowResource selects a limiter and gives it the name and the key as    *)
(* one string.  The limiters are the subject of other modules: here each   *)
(* counts the calls of one window under the string it is given.  Any       *)
(* number of goroutines may call Close, also while calls are under way.    *)
(***************************************************************************)
EXTENDS Integers, Sequences

CONSTANTS
    Threads,    \* goroutines calling AllowResource and Close
    Chars,      \* the characters of names and keys
    Names,      \* resource names, as sequences of characters
    Keys,       \* user keys, likewise
    Configs     \* what the router can be built with

ASSUME NamesAssumption ==
    /\ ":" \in Chars
    /\ Names \subseteq Seq(Chars)
    /\ Keys \subseteq Seq(Chars)

(* What ResourceConfig.Validate makes sure of. *)
ASSUME ConfigsAssumption ==
    \A c \in Configs :
        /\ c.redis \in BOOLEAN
        /\ c.default \in Nat \ {0}
        /\ \A r \in DOMAIN c.resources : r # <<>> /\ c.resources[r] \in Nat \ {0}
        /\ c.maxCalls \in Nat

VARIABLES
    cfg,        \* the ResourceConfig, and the kind of the store
    counters,   \* the store: the count under each storage key
    store,      \* "open", or what its Close has reported
    once,       \* r.closeOnce: "new", "running" or "done"
    closeErr,   \* r.closeErr
    pc, loc,    \* program point and local variables of each goroutine
    calls,      \* calls made so far
    closes,     \* (history) calls of store.Close
    counted,    \* (history) calls counted by the store for each name and key
    admitted,   \* (history) of those, the calls allowed
    denied      \* (history) and the calls denied

vars == <<cfg, counters, store, once, closeErr, pc, loc, calls, closes,
          counted, admitted, denied>>

MaxCalls == cfg.maxCalls    \* bound on the number of calls

Pairs == Names \X Keys

(* Mutant: the length is left out. *)
NameAndKey(resource, key) == <<0, resource \o <<":">> \o key>>

(* A string that starts with a decimal number and a colon: the number, and *)
(* what follows the colon.                                                 *)
buildResourceKey(resource, key) == <<Len(resource), resource \o <<":">> \o key>>

StorageKeys == { buildResourceKey(p[1], p[2]) : p \in Pairs }

(* Mutant: a name that is missing in the map has the zero policy. *)
LimitOrZero(resource) ==
    IF resource \in DOMAIN cfg.resources THEN cfg.resources[resource] ELSE 0

LimitOf(resource) ==
    IF resource \in DOMAIN cfg.resources THEN cfg.resources[resource] ELSE cfg.default

NoCall == [pair |-> <<>>, limit |-> 1]

TypeOK ==
    /\ cfg \in Configs
    /\ counters \in [StorageKeys -> Nat]
    /\ store \in {"open", "nil", "error"}
    /\ once \in {"new", "running", "done"}
    /\ closeErr \in {"nil", "error"}
    /\ pc \in [Threads -> {"idle", "allow", "once", "close", "report"}]
    /\ loc \in [Threads -> [pair : Pairs \union {<<>>}, limit : Nat \ {0}]]
    /\ \A t \in Threads : pc[t] = "allow" => loc[t].pair \in Pairs
    /\ {calls, closes} \subseteq Nat
    /\ {counted, admitted, denied} \subseteq [Pairs -> Nat]

(* newResourceRouter *)
Init ==
    /\ cfg \in Configs
    /\ counters = [s \in StorageKeys |-> 0]
    /\ store = "open"
    /\ once = "new"
    /\ closeErr = "nil"
    /\ pc = [t \in Threads |-> "idle"]
    /\ loc = [t \in Threads |-> NoCall]
    /\ calls = 0
    /\ closes = 0
    /\ counted = [p \in Pairs |-> 0]
    /\ admitted = [p \in Pairs |-> 0]
    /\ denied = [p \in Pairs |-> 0]

-----------------------------------------------------------------------------
Goto(t, l) == pc' = [pc EXCEPT ![t] = l]

Begin(t) ==
    /\ pc[t] = "idle"
    /\ calls < MaxCalls
    /\ calls' = calls + 1

(* r.limiters[resource], and the call of its Allow. *)
AllowResource(t, p) ==
    /\ Begin(t)
    /\ loc' = [loc EXCEPT ![t] = [pair |-> p, limit |-> LimitOf(p[1])]]
    /\ Goto(t, "allow")
    /\ UNCHANGED <<cfg, counters, store, once, closeErr, closes, counted, admitted, denied>>

(* The limiter counts the call in the store. *)
Count(p) ==
    /\ counters' = [counters EXCEPT ![buildResourceKey(p[1], p[2])] = @ + 1]
    /\ counted' = [counted EXCEPT ![p] = @ + 1]

Return(t) ==
    /\ Goto(t, "idle")
    /\ loc' = [loc EXCEPT ![t] = NoCall]

(* The in-memory store serves calls after its Close, the Redis client      *)
(* does not.                                                               *)
LimiterAllow(t) ==
    LET p == loc[t].pair IN
    /\ pc[t] = "allow"
    /\ store = "open" \/ ~cfg.redis
    /\ Count(p)
    /\ IF counters'[buildResourceKey(p[1], p[2])] <= loc[t].limit
       THEN admitted' = [admitted EXCEPT ![p] = @ + 1] /\ UNCHANGED denied
       ELSE denied' = [denied EXCEPT ![p] = @ + 1] /\ UNCHANGED admitted
    /\ Return(t)
    /\ UNCHANGED <<cfg, store, once, closeErr, calls, closes>>

(* failOpenHandler: Redis fails, before or after it has counted the call,  *)
(* or the client is closed.  What the caller is told (FailOpen) is in the  *)
(* limiters' modules.                                                      *)
StoreError(t) ==
    /\ pc[t] = "allow"
    /\ cfg.redis
    /\ \/ UNCHANGED <<counters, counted>>
       \/ store = "open" /\ Count(loc[t].pair)
    /\ Return(t)
    /\ UNCHANGED <<cfg, store, once, closeErr, calls, closes, admitted, denied>>

-----------------------------------------------------------------------------
(* Mutant: without closeOnce. *)
CloseAtOnce(t) ==
    /\ Begin(t)
    /\ Goto(t, "close")
    /\ UNCHANGED <<cfg, counters, store, once, closeErr, loc, closes, counted, admitted, denied>>

(* Close is called, and goes for closeOnce.Do. *)
Close(t) ==
    /\ Begin(t)
    /\ Goto(t, "once")
    /\ UNCHANGED <<cfg, counters, store, once, closeErr, loc, closes, counted, admitted, denied>>

(* sync.Once: the first caller runs the function, *)
OnceRun(t) ==
    /\ pc[t] = "once"
    /\ once = "new"
    /\ once' = "running"
    /\ Goto(t, "close")
    /\ UNCHANGED <<cfg, counters, store, closeErr, loc, calls, closes, counted, admitted, denied>>

(* and the others wait until it has returned. *)
OnceWait(t) ==
    /\ pc[t] = "once"
    /\ once = "done"
    /\ Goto(t, "report")
    /\ UNCHANGED <<cfg, counters, store, once, closeErr, loc, calls, closes, counted, admitted, denied>>

(* What store.Close reports; the in-memory store never fails, the Redis    *)
(* client also when it is closed already.                                  *)
Outcomes == IF ~cfg.redis THEN {"nil"} ELSE IF store # "open" THEN {"error"} ELSE {"nil", "error"}

(* Mutant: Do is left without its being marked as done. *)
StoreCloseNotDone(t) ==
    /\ pc[t] = "close"
    /\ \E e \in Outcomes : store' = e /\ closeErr' = e
    /\ closes' = closes + 1
    /\ Goto(t, "report")
    /\ UNCHANGED <<cfg, counters, once, loc, calls, counted, admitted, denied>>

(* r.closeErr = r.store.Close(), and Do is done. *)
StoreClose(t) ==
    /\ pc[t] = "close"
    /\ \E e \in Outcomes : store' = e /\ closeErr' = e
    /\ closes' = closes + 1
    /\ once' = "done"
    /\ Goto(t, "report")
    /\ UNCHANGED <<cfg, counters, loc, calls, counted, admitted, denied>>

(* return r.closeErr *)
CloseReturn(t) ==
    /\ pc[t] = "report"
    /\ Return(t)
    /\ UNCHANGED <<cfg, counters, store, once, closeErr, calls, closes, counted, admitted, denied>>

Invoke(t) == Close(t) \/ \E p \in Pairs : AllowResource(t, p)

Step(t) ==
    \/ LimiterAllow(t) \/ StoreError(t)
    \/ OnceRun(t) \/ OnceWait(t) \/ StoreClose(t) \/ CloseReturn(t)

Next == \E t \in Threads : Invoke(t) \/ Step(t)

Spec == Init /\ [][Next]_vars

(* The Go scheduler runs every goroutine that can take a step. *)
FairSpec == Spec /\ \A t \in Threads : WF_vars(Step(t))

-----------------------------------------------------------------------------
(* Names and keys are kept apart on the shared store, whatever characters  *)
(* they hold: the policy of a name admits at most its limit of calls of a  *)
(* key, and none is denied before that many calls of the same name and key *)
(* were counted (resource_limiter.go:63-69, 96-98).                        *)
Isolated ==
    \A p \in Pairs :
        /\ admitted[p] <= LimitOf(p[1])
        /\ denied[p] > 0 => counted[p] > LimitOf(p[1])

(* However many goroutines call Close, the store is closed once; none of   *)
(* them returns before it is, and each is told what that Close reported    *)
(* (resource_limiter.go:71-76; core/resource.go:51-52).                    *)
ClosedOnce ==
    /\ closes <= 1
    /\ \A t \in Threads : pc[t] = "report" => store # "open" /\ closeErr = store

(* Every call returns, also a Close that waits for another one             *)
(* (resource_limiter.go:71-76).                                            *)
CallsReturn == \A t \in Threads : (pc[t] # "idle") ~> (pc[t] = "idle")
=============================================================================
