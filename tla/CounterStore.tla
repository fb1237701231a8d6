---------------------------- MODULE CounterStore ----------------------------
(***************************************************************************)
(* What a concurrent store of expiring counters promises its callers.      *)
(*                                                                         *)
(* A key goes through generations, each with a value and a fixed expiry.   *)
(* A call takes effect in one step between its invocation and its return:  *)
(* an Incr adds one to a generation that was current at some moment of the *)
(* call and unexpired when the call began, or opens a new generation once  *)
(* the current one is gone; a Get reads such a generation; a Set opens a   *)
(* new one.  A generation is forgotten only after it has expired.          *)
(***************************************************************************)
EXTENDS Naturals, Sequences

CONSTANTS Threads, Keys, Values, TTL, NoCall

VARIABLES
    now,
    gens,       \* the generations opened so far, of all keys
    current,    \* the current generation of each key, or 0
    pending,    \* the call each thread has in progress, or NoCall
    res         \* what its last call returned

vars == <<now, gens, current, pending, res>>

None == 0

Init ==
    /\ now = 1
    /\ gens = << >>
    /\ current = [k \in Keys |-> None]
    /\ pending = [t \in Threads |-> NoCall]
    /\ res = [t \in Threads |-> 0]

Expired(g) == gens[g].expiresAt < now

Invocation(k, kind, v) ==
    [key |-> k, kind |-> kind, value |-> v,
     time |-> now, first |-> current[k], top |-> Len(gens)]

(* The generations current at some moment of t's call, and valid then. *)
Visible(t) ==
    LET c == pending[t] IN
    { g \in {c.first} \union (c.top + 1)..Len(gens) :
        /\ g # None
        /\ gens[g].key = c.key
        /\ gens[g].expiresAt >= c.time }

Invoke(t) ==
    /\ pending[t] = NoCall
    /\ \E k \in Keys, kind \in {"incr", "get", "set"}, v \in Values \union {0} :
         pending' = [pending EXCEPT ![t] = Invocation(k, kind, v)]
    /\ UNCHANGED <<now, gens, current, res>>

Respond(t, v) ==
    /\ pending' = [pending EXCEPT ![t] = NoCall]
    /\ res' = [res EXCEPT ![t] = v]

Pending(t, kind) == pending[t] # NoCall /\ pending[t].kind = kind

(* A time to live counted from some moment of the call. *)
Open(t, v) ==
    LET k == pending[t].key IN
    /\ \E e \in (pending[t].time + TTL)..(now + TTL) :
         gens' = Append(gens, [key |-> k, value |-> v, expiresAt |-> e])
    /\ current' = [current EXCEPT ![k] = Len(gens) + 1]

IncrBump(t) ==
    /\ Pending(t, "incr")
    /\ \E g \in Visible(t) :
         /\ gens' = [gens EXCEPT ![g].value = @ + 1]
         /\ Respond(t, gens[g].value + 1)
    /\ UNCHANGED <<now, current>>

IncrOpen(t) ==
    LET g == current[pending[t].key] IN
    /\ Pending(t, "incr")
    /\ g = None \/ Expired(g)
    /\ Open(t, 1)
    /\ Respond(t, 1)
    /\ UNCHANGED now

SetOpen(t) ==
    /\ Pending(t, "set")
    /\ Open(t, pending[t].value)
    /\ Respond(t, 0)
    /\ UNCHANGED now

GetHit(t) ==
    /\ Pending(t, "get")
    /\ \E g \in Visible(t) : Respond(t, gens[g].value)
    /\ UNCHANGED <<now, gens, current>>

(* Zero for a generation that has expired; or, at once, for an absent key. *)
GetMiss(t) ==
    /\ \/ /\ Pending(t, "get")
          /\ pending[t].first # None
          /\ Expired(pending[t].first)
       \/ /\ pending[t] = NoCall
          /\ \E k \in Keys : current[k] = None
    /\ Respond(t, 0)
    /\ UNCHANGED <<now, gens, current>>

Forget(k) ==
    /\ current[k] # None
    /\ Expired(current[k])
    /\ current' = [current EXCEPT ![k] = None]
    /\ UNCHANGED <<now, gens, pending, res>>

Tick == now' = now + 1 /\ UNCHANGED <<gens, current, pending, res>>

Next ==
    \/ \E t \in Threads :
         \/ Invoke(t)
         \/ IncrBump(t) \/ IncrOpen(t)
         \/ SetOpen(t)
         \/ GetHit(t) \/ GetMiss(t)
    \/ \E k \in Keys : Forget(k)
    \/ Tick

Spec == Init /\ [][Next]_vars
=============================================================================
