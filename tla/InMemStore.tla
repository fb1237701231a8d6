----------------------------- MODULE InMemStore -----------------------------
(***************************************************************************)
(* The in-memory store of gorl (storage/inmem/inmem.go): a sync.Map from   *)
(* keys to *item pointers, an atomic counter in each item, a garbage       *)
(* collector goroutine, and any number of goroutines that call Incr, Get   *)
(* and Set with no lock of their own.                                      *)
(*                                                                         *)
(* Every action is one access to shared memory (the map, the counter of an *)
(* item, the clock), so that any other goroutine can run between two       *)
(* accesses of one call.  Items are addressed by their position in heap:   *)
(* a pointer comparison is a comparison of positions, and position 0 is    *)
(* "no item".  A value is the natural number the float64 bits stand for.   *)
(***************************************************************************)
EXTENDS Naturals, Sequences

CONSTANTS
    Threads,    \* goroutines that call the store
    Keys,       \* keys they use
    Values,     \* values they Set
    TTL,        \* the time to live they pass
    MaxTime,    \* bound on the clock
    MaxCalls    \* bound on the number of calls

ASSUME ConstantsAssumption ==
    /\ Keys # {}
    /\ Values \subseteq Nat
    /\ TTL \in Nat
    /\ MaxTime \in Nat
    /\ MaxCalls \in Nat

VARIABLES
    now,    \* time.Now().UnixNano()
    heap,   \* every item ever published (its key is a history field)
    data,   \* s.data: the item each key maps to
    done,   \* s.done has been closed
    pc,     \* the next access of each goroutine
    call,   \* the local variables of its call
    res,    \* what its last call returned
    gc,     \* the local variables of the collector
    calls,  \* number of calls made so far
    due     \* (history) what the value of each item must be by now

vars == <<now, heap, data, done, pc, call, res, gc, calls, due>>

NoItem == 0
Items  == 1..Len(heap)
Item   == [key : Keys, value : Nat, expiresAt : Nat]

PCs == { "idle",
         "load", "newclock", "publish", "clock", "swapclock", "swap", "value", "cas",
         "getclock", "getvalue",
         "store" }

(* The locals of a call: the key, the loaded item, the expiry computed for *)
(* an item not yet published, and "operand", the value to Set or oldBits.  *)
(* Three history fields record the moment the call began: the time, the    *)
(* item then mapped, and the last item that had been published.            *)
Call == [key : Keys, ref : Nat, stamp : Nat, operand : Nat,
         time : Nat, item : Nat, top : Nat]

(* removeExpired's locals: its single clock reading, the keys Range has    *)
(* not visited, and the entry it is about to delete.                       *)
Collector == [pc : {"wait", "range", "delete", "stopped"},
              now : Nat, todo : SUBSET Keys, key : Keys, ref : Nat]

TypeOK ==
    /\ now \in Nat
    /\ heap \in Seq(Item)
    /\ due \in Seq(Nat) /\ Len(due) = Len(heap)
    /\ data \in [Keys -> Items \union {NoItem}]
    /\ done \in BOOLEAN
    /\ pc \in [Threads -> PCs]
    /\ call \in [Threads -> Call]
    /\ res \in [Threads -> Nat]
    /\ gc \in Collector
    /\ calls \in Nat

-----------------------------------------------------------------------------
(* An item is still valid at the very instant of its expiresAt. *)
Expired(i, clock) == heap[i].expiresAt < clock

(* Mutant: the map entry is one past the new item. *)
PublishPastEnd(k, v, e) ==
    /\ heap' = Append(heap, [key |-> k, value |-> v, expiresAt |-> e])
    /\ data' = [data EXCEPT ![k] = Len(heap) + 2]
    /\ due'  = Append(due, v)

(* The map now holds a new item under k, whatever k mapped to. *)
Publish(k, v, e) ==
    /\ heap' = Append(heap, [key |-> k, value |-> v, expiresAt |-> e])
    /\ data' = [data EXCEPT ![k] = Len(heap) + 1]
    /\ due'  = Append(due, v)

Goto(t, l) == pc' = [pc EXCEPT ![t] = l]

(* A call that ends forgets its locals. *)
IdleCall == [key |-> CHOOSE k \in Keys : TRUE, ref |-> NoItem, stamp |-> 0,
             operand |-> 0, time |-> 0, item |-> NoItem, top |-> 0]

Return(t, v) ==
    /\ Goto(t, "idle")
    /\ call' = [call EXCEPT ![t] = IdleCall]
    /\ res' = [res EXCEPT ![t] = v]

Begin(t, k, r, s, v) ==
    /\ pc[t] = "idle"
    /\ calls < MaxCalls
    /\ calls' = calls + 1
    /\ call' = [call EXCEPT ![t] =
                  [key |-> k, ref |-> r, stamp |-> s, operand |-> v,
                   time |-> now, item |-> data[k], top |-> Len(heap)]]

Init ==
    /\ now = 1
    /\ heap = << >>
    /\ due = << >>
    /\ data = [k \in Keys |-> NoItem]
    /\ done = FALSE
    /\ pc = [t \in Threads |-> "idle"]
    /\ call = [t \in Threads |-> IdleCall]
    /\ res = [t \in Threads |-> 0]
    /\ gc = [pc |-> "wait", now |-> 0, todo |-> {}, key |-> CHOOSE k \in Keys : TRUE,
             ref |-> NoItem]
    /\ calls = 0

-----------------------------------------------------------------------------
(* Incr. *)

AfterLoad(i) == IF i = NoItem THEN "newclock" ELSE "clock"

(* The call, up to its first Load. *)
IncrCall(t, k) ==
    /\ Begin(t, k, data[k], 0, 0)
    /\ Goto(t, AfterLoad(data[k]))
    /\ UNCHANGED <<now, heap, data, done, res, gc, due>>

(* "continue": the replacement failed, load again. *)
IncrReload(t) ==
    /\ pc[t] = "load"
    /\ LET i == data[call[t].key] IN
         /\ call' = [call EXCEPT ![t].ref = i]
         /\ Goto(t, AfterLoad(i))
    /\ UNCHANGED <<now, heap, data, done, res, gc, calls, due>>

(* The key was absent, or its item has expired: read the clock for the     *)
(* expiry of the item that will initialise or replace it.                  *)
IncrStamp(t) ==
    /\ \/ pc[t] = "newclock"  /\ Goto(t, "publish")
       \/ pc[t] = "swapclock" /\ Goto(t, "swap")
    /\ call' = [call EXCEPT ![t].stamp = now + TTL]
    /\ UNCHANGED <<now, heap, data, done, res, gc, calls, due>>

(* Mutant: Store instead of LoadOrStore. *)
IncrStore(t) ==
    /\ pc[t] = "publish"
    /\ Publish(call[t].key, 1, call[t].stamp)
    /\ Return(t, 1)
    /\ UNCHANGED <<now, done, gc, calls>>

(* LoadOrStore: publish the item, or adopt the one that won the race. *)
IncrLoadOrStore(t) ==
    LET k == call[t].key IN
    /\ pc[t] = "publish"
    /\ \/ /\ data[k] = NoItem
          /\ Publish(k, 1, call[t].stamp)
          /\ Return(t, 1)
       \/ /\ data[k] # NoItem
          /\ call' = [call EXCEPT ![t].ref = data[k]]
          /\ Goto(t, "clock")
          /\ UNCHANGED <<heap, data, due, res>>
    /\ UNCHANGED <<now, done, gc, calls>>

(* The expiry check of the loaded item. *)
IncrClock(t) ==
    /\ pc[t] = "clock"
    /\ Goto(t, IF Expired(call[t].ref, now) THEN "swapclock" ELSE "value")
    /\ UNCHANGED <<now, heap, data, done, call, res, gc, calls, due>>

(* Mutants: after a failed replacement, add to the expired item anyway, or *)
(* check it again without a new Load.                                      *)
IncrSwapOrResume(t, next) ==
    LET k == call[t].key IN
    /\ pc[t] = "swap"
    /\ \/ /\ data[k] = call[t].ref
          /\ Publish(k, 1, call[t].stamp)
          /\ Return(t, 1)
       \/ /\ data[k] # call[t].ref
          /\ Goto(t, next)
          /\ UNCHANGED <<heap, data, due, call, res>>
    /\ UNCHANGED <<now, done, gc, calls>>

IncrSwapOrAdd(t) == IncrSwapOrResume(t, "value")
IncrSwapOrRecheck(t) == IncrSwapOrResume(t, "clock")

(* CompareAndSwap(key, val, newItem): replace the expired item, or retry. *)
IncrSwap(t) ==
    LET k == call[t].key IN
    /\ pc[t] = "swap"
    /\ \/ /\ data[k] = call[t].ref
          /\ Publish(k, 1, call[t].stamp)
          /\ Return(t, 1)
       \/ /\ data[k] # call[t].ref
          /\ Goto(t, "load")
          /\ UNCHANGED <<heap, data, due, call, res>>
    /\ UNCHANGED <<now, done, gc, calls>>

(* atomic.LoadUint64(&it.value) *)
IncrReadValue(t) ==
    /\ pc[t] = "value"
    /\ call' = [call EXCEPT ![t].operand = heap[call[t].ref].value]
    /\ Goto(t, "cas")
    /\ UNCHANGED <<now, heap, data, done, res, gc, calls, due>>

(* Mutant: a plain store of the new value. *)
IncrStoreValue(t) ==
    LET i == call[t].ref
        v == call[t].operand IN
    /\ pc[t] = "cas"
    /\ heap' = [heap EXCEPT ![i].value = v + 1]
    /\ due'  = [due EXCEPT ![i] = @ + 1]
    /\ Return(t, v + 1)
    /\ UNCHANGED <<now, data, done, gc, calls>>

(* CompareAndSwapUint64(&it.value, oldBits, newBits), retried on failure.  *)
(* The map may hold another item, or none, by now.                         *)
IncrCas(t) ==
    LET i == call[t].ref
        v == call[t].operand IN
    /\ pc[t] = "cas"
    /\ \/ /\ heap[i].value = v
          /\ heap' = [heap EXCEPT ![i].value = v + 1]
          /\ due'  = [due EXCEPT ![i] = @ + 1]
          /\ Return(t, v + 1)
       \/ /\ heap[i].value # v
          /\ Goto(t, "value")
          /\ UNCHANGED <<heap, due, call, res>>
    /\ UNCHANGED <<now, data, done, gc, calls>>

-----------------------------------------------------------------------------
(* Get. *)

GetCall(t, k) ==
    /\ IF data[k] = NoItem
       THEN /\ pc[t] = "idle"
            /\ calls < MaxCalls
            /\ calls' = calls + 1
            /\ Return(t, 0)
       ELSE /\ Begin(t, k, data[k], 0, 0)
            /\ Goto(t, "getclock")
            /\ UNCHANGED res
    /\ UNCHANGED <<now, heap, data, done, gc, due>>

GetClock(t) ==
    /\ pc[t] = "getclock"
    /\ \/ /\ Expired(call[t].ref, now)
          /\ Return(t, 0)
       \/ /\ ~Expired(call[t].ref, now)
          /\ Goto(t, "getvalue")
          /\ UNCHANGED <<call, res>>
    /\ UNCHANGED <<now, heap, data, done, gc, calls, due>>

GetValue(t) ==
    /\ pc[t] = "getvalue"
    /\ Return(t, heap[call[t].ref].value)
    /\ UNCHANGED <<now, heap, data, done, gc, calls, due>>

-----------------------------------------------------------------------------
(* Set: read the clock for the expiry, then Store unconditionally. *)

SetCall(t, k, v) ==
    /\ Begin(t, k, NoItem, now + TTL, v)
    /\ Goto(t, "store")
    /\ UNCHANGED <<now, heap, data, done, res, gc, due>>

SetStore(t) ==
    /\ pc[t] = "store"
    /\ Publish(call[t].key, call[t].operand, call[t].stamp)
    /\ Return(t, 0)
    /\ UNCHANGED <<now, done, gc, calls>>

-----------------------------------------------------------------------------
(* The collector. *)

(* A tick: removeExpired reads the clock once, and Range begins.  When     *)
(* done is closed too, select may still choose the tick.                   *)
GcTick ==
    /\ gc.pc = "wait"
    /\ gc' = [gc EXCEPT !.pc = "range", !.now = now, !.todo = Keys]
    /\ UNCHANGED <<now, heap, data, done, pc, call, res, calls, due>>

(* Range reaches the entry of k, if there is one, at a moment of its own. *)
GcVisit(k) ==
    /\ gc.pc = "range"
    /\ k \in gc.todo
    /\ gc' = IF data[k] # NoItem /\ Expired(data[k], gc.now)
             THEN [gc EXCEPT !.pc = "delete", !.todo = @ \ {k}, !.key = k, !.ref = data[k]]
             ELSE [gc EXCEPT !.todo = @ \ {k}]
    /\ UNCHANGED <<now, heap, data, done, pc, call, res, calls, due>>

(* Mutant: Delete instead of CompareAndDelete. *)
GcDeleteAny ==
    /\ gc.pc = "delete"
    /\ data' = [data EXCEPT ![gc.key] = NoItem]
    /\ gc' = [gc EXCEPT !.pc = "range", !.ref = NoItem]
    /\ UNCHANGED <<now, heap, done, pc, call, res, calls, due>>

(* CompareAndDelete(key, value) *)
GcDelete ==
    /\ gc.pc = "delete"
    /\ data' = [data EXCEPT ![gc.key] = IF @ = gc.ref THEN NoItem ELSE @]
    /\ gc' = [gc EXCEPT !.pc = "range", !.ref = NoItem]
    /\ UNCHANGED <<now, heap, done, pc, call, res, calls, due>>

(* Mutant: the loop is left after one sweep. *)
GcEndOnce ==
    /\ gc.pc = "range"
    /\ gc.todo = {}
    /\ gc' = [gc EXCEPT !.pc = "stopped", !.now = 0]
    /\ UNCHANGED <<now, heap, data, done, pc, call, res, calls, due>>

GcEnd ==
    /\ gc.pc = "range"
    /\ gc.todo = {}
    /\ gc' = [gc EXCEPT !.pc = "wait", !.now = 0]
    /\ UNCHANGED <<now, heap, data, done, pc, call, res, calls, due>>

GcStop ==
    /\ gc.pc = "wait"
    /\ done
    /\ gc' = [gc EXCEPT !.pc = "stopped"]
    /\ UNCHANGED <<now, heap, data, done, pc, call, res, calls, due>>

(* The first Close; the store keeps serving calls after it.  A second one  *)
(* closes a closed channel and panics.                                     *)
Close ==
    /\ ~done
    /\ done' = TRUE
    /\ UNCHANGED <<now, heap, data, pc, call, res, gc, calls, due>>

-----------------------------------------------------------------------------
Tick ==
    /\ now < MaxTime
    /\ now' = now + 1
    /\ UNCHANGED <<heap, data, done, pc, call, res, gc, calls, due>>

Step(t) ==
    \/ IncrReload(t) \/ IncrStamp(t) \/ IncrLoadOrStore(t) \/ IncrClock(t)
    \/ IncrSwap(t) \/ IncrReadValue(t) \/ IncrCas(t)
    \/ GetClock(t) \/ GetValue(t)
    \/ SetStore(t)

Invoke(t) ==
    \E k \in Keys :
        \/ IncrCall(t, k)
        \/ GetCall(t, k)
        \/ \E v \in Values : SetCall(t, k, v)

Gc == GcTick \/ (\E k \in Keys : GcVisit(k)) \/ GcDelete \/ GcEnd \/ GcStop

Next ==
    \/ \E t \in Threads : Invoke(t) \/ Step(t)
    \/ Gc
    \/ Close
    \/ Tick

Spec == Init /\ [][Next]_vars

(* The Go scheduler runs every goroutine that can run, and the collector's *)
(* ticker keeps firing; nobody has to call the store or Close it.          *)
Fairness ==
    /\ \A t \in Threads : WF_vars(Step(t))
    /\ WF_vars(Gc)

FairSpec == Spec /\ Fairness

-----------------------------------------------------------------------------
(* No increment is lost and none is counted twice: an item holds the value *)
(* it was published with plus one for every Incr that returned on it, so   *)
(* the counts that Incr hands out of one item are consecutive and          *)
(* distinct, whatever the interleaving (inmem.go:98-109).                  *)
NoLostIncrement == \A i \in Items : heap[i].value = due[i]

(* An Incr or Get that is past its expiry check acts on an item that the   *)
(* key mapped to at some time since the call began and that had not        *)
(* expired when it began: no call ever revives a counter that was already  *)
(* gone for its caller (inmem.go:82-96, 120-126).                          *)
ActsOnLiveItem ==
    \A t \in Threads : pc[t] \in {"value", "cas", "getvalue"} =>
        LET c == call[t] IN
        /\ c.ref = c.item \/ c.ref > c.top
        /\ heap[c.ref].key = c.key
        /\ heap[c.ref].expiresAt >= c.time

(* Unless it is overwritten by a Set, an item leaves the map only once it  *)
(* has expired by the clock of that very moment, although the collector    *)
(* and Incr decide from an earlier reading of the clock and of the map     *)
(* (inmem.go:52-58, 86-96).                                                *)
OnlyExpiredLeave ==
    [][ (~ \E t \in Threads : SetStore(t)) =>
        \A k \in Keys : (data[k] # NoItem /\ data'[k] # data[k]) => Expired(data[k], now) ]_vars

(* The store is lock-free: a call comes to its end unless the goroutine is *)
(* overtaken for ever by others, whose Incr or Set takes effect again and  *)
(* again.  So no call spins on what no other call changes any more, and of *)
(* several calls that hinder each other one returns; but a single Incr may *)
(* lose every race.  MaxCalls gives nothing away: it only spares TLC the   *)
(* behaviours with ever new updates, which satisfy the property, and in    *)
(* all the others every call must return (inmem.go:67-96, 98-109).         *)
LockFree ==
    \A t \in Threads : []<>(pc[t] = "idle") \/ []<><<heap' # heap>>_vars

(* The collector reclaims every expired entry unless the store is closed,  *)
(* although it skips what expires during a sweep (inmem.go:36-62).         *)
ExpiredReclaimed ==
    \A k \in Keys :
        (data[k] # NoItem /\ Expired(data[k], now))
            ~> (done \/ data[k] = NoItem \/ ~Expired(data[k], now))

-----------------------------------------------------------------------------
(* The refinement mapping: the items are the generations, and a call is    *)
(* pending from its first access to its return.                            *)
Kind(t) ==
    CASE pc[t] = "idle" -> "none"
      [] pc[t] \in {"getclock", "getvalue"} -> "get"
      [] pc[t] = "store" -> "set"
      [] OTHER -> "incr"

NoPending == [kind |-> "none"]

PendingCall(t) ==
    IF Kind(t) = "none" THEN NoPending
    ELSE [key |-> call[t].key, kind |-> Kind(t),
          value |-> IF Kind(t) = "set" THEN call[t].operand ELSE 0,
          time |-> call[t].time, first |-> call[t].item, top |-> call[t].top]

PendingCalls == [t \in Threads |-> PendingCall(t)]

Abstract == INSTANCE CounterStore WITH
    NoCall  <- NoPending,
    gens    <- heap,
    current <- data,
    pending <- PendingCalls

(* The store implements the promise: every call takes effect on a          *)
(* generation that was current during the call, in one step                *)
(* (storage/storage.go:10-27, inmem.go:64-138).                            *)
ImplementsCounterStore == Abstract!Spec
=============================================================================
