-------------------------- MODULE InMemStoreProofs --------------------------
(***************************************************************************)
(* Proofs about InMemStore for any goroutines, keys, values and times.     *)
(*                                                                         *)
(* The inductive invariant IInv ties what a goroutine (or the collector)   *)
(* has read to what is in memory when it acts on it: the clock only moves  *)
(* forward, expiresAt never changes, positions in heap are never reused,   *)
(* and therefore an item found expired stays expired and a key never maps  *)
(* back to an item it has left.                                            *)
(***************************************************************************)
EXTENDS InMemStore, TLAPS

(* The program points at which a call holds a loaded item. *)
Holding == {"clock", "swapclock", "swap", "value", "cas", "getclock", "getvalue"}

(* The map holds published items, each under its own key. *)
MapOK ==
    \A k \in Keys : data[k] # NoItem => heap[data[k]].key = k

(* A call began in the past, and its key maps to nothing, to the item it   *)
(* mapped to then, or to an item published since.                          *)
CallOK(t) ==
    LET c == call[t] IN
    pc[t] # "idle" =>
        /\ c.time <= now
        /\ c.top <= Len(heap)
        /\ data[c.key] = NoItem \/ data[c.key] = c.item \/ data[c.key] > c.top

(* The loaded item is one of those, and belongs to the key. *)
HeldOK(t) ==
    LET c == call[t] IN
    pc[t] \in Holding =>
        /\ c.ref \in Items
        /\ c.ref = c.item \/ c.ref > c.top
        /\ heap[c.ref].key = c.key

(* Past the expiry check the item was valid when the call began; on the    *)
(* way to its replacement it has expired for good.                         *)
CheckedOK(t) ==
    LET c == call[t] IN
    /\ pc[t] \in {"value", "cas", "getvalue"} => heap[c.ref].expiresAt >= c.time
    /\ pc[t] \in {"swapclock", "swap"} => heap[c.ref].expiresAt < now

(* The entry the collector is about to delete has expired for good. *)
CollectorOK ==
    /\ gc.now <= now
    /\ gc.pc = "delete" => gc.ref \in Items /\ heap[gc.ref].expiresAt < now

IInv ==
    /\ TypeOK
    /\ NoLostIncrement
    /\ MapOK
    /\ \A t \in Threads : CallOK(t) /\ HeldOK(t) /\ CheckedOK(t)
    /\ CollectorOK


-----------------------------------------------------------------------------
(* What every step guarantees to a goroutine that does not take it: time   *)
(* and heap grow, an item keeps its key and its expiry, and a key stays    *)
(* with its item, loses it, or moves to an item published by the step.     *)
Frame ==
    /\ now \in Nat /\ now' \in Nat /\ now <= now'
    /\ Len(heap) \in Nat /\ Len(heap') \in Nat /\ Len(heap) <= Len(heap')
    /\ \A i \in Items : /\ heap'[i].key = heap[i].key
                        /\ heap'[i].expiresAt = heap[i].expiresAt
    /\ data' \in [Keys -> Nat]
    /\ \A k \in Keys : data'[k] = data[k] \/ data'[k] = NoItem \/ data'[k] > Len(heap)

(* The locals of an idle goroutine are well typed. *)
LEMMA IdleCallType == IdleCall \in Call
  <1>1. PICK key \in Keys : TRUE
    BY ConstantsAssumption
  <1>2. (CHOOSE k \in Keys : TRUE) \in Keys
    BY <1>1
  <1> QED
    BY <1>2 DEF IdleCall, Call, NoItem

(* A published item is well typed. *)
LEMMA ItemType ==
  ASSUME TypeOK, NEW i \in Items
  PROVE  heap[i].key \in Keys /\ heap[i].value \in Nat /\ heap[i].expiresAt \in Nat
  <1>1. heap[i] \in Item
    BY DEF TypeOK, Items
  <1> QED
    BY <1>1 DEF Item

(* Publishing appends an item and maps the key to it. *)
LEMMA PublishOK ==
  ASSUME TypeOK, NoLostIncrement, MapOK,
         NEW k \in Keys, NEW v \in Nat, NEW e \in Nat, Publish(k, v, e), now' = now
  PROVE  /\ heap' \in Seq(Item)
         /\ due' \in Seq(Nat) /\ Len(due') = Len(heap')
         /\ data' \in [Keys -> 1..Len(heap') \union {NoItem}]
         /\ Frame
         /\ NoLostIncrement'
         /\ MapOK'
  <1>1. /\ Len(heap) \in Nat /\ Len(due) = Len(heap)
        /\ heap \in Seq(Item) /\ due \in Seq(Nat)
        /\ data \in [Keys -> Items \union {NoItem}]
        /\ now \in Nat
    BY DEF TypeOK
  <1> DEFINE it == [key |-> k, value |-> v, expiresAt |-> e]
  <1>2. it \in Item
    BY DEF Item
  <1>3. heap' = Append(heap, it) /\ due' = Append(due, v)
        /\ data' = [data EXCEPT ![k] = Len(heap) + 1]
    BY DEF Publish
  <1> HIDE DEF it
  <1>4. /\ heap' \in Seq(Item) /\ Len(heap') = Len(heap) + 1
        /\ \A i \in 1..Len(heap) : heap'[i] = heap[i]
        /\ heap'[Len(heap) + 1] = it
    BY <1>1, <1>2, <1>3
  <1>5. /\ due' \in Seq(Nat) /\ Len(due') = Len(due) + 1
        /\ \A i \in 1..Len(due) : due'[i] = due[i]
        /\ due'[Len(due) + 1] = v
    BY <1>1, <1>3
  <1>6. data' \in [Keys -> 1..Len(heap') \union {NoItem}]
    BY <1>1, <1>3, <1>4 DEF Items, NoItem
  <1>7. Frame
    BY <1>1, <1>3, <1>4, <1>6 DEF Frame, Items, NoItem
  <1>8. NoLostIncrement'
    <2> SUFFICES ASSUME NEW i \in 1..Len(heap')
                 PROVE  heap'[i].value = due'[i]
      BY DEF NoLostIncrement, Items
    <2>1. CASE i \in 1..Len(heap)
      BY <1>1, <1>4, <1>5, <2>1 DEF NoLostIncrement, Items
    <2>2. CASE i = Len(heap) + 1
      BY <1>1, <1>4, <1>5, <2>2 DEF it
    <2> QED
      BY <1>1, <1>4, <2>1, <2>2
  <1>9. MapOK'
    BY <1>1, <1>3, <1>4 DEF MapOK, Items, NoItem, it
  <1> QED
    BY <1>1, <1>4, <1>5, <1>6, <1>7, <1>8, <1>9

(* A goroutine that stands still keeps its part of the invariant. *)
LEMMA OthersOK ==
  ASSUME TypeOK, Frame, NEW u \in Threads,
         CallOK(u), HeldOK(u), CheckedOK(u),
         pc'[u] = pc[u], call'[u] = call[u]
  PROVE  CallOK(u)' /\ HeldOK(u)' /\ CheckedOK(u)'
  <1> DEFINE c == call[u]
  <1>1. c \in Call
    BY DEF TypeOK
  <1>2. c.time \in Nat /\ c.top \in Nat /\ c.key \in Keys /\ c.ref \in Nat /\ c.item \in Nat
    BY <1>1 DEF Call
  <1>3. data[c.key] \in Nat
    BY <1>2 DEF TypeOK, Items, NoItem
  <1>4. \A i \in Items : heap[i].expiresAt \in Nat
    BY ItemType
  <1>5. CallOK(u)'
    <2> SUFFICES ASSUME pc[u] # "idle"
                 PROVE  /\ c.time <= now' /\ c.top <= Len(heap')
                        /\ data'[c.key] = NoItem \/ data'[c.key] = c.item \/ data'[c.key] > c.top
      BY DEF CallOK
    <2>1. /\ c.time <= now /\ c.top <= Len(heap)
          /\ data[c.key] = NoItem \/ data[c.key] = c.item \/ data[c.key] > c.top
      BY DEF CallOK
    <2>2. /\ now <= now' /\ Len(heap) <= Len(heap') /\ now \in Nat /\ now' \in Nat
          /\ Len(heap) \in Nat /\ Len(heap') \in Nat
          /\ data'[c.key] = data[c.key] \/ data'[c.key] = NoItem \/ data'[c.key] > Len(heap)
      BY <1>2 DEF Frame
    <2>3. c.time <= now' /\ c.top <= Len(heap')
      BY <1>2, <2>1, <2>2
    <2>4. data'[c.key] > Len(heap) => data'[c.key] > c.top
      BY <1>2, <2>1, <2>2, <1>2 DEF Frame
    <2> QED
      BY <2>1, <2>2, <2>3, <2>4
  <1>6. HeldOK(u)'
    BY <1>2 DEF HeldOK, Frame, Items
  <1>7. CheckedOK(u)'
    BY <1>2, <1>4 DEF CheckedOK, HeldOK, Holding, Frame, Items
  <1> QED
    BY <1>5, <1>6, <1>7

(* A step that leaves memory alone. *)
LEMMA QuietMemory ==
  ASSUME IInv, UNCHANGED <<heap, data, due>>, now' = now \/ now' = now + 1
  PROVE  Frame /\ NoLostIncrement' /\ MapOK'
  <1>1. now \in Nat /\ heap \in Seq(Item) /\ data \in [Keys -> Items \union {NoItem}]
    BY DEF IInv, TypeOK
  <1>2. data \in [Keys -> Nat]
    BY <1>1 DEF Items, NoItem
  <1>3. Frame
    BY <1>1, <1>2 DEF Frame, Items
  <1>4. NoLostIncrement' /\ MapOK'
    BY DEF IInv, NoLostIncrement, MapOK, Items
  <1> QED
    BY <1>3, <1>4

(* The collector's part survives any step of a goroutine or of the clock. *)
LEMMA CollectorKept ==
  ASSUME IInv, Frame, gc' = gc
  PROVE  CollectorOK'
  <1>1. gc.now \in Nat /\ gc.ref \in Nat
    BY DEF IInv, TypeOK, Collector
  <1>2. \A i \in Items : heap[i].expiresAt \in Nat
    BY ItemType DEF IInv
  <1> QED
    BY <1>1, <1>2 DEF IInv, CollectorOK, Frame, Items

(* What remains to be shown of a step of goroutine t. *)
LEMMA ThreadStep ==
  ASSUME IInv, NEW t \in Threads, Frame,
         TypeOK', NoLostIncrement', MapOK', gc' = gc,
         \A u \in Threads : u # t => pc'[u] = pc[u] /\ call'[u] = call[u],
         CallOK(t)', HeldOK(t)', CheckedOK(t)'
  PROVE  IInv'
  <1>1. CollectorOK'
    BY CollectorKept
  <1>2. ASSUME NEW u \in Threads, u # t
        PROVE  CallOK(u)' /\ HeldOK(u)' /\ CheckedOK(u)'
    BY <1>2, OthersOK DEF IInv
  <1> QED
    BY <1>1, <1>2 DEF IInv

(* A goroutine that returns, or is idle, satisfies its part trivially. *)
LEMMA ReturnedOK ==
  ASSUME NEW t \in Threads, pc'[t] = "idle"
  PROVE  CallOK(t)' /\ HeldOK(t)' /\ CheckedOK(t)'
  BY DEF CallOK, HeldOK, CheckedOK, Holding

(* The invariant holds initially. *)
LEMMA InitInv == Init => IInv
  <1> SUFFICES ASSUME Init PROVE IInv
    OBVIOUS
  <1>1. TypeOK
    <2>1. (CHOOSE k \in Keys : TRUE) \in Keys
      <3>1. PICK k \in Keys : TRUE
        BY ConstantsAssumption
      <3> QED
        BY <3>1
    <2>2. gc \in Collector
      BY <2>1 DEF Init, Collector, NoItem
    <2>3. heap \in Seq(Item) /\ due \in Seq(Nat) /\ Len(due) = Len(heap)
      BY DEF Init
    <2>4. now \in Nat /\ calls \in Nat /\ data \in [Keys -> Items \union {NoItem}]
          /\ done \in BOOLEAN
      BY DEF Init
    <2>5. pc \in [Threads -> PCs] /\ call \in [Threads -> Call] /\ res \in [Threads -> Nat]
      BY IdleCallType DEF Init, PCs
    <2> QED
      BY <2>2, <2>3, <2>4, <2>5 DEF TypeOK
  <1>2. NoLostIncrement /\ MapOK
    BY DEF Init, NoLostIncrement, MapOK, Items
  <1>3. ASSUME NEW t \in Threads PROVE CallOK(t) /\ HeldOK(t) /\ CheckedOK(t)
    BY DEF Init, CallOK, HeldOK, CheckedOK, Holding
  <1>4. CollectorOK
    BY DEF Init, CollectorOK
  <1> QED
    BY <1>1, <1>2, <1>3, <1>4 DEF IInv

-----------------------------------------------------------------------------
(* The steps of Incr. *)

(* What a return leaves is well typed. *)
LEMMA ReturnType ==
  ASSUME TypeOK, NEW t \in Threads, NEW v \in Nat, Return(t, v)
  PROVE  /\ pc' \in [Threads -> PCs] /\ call' \in [Threads -> Call]
         /\ res' \in [Threads -> Nat]
         /\ pc'[t] = "idle"
         /\ \A u \in Threads : u # t => pc'[u] = pc[u] /\ call'[u] = call[u]
  BY IdleCallType DEF TypeOK, Return, Goto, PCs

(* The invocation of a call that loads item r, or none. *)
LEMMA BeginInv ==
  ASSUME IInv, NEW t \in Threads, NEW k \in Keys, NEW r \in Nat, NEW s \in Nat, NEW v \in Nat,
         NEW l \in PCs, Begin(t, k, r, s, v), Goto(t, l),
         l \in Holding => l \in {"clock", "getclock"} /\ r = data[k] /\ r # NoItem,
         l \notin {"value", "cas", "getvalue", "swapclock", "swap"},
         UNCHANGED <<now, heap, data, done, res, gc, due>>
  PROVE  IInv'
  <1> DEFINE c == [key |-> k, ref |-> r, stamp |-> s, operand |-> v,
                   time |-> now, item |-> data[k], top |-> Len(heap)]
  <1>1. call' = [call EXCEPT ![t] = c] /\ pc' = [pc EXCEPT ![t] = l] /\ calls' = calls + 1
    BY DEF Begin, Goto
  <1>2. /\ now \in Nat /\ Len(heap) \in Nat
        /\ data[k] \in Nat /\ (data[k] # NoItem => data[k] \in Items)
        /\ pc \in [Threads -> PCs] /\ call \in [Threads -> Call]
    BY DEF IInv, TypeOK, Items, NoItem
  <1>3. c \in Call
    BY <1>2 DEF Call
  <1>4. pc' \in [Threads -> PCs] /\ call' \in [Threads -> Call]
        /\ pc'[t] = l /\ call'[t] = c
        /\ \A u \in Threads : u # t => pc'[u] = pc[u] /\ call'[u] = call[u]
    BY <1>1, <1>2, <1>3
  <1>5. Frame /\ NoLostIncrement' /\ MapOK'
    BY QuietMemory
  <1>6. TypeOK'
    BY <1>1, <1>4 DEF IInv, TypeOK, Items
  <1>7. CallOK(t)' /\ CheckedOK(t)'
    BY <1>2, <1>4 DEF CallOK, CheckedOK
  <1>8. HeldOK(t)'
    BY <1>2, <1>4 DEF IInv, MapOK, HeldOK, Items
  <1> QED
    BY <1>4, <1>5, <1>6, <1>7, <1>8, ThreadStep

(* inmem.go:66-70: the call and its first Load. *)
LEMMA IncrCallInv ==
  ASSUME IInv, NEW t \in Threads, NEW k \in Keys, IncrCall(t, k)
  PROVE  IInv'
  <1> DEFINE l == AfterLoad(data[k])
  <1>1. /\ Begin(t, k, data[k], 0, 0) /\ Goto(t, l)
        /\ UNCHANGED <<now, heap, data, done, res, gc, due>>
    BY DEF IncrCall
  <1>2. l \in {"newclock", "clock"} /\ (l = "clock" => data[k] # NoItem) /\ l \in PCs
    BY DEF AfterLoad, PCs
  <1>3. data[k] \in Nat
    BY DEF IInv, TypeOK, Items, NoItem
  <1> HIDE DEF l
  <1> QED
    BY <1>1, <1>2, <1>3, BeginInv DEF Holding

(* inmem.go:67-68: the Load of another round. *)
LEMMA IncrReloadInv ==
  ASSUME IInv, NEW t \in Threads, IncrReload(t)
  PROVE  IInv'
  <1> DEFINE i == data[call[t].key]
             c == [call[t] EXCEPT !.ref = i]
             l == AfterLoad(i)
  <1>1. /\ call' = [call EXCEPT ![t] = c] /\ pc' = [pc EXCEPT ![t] = l]
        /\ UNCHANGED <<now, heap, data, done, res, gc, calls, due>>
        /\ pc[t] = "load"
    BY DEF IncrReload, Goto
  <1>2. /\ call[t] \in Call /\ call[t].key \in Keys
        /\ i \in Nat /\ (i # NoItem => i \in Items)
        /\ pc \in [Threads -> PCs] /\ call \in [Threads -> Call]
    <2>1. pc \in [Threads -> PCs] /\ call \in [Threads -> Call]
      BY DEF IInv, TypeOK
    <2>2. call[t] \in Call /\ call[t].key \in Keys
      BY <2>1 DEF Call
    <2> QED
      BY <2>1, <2>2 DEF IInv, TypeOK, Items, NoItem
  <1>3. c \in Call /\ c.key = call[t].key /\ c.ref = i /\ c.time = call[t].time
        /\ c.item = call[t].item /\ c.top = call[t].top
    BY <1>2 DEF Call
  <1>4. l \in {"newclock", "clock"} /\ (l = "clock" => i # NoItem)
    BY DEF AfterLoad
  <1> HIDE DEF l, c
  <1>5. pc' \in [Threads -> PCs] /\ call' \in [Threads -> Call]
        /\ pc'[t] = l /\ call'[t] = c
        /\ \A u \in Threads : u # t => pc'[u] = pc[u] /\ call'[u] = call[u]
    BY <1>1, <1>2, <1>3, <1>4 DEF PCs
  <1>6. Frame /\ NoLostIncrement' /\ MapOK'
    BY <1>1, QuietMemory
  <1>7. TypeOK'
    BY <1>1, <1>5 DEF IInv, TypeOK, Items
  <1>8. CallOK(t)' /\ CheckedOK(t)'
    BY <1>1, <1>3, <1>4, <1>5 DEF IInv, CallOK, CheckedOK
  <1>9. HeldOK(t)'
    BY <1>1, <1>2, <1>3, <1>4, <1>5 DEF IInv, MapOK, CallOK, HeldOK, Holding, Items
  <1> QED
    BY <1>1, <1>5, <1>6, <1>7, <1>8, <1>9, ThreadStep

(* inmem.go:71-73, 87-90: the clock reading of a new item. *)
LEMMA IncrStampInv ==
  ASSUME IInv, NEW t \in Threads, IncrStamp(t)
  PROVE  IInv'
  <1> DEFINE c == [call[t] EXCEPT !.stamp = now + TTL]
  <1>1. /\ call' = [call EXCEPT ![t] = c]
        /\ UNCHANGED <<now, heap, data, done, res, gc, calls, due>>
        /\ \/ pc[t] = "newclock" /\ pc' = [pc EXCEPT ![t] = "publish"]
           \/ pc[t] = "swapclock" /\ pc' = [pc EXCEPT ![t] = "swap"]
    BY DEF IncrStamp, Goto
  <1>2. /\ call[t] \in Call /\ now + TTL \in Nat
        /\ pc \in [Threads -> PCs] /\ call \in [Threads -> Call]
    BY ConstantsAssumption DEF IInv, TypeOK
  <1>3. c \in Call /\ c.key = call[t].key /\ c.ref = call[t].ref /\ c.time = call[t].time
        /\ c.item = call[t].item /\ c.top = call[t].top
    BY <1>2 DEF Call
  <1> HIDE DEF c
  <1>4. pc' \in [Threads -> PCs] /\ call' \in [Threads -> Call] /\ call'[t] = c
        /\ \/ pc[t] = "newclock" /\ pc'[t] = "publish"
           \/ pc[t] = "swapclock" /\ pc'[t] = "swap"
        /\ \A u \in Threads : u # t => pc'[u] = pc[u] /\ call'[u] = call[u]
    BY <1>1, <1>2, <1>3 DEF PCs
  <1>5. Frame /\ NoLostIncrement' /\ MapOK'
    BY <1>1, QuietMemory
  <1>6. TypeOK'
    BY <1>1, <1>4 DEF IInv, TypeOK, Items
  <1>7. CallOK(t)' /\ HeldOK(t)' /\ CheckedOK(t)'
    BY <1>1, <1>3, <1>4 DEF IInv, CallOK, HeldOK, CheckedOK, Holding, Items
  <1> QED
    BY <1>1, <1>4, <1>5, <1>6, <1>7, ThreadStep

(* The fields of a call record have their types. *)
LEMMA CallFields ==
  ASSUME IInv, NEW t \in Threads
  PROVE  /\ call[t] \in Call /\ call[t].key \in Keys /\ call[t].ref \in Nat
         /\ call[t].stamp \in Nat /\ call[t].operand \in Nat
         /\ call[t].time \in Nat /\ call[t].item \in Nat /\ call[t].top \in Nat
         /\ now \in Nat /\ Len(heap) \in Nat
         /\ data[call[t].key] \in Nat
         /\ data[call[t].key] # NoItem => data[call[t].key] \in Items
         /\ pc \in [Threads -> PCs] /\ call \in [Threads -> Call]
  <1>1. call \in [Threads -> Call] /\ pc \in [Threads -> PCs]
    BY DEF IInv, TypeOK
  <1>2. call[t] \in Call
    BY <1>1
  <1>3. /\ call[t].key \in Keys /\ call[t].ref \in Nat
        /\ call[t].stamp \in Nat /\ call[t].operand \in Nat
        /\ call[t].time \in Nat /\ call[t].item \in Nat /\ call[t].top \in Nat
    BY <1>2 DEF Call
  <1> QED
    BY <1>1, <1>2, <1>3 DEF IInv, TypeOK, Items, NoItem

(* Every step that publishes an item and returns: LoadOrStore, the         *)
(* successful CompareAndSwap, and Set's Store.                             *)
LEMMA PublishAndReturnInv ==
  ASSUME IInv, NEW t \in Threads, NEW v \in Nat, NEW r \in Nat,
         Publish(call[t].key, v, call[t].stamp), Return(t, r),
         UNCHANGED <<now, done, gc, calls>>
  PROVE  IInv'
  <1>1. call[t].key \in Keys /\ call[t].stamp \in Nat
    BY CallFields
  <1>2. /\ heap' \in Seq(Item)
        /\ due' \in Seq(Nat) /\ Len(due') = Len(heap')
        /\ data' \in [Keys -> 1..Len(heap') \union {NoItem}]
        /\ Frame /\ NoLostIncrement' /\ MapOK'
    BY <1>1, PublishOK DEF IInv
  <1>3. /\ pc' \in [Threads -> PCs] /\ call' \in [Threads -> Call]
        /\ res' \in [Threads -> Nat]
        /\ pc'[t] = "idle"
        /\ \A u \in Threads : u # t => pc'[u] = pc[u] /\ call'[u] = call[u]
    BY ReturnType DEF IInv
  <1>4. TypeOK'
    BY <1>2, <1>3 DEF IInv, TypeOK, Items
  <1> QED
    BY <1>2, <1>3, <1>4, ReturnedOK, ThreadStep

(* A step that changes the program point of t and nothing else. *)
LEMMA GotoType ==
  ASSUME IInv, NEW t \in Threads, NEW l \in PCs, Goto(t, l),
         UNCHANGED <<now, heap, data, done, call, res, gc, calls, due>>
  PROVE  /\ TypeOK' /\ Frame /\ NoLostIncrement' /\ MapOK'
         /\ pc'[t] = l
         /\ \A u \in Threads : u # t => pc'[u] = pc[u] /\ call'[u] = call[u]
  <1>1. pc' \in [Threads -> PCs] /\ pc'[t] = l
        /\ \A u \in Threads : u # t => pc'[u] = pc[u] /\ call'[u] = call[u]
    BY DEF IInv, TypeOK, Goto
  <1>2. Frame /\ NoLostIncrement' /\ MapOK'
    BY QuietMemory
  <1> QED
    BY <1>1, <1>2 DEF IInv, TypeOK, Items

(* inmem.go:75-81: the first item of a key is published or adopted. *)
LEMMA IncrLoadOrStoreInv ==
  ASSUME IInv, NEW t \in Threads, IncrLoadOrStore(t)
  PROVE  IInv'
  <1> DEFINE k == call[t].key
             c == [call[t] EXCEPT !.ref = data[k]]
  <1>1. CASE data[k] = NoItem
    BY <1>1, PublishAndReturnInv DEF IncrLoadOrStore
  <1>2. CASE data[k] # NoItem
    <2>1. /\ call' = [call EXCEPT ![t] = c] /\ pc' = [pc EXCEPT ![t] = "clock"]
          /\ UNCHANGED <<now, heap, data, done, res, gc, calls, due>>
          /\ pc[t] = "publish"
      BY <1>2 DEF IncrLoadOrStore, Goto
    <2>2. data[k] \in Items /\ data[k] \in Nat /\ k \in Keys /\ call[t] \in Call
          /\ pc \in [Threads -> PCs] /\ call \in [Threads -> Call]
      BY <1>2, CallFields
    <2>3. c \in Call /\ c.key = k /\ c.ref = data[k] /\ c.time = call[t].time
          /\ c.item = call[t].item /\ c.top = call[t].top
      BY <2>2 DEF Call
    <2> HIDE DEF c
    <2>4. pc' \in [Threads -> PCs] /\ call' \in [Threads -> Call]
          /\ pc'[t] = "clock" /\ call'[t] = c
          /\ \A u \in Threads : u # t => pc'[u] = pc[u] /\ call'[u] = call[u]
      BY <2>1, <2>2, <2>3 DEF PCs
    <2>5. Frame /\ NoLostIncrement' /\ MapOK'
      BY <2>1, QuietMemory
    <2>6. TypeOK'
      BY <2>1, <2>4 DEF IInv, TypeOK, Items
    <2>7. CallOK(t)' /\ CheckedOK(t)'
      BY <2>1, <2>3, <2>4 DEF IInv, CallOK, CheckedOK
    <2>8. HeldOK(t)'
      BY <1>2, <2>1, <2>2, <2>3, <2>4 DEF IInv, MapOK, CallOK, HeldOK, Holding, Items
    <2> QED
      BY <2>1, <2>4, <2>5, <2>6, <2>7, <2>8, ThreadStep
  <1> QED
    BY <1>1, <1>2

(* inmem.go:83-86: the expiry check. *)
LEMMA IncrClockInv ==
  ASSUME IInv, NEW t \in Threads, IncrClock(t)
  PROVE  IInv'
  <1> DEFINE l == IF Expired(call[t].ref, now) THEN "swapclock" ELSE "value"
  <1>1. /\ pc[t] = "clock" /\ Goto(t, l) /\ l \in PCs
        /\ UNCHANGED <<now, heap, data, done, call, res, gc, calls, due>>
    BY DEF IncrClock, PCs
  <1> HIDE DEF l
  <1>2. /\ TypeOK' /\ Frame /\ NoLostIncrement' /\ MapOK'
        /\ pc'[t] = l
        /\ \A u \in Threads : u # t => pc'[u] = pc[u] /\ call'[u] = call[u]
    BY <1>1, GotoType
  <1>3. call[t].ref \in Items /\ call[t].time <= now
    BY <1>1 DEF IInv, HeldOK, CallOK, Holding
  <1>4. heap[call[t].ref].expiresAt \in Nat /\ now \in Nat /\ call[t].time \in Nat
    BY <1>3, ItemType, CallFields DEF IInv
  <1>5. \/ l = "swapclock" /\ heap[call[t].ref].expiresAt < now
        \/ l = "value" /\ heap[call[t].ref].expiresAt >= call[t].time
    BY <1>3, <1>4 DEF l, Expired
  <1>6. CallOK(t)' /\ HeldOK(t)'
    BY <1>1, <1>2, <1>5 DEF IInv, CallOK, HeldOK, Holding, Items
  <1>7. CheckedOK(t)'
    BY <1>1, <1>2, <1>5 DEF CheckedOK
  <1> QED
    BY <1>1, <1>2, <1>6, <1>7, ThreadStep

(* inmem.go:91-95: the replacement of an expired item. *)
LEMMA IncrSwapInv ==
  ASSUME IInv, NEW t \in Threads, IncrSwap(t)
  PROVE  IInv'
  <1>1. CASE data[call[t].key] = call[t].ref
    BY <1>1, PublishAndReturnInv DEF IncrSwap
  <1>2. CASE data[call[t].key] # call[t].ref
    <2>1. /\ pc[t] = "swap" /\ Goto(t, "load") /\ "load" \in PCs
          /\ UNCHANGED <<now, heap, data, done, call, res, gc, calls, due>>
      BY <1>2 DEF IncrSwap, PCs
    <2>2. /\ TypeOK' /\ Frame /\ NoLostIncrement' /\ MapOK'
          /\ pc'[t] = "load"
          /\ \A u \in Threads : u # t => pc'[u] = pc[u] /\ call'[u] = call[u]
      BY <2>1, GotoType
    <2>3. CallOK(t)' /\ HeldOK(t)' /\ CheckedOK(t)'
      BY <2>1, <2>2 DEF IInv, CallOK, HeldOK, CheckedOK, Holding
    <2> QED
      BY <2>1, <2>2, <2>3, ThreadStep
  <1> QED
    BY <1>1, <1>2

(* inmem.go:100: the read that a CompareAndSwap will be based on. *)
LEMMA IncrReadValueInv ==
  ASSUME IInv, NEW t \in Threads, IncrReadValue(t)
  PROVE  IInv'
  <1> DEFINE c == [call[t] EXCEPT !.operand = heap[call[t].ref].value]
  <1>1. /\ call' = [call EXCEPT ![t] = c] /\ pc' = [pc EXCEPT ![t] = "cas"]
        /\ UNCHANGED <<now, heap, data, done, res, gc, calls, due>>
        /\ pc[t] = "value"
    BY DEF IncrReadValue, Goto
  <1>2. call[t].ref \in Items
    BY <1>1 DEF IInv, HeldOK, Holding
  <1>3. heap[call[t].ref].value \in Nat
    BY <1>2, ItemType DEF IInv
  <1>4. c \in Call /\ c.key = call[t].key /\ c.ref = call[t].ref /\ c.time = call[t].time
        /\ c.item = call[t].item /\ c.top = call[t].top
    BY <1>3, CallFields DEF Call
  <1> HIDE DEF c
  <1>5. pc' \in [Threads -> PCs] /\ call' \in [Threads -> Call]
        /\ pc'[t] = "cas" /\ call'[t] = c
        /\ \A u \in Threads : u # t => pc'[u] = pc[u] /\ call'[u] = call[u]
    BY <1>1, <1>4, CallFields DEF PCs
  <1>6. Frame /\ NoLostIncrement' /\ MapOK'
    BY <1>1, QuietMemory
  <1>7. TypeOK'
    BY <1>1, <1>5 DEF IInv, TypeOK, Items
  <1>8. CallOK(t)' /\ HeldOK(t)' /\ CheckedOK(t)'
    BY <1>1, <1>4, <1>5 DEF IInv, CallOK, HeldOK, CheckedOK, Holding, Items
  <1> QED
    BY <1>1, <1>5, <1>6, <1>7, <1>8, ThreadStep

(* inmem.go:103-108: the increment, or another round. *)
LEMMA IncrCasInv ==
  ASSUME IInv, NEW t \in Threads, IncrCas(t)
  PROVE  IInv'
  <1> DEFINE i == call[t].ref
             v == call[t].operand
  <1>1. i \in Items /\ pc[t] = "cas"
    BY DEF IncrCas, IInv, HeldOK, Holding
  <1>2. CASE heap[i].value = v
    <2>1. /\ heap' = [heap EXCEPT ![i].value = v + 1]
          /\ due' = [due EXCEPT ![i] = @ + 1]
          /\ Return(t, v + 1)
          /\ UNCHANGED <<now, data, done, gc, calls>>
      BY <1>2 DEF IncrCas
    <2>2. /\ heap \in Seq(Item) /\ due \in Seq(Nat) /\ Len(due) = Len(heap)
          /\ Len(heap) \in Nat /\ i \in 1..Len(heap) /\ i \in 1..Len(due)
          /\ v \in Nat /\ v + 1 \in Nat /\ due[i] = v
          /\ data \in [Keys -> Nat] /\ now \in Nat
      <3>1. /\ heap \in Seq(Item) /\ due \in Seq(Nat) /\ Len(due) = Len(heap)
            /\ data \in [Keys -> Nat] /\ now \in Nat
        BY DEF IInv, TypeOK, Items, NoItem
      <3>2. i \in 1..Len(heap) /\ i \in 1..Len(due)
        BY <1>1, <3>1 DEF Items
      <3>3. v \in Nat /\ v + 1 \in Nat
        BY CallFields
      <3>4. due[i] = v
        BY <1>1, <1>2 DEF IInv, NoLostIncrement
      <3> QED
        BY <3>1, <3>2, <3>3, <3>4
    <2> DEFINE it == [heap[i] EXCEPT !.value = v + 1]
    <2>3. /\ it \in Item /\ it.value = v + 1 /\ it.key = heap[i].key
          /\ it.expiresAt = heap[i].expiresAt
      <3>1. heap[i] \in Item
        BY <2>2
      <3> QED
        BY <3>1, <2>2 DEF Item
    <2>4. heap' = [heap EXCEPT ![i] = it]
      BY <2>1
    <2> HIDE DEF it
    <2>5. /\ heap' \in Seq(Item) /\ Len(heap') = Len(heap)
          /\ heap'[i] = it /\ \A j \in 1..Len(heap) : j # i => heap'[j] = heap[j]
      BY <2>2, <2>3, <2>4
    <2>6. /\ due' \in Seq(Nat) /\ Len(due') = Len(heap')
          /\ due'[i] = v + 1 /\ \A j \in 1..Len(heap) : j # i => due'[j] = due[j]
      BY <2>1, <2>2, <2>5
    <2>7. /\ pc' \in [Threads -> PCs] /\ call' \in [Threads -> Call]
          /\ res' \in [Threads -> Nat]
          /\ pc'[t] = "idle"
          /\ \A u \in Threads : u # t => pc'[u] = pc[u] /\ call'[u] = call[u]
      BY <2>1, <2>2, ReturnType DEF IInv
    <2>8. Frame
      BY <2>1, <2>2, <2>3, <2>5 DEF Frame, Items
    <2>9. NoLostIncrement'
      BY <2>3, <2>5, <2>6 DEF IInv, NoLostIncrement, Items
    <2>10. MapOK'
      BY <2>1, <2>3, <2>5 DEF IInv, MapOK, TypeOK, Items
    <2>11. TypeOK'
      BY <2>1, <2>5, <2>6, <2>7 DEF IInv, TypeOK, Items
    <2> QED
      BY <2>1, <2>7, <2>8, <2>9, <2>10, <2>11, ReturnedOK, ThreadStep
  <1>3. CASE heap[i].value # v
    <2>1. /\ Goto(t, "value") /\ "value" \in PCs
          /\ UNCHANGED <<now, heap, data, done, call, res, gc, calls, due>>
      BY <1>3 DEF IncrCas, PCs
    <2>2. /\ TypeOK' /\ Frame /\ NoLostIncrement' /\ MapOK'
          /\ pc'[t] = "value"
          /\ \A u \in Threads : u # t => pc'[u] = pc[u] /\ call'[u] = call[u]
      BY <2>1, GotoType
    <2>3. CallOK(t)' /\ HeldOK(t)' /\ CheckedOK(t)'
      BY <1>1, <2>1, <2>2 DEF IInv, CallOK, HeldOK, CheckedOK, Holding, Items
    <2> QED
      BY <2>1, <2>2, <2>3, ThreadStep
  <1> QED
    BY <1>2, <1>3

-----------------------------------------------------------------------------
(* The steps of Get and Set. *)

(* A step that returns without touching memory. *)
LEMMA QuietReturnInv ==
  ASSUME IInv, NEW t \in Threads, NEW v \in Nat, Return(t, v), calls' \in Nat,
         UNCHANGED <<now, heap, data, done, gc, due>>
  PROVE  IInv'
  <1>1. /\ pc' \in [Threads -> PCs] /\ call' \in [Threads -> Call]
        /\ res' \in [Threads -> Nat]
        /\ pc'[t] = "idle"
        /\ \A u \in Threads : u # t => pc'[u] = pc[u] /\ call'[u] = call[u]
    BY ReturnType DEF IInv
  <1>2. Frame /\ NoLostIncrement' /\ MapOK'
    BY QuietMemory
  <1>3. TypeOK'
    BY <1>1 DEF IInv, TypeOK, Items
  <1> QED
    BY <1>1, <1>2, <1>3, ReturnedOK, ThreadStep

(* inmem.go:114-118: Get, up to its Load. *)
LEMMA GetCallInv ==
  ASSUME IInv, NEW t \in Threads, NEW k \in Keys, GetCall(t, k)
  PROVE  IInv'
  <1>1. CASE data[k] = NoItem
    <2>1. Return(t, 0) /\ calls' = calls + 1 /\ UNCHANGED <<now, heap, data, done, gc, due>>
      BY <1>1 DEF GetCall
    <2>2. calls' \in Nat
      BY <2>1 DEF IInv, TypeOK
    <2> QED
      BY <2>1, <2>2, QuietReturnInv
  <1>2. CASE data[k] # NoItem
    <2>1. Begin(t, k, data[k], 0, 0) /\ Goto(t, "getclock")
          /\ UNCHANGED <<now, heap, data, done, res, gc, due>>
      BY <1>2 DEF GetCall
    <2>2. data[k] \in Nat
      BY DEF IInv, TypeOK, Items, NoItem
    <2> QED
      BY <1>2, <2>1, <2>2, BeginInv DEF PCs, Holding
  <1> QED
    BY <1>1, <1>2

(* inmem.go:120-123: the expiry check of Get. *)
LEMMA GetClockInv ==
  ASSUME IInv, NEW t \in Threads, GetClock(t)
  PROVE  IInv'
  <1>1. CASE Expired(call[t].ref, now) /\ Return(t, 0)
    <2>1. calls' \in Nat
      BY DEF GetClock, IInv, TypeOK
    <2> QED
      BY <1>1, <2>1, QuietReturnInv DEF GetClock
  <1>2. CASE ~Expired(call[t].ref, now) /\ Goto(t, "getvalue") /\ UNCHANGED <<call, res>>
    <2>1. pc[t] = "getclock" /\ "getvalue" \in PCs
          /\ UNCHANGED <<now, heap, data, done, call, res, gc, calls, due>>
      BY <1>2 DEF GetClock, PCs
    <2>2. /\ TypeOK' /\ Frame /\ NoLostIncrement' /\ MapOK'
          /\ pc'[t] = "getvalue"
          /\ \A u \in Threads : u # t => pc'[u] = pc[u] /\ call'[u] = call[u]
      BY <1>2, <2>1, GotoType
    <2>3. call[t].ref \in Items /\ call[t].time <= now
      BY <2>1 DEF IInv, HeldOK, CallOK, Holding
    <2>4. heap[call[t].ref].expiresAt >= call[t].time
      BY <1>2, <2>3, ItemType, CallFields DEF IInv, Expired
    <2>5. CallOK(t)' /\ HeldOK(t)'
      BY <2>1, <2>2 DEF IInv, CallOK, HeldOK, Holding, Items
    <2>6. CheckedOK(t)'
      BY <2>1, <2>2, <2>4 DEF CheckedOK
    <2> QED
      BY <2>1, <2>2, <2>5, <2>6, ThreadStep
  <1> QED
    BY <1>1, <1>2 DEF GetClock

(* inmem.go:124-127: the value of Get. *)
LEMMA GetValueInv ==
  ASSUME IInv, NEW t \in Threads, GetValue(t)
  PROVE  IInv'
  <1>1. call[t].ref \in Items
    BY DEF GetValue, IInv, HeldOK, Holding
  <1>2. heap[call[t].ref].value \in Nat /\ calls \in Nat
    BY <1>1, ItemType DEF IInv, TypeOK
  <1> QED
    BY <1>2, QuietReturnInv DEF GetValue

(* inmem.go:131-135: Set, up to its clock reading. *)
LEMMA SetCallInv ==
  ASSUME IInv, NEW t \in Threads, NEW k \in Keys, NEW v \in Values, SetCall(t, k, v)
  PROVE  IInv'
  <1>1. now + TTL \in Nat /\ v \in Nat /\ NoItem \in Nat
    BY ConstantsAssumption DEF IInv, TypeOK, NoItem
  <1> QED
    BY <1>1, BeginInv DEF SetCall, PCs, Holding

(* inmem.go:136: the Store of Set. *)
LEMMA SetStoreInv ==
  ASSUME IInv, NEW t \in Threads, SetStore(t)
  PROVE  IInv'
  BY CallFields, PublishAndReturnInv DEF SetStore

-----------------------------------------------------------------------------
(* The steps of the collector, of Close and of the clock. *)

(* A step that no goroutine takes. *)
LEMMA BystandersOK ==
  ASSUME IInv, Frame, UNCHANGED <<pc, call>>
  PROVE  \A t \in Threads : CallOK(t)' /\ HeldOK(t)' /\ CheckedOK(t)'
  BY OthersOK DEF IInv

(* inmem.go:44-52: the collector wakes up. *)
LEMMA GcTickInv == IInv /\ GcTick => IInv'
  <1> SUFFICES ASSUME IInv, GcTick PROVE IInv'
    OBVIOUS
  <1>1. Frame /\ NoLostIncrement' /\ MapOK'
    BY QuietMemory DEF GcTick
  <1>2. gc \in Collector /\ now \in Nat
    BY DEF IInv, TypeOK
  <1>3. gc' \in Collector /\ gc'.pc = "range" /\ gc'.now = now
    BY <1>2 DEF GcTick, Collector
  <1>4. TypeOK'
    BY <1>3 DEF IInv, TypeOK, GcTick, Items
  <1>5. CollectorOK'
    BY <1>2, <1>3 DEF CollectorOK, GcTick
  <1> QED
    BY <1>1, <1>4, <1>5, BystandersOK DEF IInv, GcTick

(* inmem.go:53-56: the collector looks at an entry. *)
LEMMA GcVisitInv ==
  ASSUME IInv, NEW k \in Keys, GcVisit(k)
  PROVE  IInv'
  <1>1. Frame /\ NoLostIncrement' /\ MapOK'
    BY QuietMemory DEF GcVisit
  <1>2. /\ gc \in Collector /\ now \in Nat /\ gc.now <= now /\ gc.now \in Nat
        /\ data[k] \in Nat /\ (data[k] # NoItem => data[k] \in Items)
    BY DEF IInv, TypeOK, CollectorOK, Collector, Items, NoItem
  <1>3. CASE data[k] # NoItem /\ Expired(data[k], gc.now)
    <2>1. gc' = [gc EXCEPT !.pc = "delete", !.todo = @ \ {k}, !.key = k, !.ref = data[k]]
      BY <1>3 DEF GcVisit
    <2>2. /\ gc' \in Collector /\ gc'.now = gc.now /\ gc'.ref = data[k]
      BY <1>2, <2>1 DEF Collector
    <2>3. heap[data[k]].expiresAt < now
      BY <1>2, <1>3, ItemType DEF IInv, Expired
    <2>4. CollectorOK'
      BY <1>2, <1>3, <2>2, <2>3 DEF CollectorOK, GcVisit, Items
    <2> QED
      BY <1>1, <2>2, <2>4, BystandersOK DEF IInv, TypeOK, GcVisit, Items
  <1>4. CASE ~(data[k] # NoItem /\ Expired(data[k], gc.now))
    <2>1. gc' = [gc EXCEPT !.todo = @ \ {k}] /\ gc.pc = "range"
      BY <1>4 DEF GcVisit
    <2>2. gc' \in Collector /\ gc'.now = gc.now /\ gc'.pc = "range"
      BY <1>2, <2>1 DEF Collector
    <2>3. CollectorOK'
      BY <1>2, <2>2 DEF CollectorOK, GcVisit
    <2> QED
      BY <1>1, <2>2, <2>3, BystandersOK DEF IInv, TypeOK, GcVisit, Items
  <1> QED
    BY <1>3, <1>4

(* inmem.go:57: the collector deletes what it saw. *)
LEMMA GcDeleteInv == IInv /\ GcDelete => IInv'
  <1> SUFFICES ASSUME IInv, GcDelete PROVE IInv'
    OBVIOUS
  <1>1. /\ gc \in Collector /\ gc.key \in Keys /\ now \in Nat /\ Len(heap) \in Nat
        /\ data \in [Keys -> Items \union {NoItem}]
    BY DEF IInv, TypeOK, Collector
  <1>2. gc' \in Collector /\ gc'.now = gc.now /\ gc'.pc = "range"
    BY <1>1 DEF GcDelete, Collector, NoItem
  <1>3. /\ data' \in [Keys -> Items \union {NoItem}]
        /\ \A k \in Keys : data'[k] = data[k] \/ data'[k] = NoItem
    BY <1>1 DEF GcDelete
  <1>4. Frame
    BY <1>1, <1>3 DEF Frame, GcDelete, Items, NoItem
  <1>5. NoLostIncrement' /\ MapOK'
    BY <1>3 DEF IInv, NoLostIncrement, MapOK, GcDelete, Items
  <1>6. TypeOK'
    BY <1>2, <1>3 DEF IInv, TypeOK, GcDelete, Items
  <1>7. CollectorOK'
    BY <1>2 DEF IInv, CollectorOK, GcDelete
  <1> QED
    BY <1>4, <1>5, <1>6, <1>7, BystandersOK DEF IInv, GcDelete

(* inmem.go:61-62: the sweep ends. *)
LEMMA GcEndInv == IInv /\ GcEnd => IInv'
  <1> SUFFICES ASSUME IInv, GcEnd PROVE IInv'
    OBVIOUS
  <1>1. Frame /\ NoLostIncrement' /\ MapOK'
    BY QuietMemory DEF GcEnd
  <1>2. gc \in Collector /\ now \in Nat
    BY DEF IInv, TypeOK
  <1>3. gc' \in Collector /\ gc'.now = 0 /\ gc'.pc = "wait"
    BY <1>2 DEF GcEnd, Collector
  <1>4. TypeOK'
    BY <1>3 DEF IInv, TypeOK, GcEnd, Items
  <1>5. CollectorOK'
    BY <1>2, <1>3 DEF CollectorOK, GcEnd
  <1> QED
    BY <1>1, <1>4, <1>5, BystandersOK DEF IInv, GcEnd

(* inmem.go:42-43: the collector stops. *)
LEMMA GcStopInv == IInv /\ GcStop => IInv'
  <1> SUFFICES ASSUME IInv, GcStop PROVE IInv'
    OBVIOUS
  <1>1. Frame /\ NoLostIncrement' /\ MapOK'
    BY QuietMemory DEF GcStop
  <1>2. gc \in Collector
    BY DEF IInv, TypeOK
  <1>3. gc' \in Collector /\ gc'.now = gc.now /\ gc'.pc = "stopped"
    BY <1>2 DEF GcStop, Collector
  <1>4. TypeOK'
    BY <1>3 DEF IInv, TypeOK, GcStop, Items
  <1>5. CollectorOK'
    BY <1>3 DEF IInv, CollectorOK, GcStop
  <1> QED
    BY <1>1, <1>4, <1>5, BystandersOK DEF IInv, GcStop

(* inmem.go:141-144: Close. *)
LEMMA CloseInv == IInv /\ Close => IInv'
  <1> SUFFICES ASSUME IInv, Close PROVE IInv'
    OBVIOUS
  <1>1. Frame /\ NoLostIncrement' /\ MapOK'
    BY QuietMemory DEF Close
  <1>2. CollectorOK'
    BY <1>1, CollectorKept DEF Close
  <1>3. TypeOK'
    BY DEF IInv, TypeOK, Close, Items
  <1> QED
    BY <1>1, <1>2, <1>3, BystandersOK DEF IInv, Close

(* Time passes. *)
LEMMA TickInv == IInv /\ Tick => IInv'
  <1> SUFFICES ASSUME IInv, Tick PROVE IInv'
    OBVIOUS
  <1>1. Frame /\ NoLostIncrement' /\ MapOK'
    BY QuietMemory DEF Tick
  <1>2. CollectorOK'
    BY <1>1, CollectorKept DEF Tick
  <1>3. TypeOK'
    BY <1>1 DEF IInv, TypeOK, Tick, Items, Frame
  <1> QED
    BY <1>1, <1>2, <1>3, BystandersOK DEF IInv, Tick

(* Nothing happens. *)
LEMMA StutterInv == IInv /\ UNCHANGED vars => IInv'
  <1> SUFFICES ASSUME IInv, UNCHANGED vars PROVE IInv'
    OBVIOUS
  <1>1. Frame /\ NoLostIncrement' /\ MapOK'
    BY QuietMemory DEF vars
  <1>2. CollectorOK'
    BY <1>1, CollectorKept DEF vars
  <1>3. TypeOK'
    BY DEF IInv, TypeOK, vars, Items
  <1> QED
    BY <1>1, <1>2, <1>3, BystandersOK DEF IInv, vars

-----------------------------------------------------------------------------
(* IInv is inductive: every action preserves it. *)
THEOREM InductiveInvariant == IInv /\ [Next]_vars => IInv'
  <1> SUFFICES ASSUME IInv, [Next]_vars PROVE IInv'
    OBVIOUS
  <1>1. ASSUME NEW t \in Threads, Invoke(t) PROVE IInv'
    BY <1>1, IncrCallInv, GetCallInv, SetCallInv DEF Invoke
  <1>2. ASSUME NEW t \in Threads, Step(t) PROVE IInv'
    BY <1>2, IncrReloadInv, IncrStampInv, IncrLoadOrStoreInv, IncrClockInv, IncrSwapInv,
       IncrReadValueInv, IncrCasInv, GetClockInv, GetValueInv, SetStoreInv DEF Step
  <1>3. CASE Gc
    BY <1>3, GcTickInv, GcVisitInv, GcDeleteInv, GcEndInv, GcStopInv DEF Gc
  <1>4. CASE Close
    BY <1>4, CloseInv
  <1>5. CASE Tick
    BY <1>5, TickInv
  <1>6. CASE UNCHANGED vars
    BY <1>6, StutterInv
  <1> QED
    BY <1>1, <1>2, <1>3, <1>4, <1>5, <1>6 DEF Next

(* IInv holds in every reachable state. *)
LEMMA Invariance == Spec => []IInv
  BY InitInv, InductiveInvariant, PTL DEF Spec

(* Every variable keeps its type, for any number of goroutines and calls.  *)
THEOREM TypeCorrect == Spec => []TypeOK
  <1>1. IInv => TypeOK
    BY DEF IInv
  <1> QED
    BY <1>1, Invariance, PTL

(* Increments are neither lost nor counted twice (inmem.go:98-109).        *)
THEOREM IncrementsExact == Spec => []NoLostIncrement
  <1>1. IInv => NoLostIncrement
    BY DEF IInv
  <1> QED
    BY <1>1, Invariance, PTL

(* A call acts only on an item its key mapped to during the call and that  *)
(* had not expired when the call began (inmem.go:82-109, 120-127).         *)
THEOREM LiveItemsOnly == Spec => []ActsOnLiveItem
  <1>1. IInv => ActsOnLiveItem
    BY DEF IInv, ActsOnLiveItem, HeldOK, CheckedOK, Holding
  <1> QED
    BY <1>1, Invariance, PTL

(* Nothing but a Set takes an unexpired item out of the map: the collector *)
(* and Incr never remove a counter that is still running (inmem.go:52-58,  *)
(* 86-96).                                                                 *)
THEOREM ExpiredOnlyLeave == Spec => OnlyExpiredLeave
  <1> DEFINE A == (~ \E t \in Threads : SetStore(t)) =>
                    \A k \in Keys : (data[k] # NoItem /\ data'[k] # data[k])
                                       => Expired(data[k], now)
  <1>1. ASSUME IInv, [Next]_vars PROVE [A]_vars
    <2> SUFFICES ASSUME ~ \E t \in Threads : SetStore(t),
                        NEW k \in Keys, data[k] # NoItem, data'[k] # data[k]
                 PROVE  Expired(data[k], now)
      OBVIOUS
    <2>1. ASSUME NEW t \in Threads, IncrLoadOrStore(t) PROVE Expired(data[k], now)
      BY <1>1, <2>1 DEF IncrLoadOrStore, Publish, IInv, TypeOK
    <2>2. ASSUME NEW t \in Threads, IncrSwap(t) PROVE Expired(data[k], now)
      <3>1. k = call[t].key /\ data[k] = call[t].ref
        BY <1>1, <2>2 DEF IncrSwap, Publish, IInv, TypeOK
      <3> QED
        BY <1>1, <2>2, <3>1 DEF IncrSwap, IInv, CheckedOK, Expired
    <2>3. CASE GcDelete
      <3>1. k = gc.key /\ data[k] = gc.ref
        BY <1>1, <2>3 DEF GcDelete, IInv, TypeOK
      <3> QED
        BY <1>1, <2>3, <3>1 DEF GcDelete, IInv, CollectorOK, Expired
    <2>4. ASSUME NEW t \in Threads, Invoke(t) PROVE FALSE
      BY <2>4 DEF Invoke, IncrCall, GetCall, SetCall
    <2>5. ASSUME NEW t \in Threads, Step(t), ~IncrLoadOrStore(t), ~IncrSwap(t) PROVE FALSE
      BY <2>5 DEF Step, IncrReload, IncrStamp, IncrClock, IncrReadValue, IncrCas,
                  GetClock, GetValue
    <2>6. ASSUME Gc, ~GcDelete PROVE FALSE
      BY <2>6 DEF Gc, GcTick, GcVisit, GcEnd, GcStop
    <2>7. ASSUME Close \/ Tick \/ UNCHANGED vars PROVE FALSE
      BY <2>7 DEF Close, Tick, vars
    <2> QED
      BY <1>1, <2>1, <2>2, <2>3, <2>4, <2>5, <2>6, <2>7 DEF Next
  <1>2. Spec => [][A]_vars
    BY <1>1, Invariance, PTL DEF Spec
  <1> QED
    BY <1>2 DEF OnlyExpiredLeave

-----------------------------------------------------------------------------
(* The refinement of CounterStore.  Beyond IInv it needs what a call has   *)
(* promised itself: the expiry it computed counts its TTL from a moment of *)
(* the call, and a Get still holds the item its call began with.           *)
PromiseOK(t) ==
    LET c == call[t] IN
    /\ pc[t] \in {"publish", "swap", "store"} =>
         c.time + TTL <= c.stamp /\ c.stamp <= now + TTL
    /\ pc[t] \in {"getclock", "getvalue"} => c.ref = c.item

Promises == \A t \in Threads : PromiseOK(t)

(* A call that stands still keeps its promise. *)
LEMMA PromiseKept ==
  ASSUME IInv, NEW u \in Threads, PromiseOK(u), pc'[u] = pc[u], call'[u] = call[u],
         now' = now \/ now' = now + 1
  PROVE  PromiseOK(u)'
  <1>1. now \in Nat /\ TTL \in Nat /\ call[u].stamp \in Nat
    BY CallFields, ConstantsAssumption
  <1> QED
    BY <1>1 DEF PromiseOK

(* At the other program points there is nothing to keep. *)
LEMMA NoPromise ==
  ASSUME NEW u \in Threads,
         pc'[u] \notin {"publish", "swap", "store", "getclock", "getvalue"}
  PROVE  PromiseOK(u)'
  BY DEF PromiseOK

(* What a call records of the moment it began. *)
LEMMA Begun ==
  ASSUME IInv, NEW t \in Threads, NEW k \in Keys, NEW r, NEW s, NEW v, NEW l,
         Begin(t, k, r, s, v), Goto(t, l)
  PROVE  /\ pc[t] = "idle" /\ pc'[t] = l
         /\ call'[t].key = k /\ call'[t].ref = r /\ call'[t].stamp = s
         /\ call'[t].operand = v /\ call'[t].time = now /\ call'[t].item = data[k]
         /\ call'[t].top = Len(heap)
         /\ \A u \in Threads : u # t => pc'[u] = pc[u] /\ call'[u] = call[u]
  <1>1. pc \in [Threads -> PCs] /\ call \in [Threads -> Call]
    BY DEF IInv, TypeOK
  <1> QED
    BY <1>1 DEF Begin, Goto

(* What a return leaves behind. *)
LEMMA Returned ==
  ASSUME IInv, NEW t \in Threads, NEW v, Return(t, v)
  PROVE  /\ pc'[t] = "idle"
         /\ \A u \in Threads : u # t => pc'[u] = pc[u] /\ call'[u] = call[u]
  BY DEF IInv, TypeOK, Return, Goto

(* What a change of program point leaves alone. *)
LEMMA Gone ==
  ASSUME IInv, NEW t \in Threads, NEW l, Goto(t, l)
  PROVE  /\ pc'[t] = l
         /\ \A u \in Threads : u # t => pc'[u] = pc[u]
  BY DEF IInv, TypeOK, Goto

(* Every action of a call keeps its promises, or has none left. *)
LEMMA InvokePromise ==
  ASSUME IInv, NEW t \in Threads, Invoke(t)
  PROVE  /\ PromiseOK(t)' /\ now' = now
         /\ \A u \in Threads : u # t => pc'[u] = pc[u] /\ call'[u] = call[u]
  <1>1. /\ now \in Nat /\ TTL \in Nat
        /\ \A k \in Keys : AfterLoad(data[k]) \in {"newclock", "clock"}
    BY ConstantsAssumption DEF IInv, TypeOK, AfterLoad
  <1>2. ASSUME NEW k \in Keys, IncrCall(t, k)
        PROVE  /\ pc'[t] = AfterLoad(data[k]) /\ now' = now
               /\ \A u \in Threads : u # t => pc'[u] = pc[u] /\ call'[u] = call[u]
    BY <1>2, Begun DEF IncrCall
  <1>3. ASSUME NEW k \in Keys, GetCall(t, k), data[k] = NoItem
        PROVE  /\ pc'[t] = "idle" /\ now' = now
               /\ \A u \in Threads : u # t => pc'[u] = pc[u] /\ call'[u] = call[u]
    BY <1>3, Returned DEF GetCall
  <1>4. ASSUME NEW k \in Keys, GetCall(t, k), data[k] # NoItem
        PROVE  /\ pc'[t] = "getclock" /\ call'[t].ref = call'[t].item /\ now' = now
               /\ \A u \in Threads : u # t => pc'[u] = pc[u] /\ call'[u] = call[u]
    BY <1>4, Begun DEF GetCall
  <1>5. ASSUME NEW k \in Keys, NEW v \in Values, SetCall(t, k, v)
        PROVE  /\ pc'[t] = "store" /\ call'[t].time = now /\ call'[t].stamp = now + TTL
               /\ now' = now
               /\ \A u \in Threads : u # t => pc'[u] = pc[u] /\ call'[u] = call[u]
    BY <1>5, Begun DEF SetCall
  <1>6. ASSUME NEW k \in Keys, IncrCall(t, k)
        PROVE  PromiseOK(t)'
    BY <1>1, <1>2, <1>6, NoPromise
  <1>7. ASSUME NEW k \in Keys, GetCall(t, k)
        PROVE  PromiseOK(t)'
    BY <1>3, <1>4, <1>7 DEF PromiseOK
  <1>8. ASSUME NEW k \in Keys, NEW v \in Values, SetCall(t, k, v)
        PROVE  PromiseOK(t)'
    BY <1>1, <1>5, <1>8 DEF PromiseOK
  <1> QED
    BY <1>2, <1>3, <1>4, <1>5, <1>6, <1>7, <1>8 DEF Invoke

LEMMA StepPromise ==
  ASSUME IInv, Promises, NEW t \in Threads, Step(t)
  PROVE  /\ PromiseOK(t)' /\ now' = now
         /\ \A u \in Threads : u # t => pc'[u] = pc[u] /\ call'[u] = call[u]
  <1> DEFINE Rest == \A u \in Threads : u # t => pc'[u] = pc[u] /\ call'[u] = call[u]
  <1>1. /\ now \in Nat /\ TTL \in Nat
        /\ pc \in [Threads -> PCs] /\ call \in [Threads -> Call]
        /\ call[t].time \in Nat
    BY CallFields, ConstantsAssumption
  <1>2. CASE IncrReload(t)
    <2>1. pc'[t] = AfterLoad(data[call[t].key]) /\ Rest /\ now' = now
      BY <1>1, <1>2, Gone DEF IncrReload
    <2> QED
      BY <2>1, NoPromise DEF AfterLoad
  <1>3. CASE IncrStamp(t)
    <2>1. /\ call'[t].stamp = now + TTL /\ call'[t].time = call[t].time
          /\ pc[t] # "idle" /\ pc'[t] \in {"publish", "swap"} /\ Rest /\ now' = now
      BY <1>1, <1>3, Gone DEF IncrStamp, Call
    <2>2. call[t].time <= now
      BY <2>1 DEF IInv, CallOK
    <2> QED
      BY <1>1, <2>1, <2>2 DEF PromiseOK
  <1>4. CASE IncrLoadOrStore(t)
    <2>1. /\ pc'[t] \in {"idle", "clock"} /\ Rest /\ now' = now
      BY <1>1, <1>4, Gone, Returned DEF IncrLoadOrStore
    <2> QED
      BY <2>1, NoPromise
  <1>5. CASE IncrClock(t)
    <2>1. pc'[t] \in {"swapclock", "value"} /\ Rest /\ now' = now
      BY <1>1, <1>5, Gone DEF IncrClock
    <2> QED
      BY <2>1, NoPromise
  <1>6. CASE IncrSwap(t)
    <2>1. pc'[t] \in {"idle", "load"} /\ Rest /\ now' = now
      BY <1>1, <1>6, Gone, Returned DEF IncrSwap
    <2> QED
      BY <2>1, NoPromise
  <1>7. CASE IncrReadValue(t)
    <2>1. pc'[t] = "cas" /\ Rest /\ now' = now
      BY <1>1, <1>7, Gone DEF IncrReadValue
    <2> QED
      BY <2>1, NoPromise
  <1>8. CASE IncrCas(t)
    <2>1. pc'[t] \in {"idle", "value"} /\ Rest /\ now' = now
      BY <1>1, <1>8, Gone, Returned DEF IncrCas
    <2> QED
      BY <2>1, NoPromise
  <1>9. CASE GetClock(t)
    <2>1. CASE Return(t, 0)
      BY <1>9, <2>1, Returned, NoPromise DEF GetClock
    <2>2. CASE Goto(t, "getvalue") /\ UNCHANGED <<call, res>>
      BY <1>9, <2>2, Gone DEF GetClock, Promises, PromiseOK
    <2> QED
      BY <1>9, <2>1, <2>2 DEF GetClock
  <1>10. CASE GetValue(t)
    BY <1>10, Returned, NoPromise DEF GetValue
  <1>11. CASE SetStore(t)
    BY <1>11, Returned, NoPromise DEF SetStore
  <1> QED
    BY <1>2, <1>3, <1>4, <1>5, <1>6, <1>7, <1>8, <1>9, <1>10, <1>11 DEF Step

LEMMA PromisesKept == IInv /\ Promises /\ [Next]_vars => Promises'
  <1> SUFFICES ASSUME IInv, Promises, [Next]_vars, NEW u \in Threads
               PROVE  PromiseOK(u)'
    BY DEF Promises
  <1>1. PromiseOK(u)
    BY DEF Promises
  <1>2. ASSUME NEW t \in Threads, Invoke(t) \/ Step(t) PROVE PromiseOK(u)'
    BY <1>1, <1>2, InvokePromise, StepPromise, PromiseKept
  <1>3. CASE Gc \/ Close \/ Tick \/ UNCHANGED vars
    <2>1. pc' = pc /\ call' = call /\ (now' = now \/ now' = now + 1)
      BY <1>3 DEF Gc, GcTick, GcVisit, GcDelete, GcEnd, GcStop, Close, Tick, vars
    <2> QED
      BY <1>1, <2>1, PromiseKept
  <1> QED
    BY <1>2, <1>3 DEF Next

(* Both invariants together hold in every reachable state. *)
LEMMA PromiseInvariance == Spec => [](IInv /\ Promises)
  <1>1. Init => Promises
    BY DEF Init, Promises, PromiseOK
  <1> QED
    BY <1>1, InitInv, InductiveInvariant, PromisesKept, PTL DEF Spec

(* The abstract call of an idle goroutine, and of one at work. *)
IncrPoints == {"load", "newclock", "publish", "clock", "swapclock", "swap", "value", "cas"}
GetPoints  == {"getclock", "getvalue"}

LEMMA PendingIdle ==
  ASSUME NEW t \in Threads
  PROVE  /\ pc[t] = "idle" => PendingCalls[t] = NoPending
         /\ pc'[t] = "idle" => PendingCall(t)' = NoPending
  BY DEF PendingCalls, PendingCall, Kind

LEMMA PendingBusy ==
  ASSUME NEW t \in Threads, pc[t] \in IncrPoints \union GetPoints \union {"store"}
  PROVE  /\ PendingCalls[t] # NoPending
         /\ PendingCalls[t].key = call[t].key
         /\ PendingCalls[t].kind = Kind(t)
         /\ PendingCalls[t].time = call[t].time
         /\ PendingCalls[t].first = call[t].item
         /\ PendingCalls[t].top = call[t].top
         /\ pc[t] = "store" => PendingCalls[t].value = call[t].operand
  <1>1. Kind(t) # "none" /\ (pc[t] = "store" => Kind(t) = "set")
    BY DEF Kind, IncrPoints, GetPoints
  <1>2. PendingCalls[t] =
          [key |-> call[t].key, kind |-> Kind(t),
           value |-> IF Kind(t) = "set" THEN call[t].operand ELSE 0,
           time |-> call[t].time, first |-> call[t].item, top |-> call[t].top]
    BY <1>1 DEF PendingCalls, PendingCall
  <1>3. PendingCalls[t].kind = Kind(t) /\ NoPending.kind = "none"
    BY <1>2 DEF NoPending
  <1> QED
    BY <1>1, <1>2, <1>3

LEMMA Kinds ==
  ASSUME NEW t \in Threads
  PROVE  /\ pc[t] \in IncrPoints => Kind(t) = "incr"
         /\ pc[t] \in GetPoints => Kind(t) = "get"
         /\ pc[t] = "store" => Kind(t) = "set"
  BY DEF Kind, IncrPoints, GetPoints

(* A step of t changes at most the abstract call of t. *)
LEMMA PendingChange ==
  ASSUME NEW t \in Threads,
         \A u \in Threads : u # t => pc'[u] = pc[u] /\ call'[u] = call[u]
  PROVE  PendingCalls' = [PendingCalls EXCEPT ![t] = PendingCall(t)']
  <1>1. \A u \in Threads : u # t => PendingCall(u)' = PendingCall(u)
    BY DEF PendingCall, Kind
  <1> QED
    BY <1>1 DEF PendingCalls

LEMMA PendingSame ==
  ASSUME UNCHANGED <<pc, call>>
  PROVE  PendingCalls' = PendingCalls
  BY DEF PendingCalls, PendingCall, Kind

(* A step inside a call leaves the abstract call alone. *)
LEMMA PendingStands ==
  ASSUME NEW t \in Threads,
         \A u \in Threads : u # t => pc'[u] = pc[u] /\ call'[u] = call[u],
         \/ pc[t] \in IncrPoints /\ pc'[t] \in IncrPoints
         \/ pc[t] \in GetPoints /\ pc'[t] \in GetPoints,
         call'[t].key = call[t].key, call'[t].time = call[t].time,
         call'[t].item = call[t].item, call'[t].top = call[t].top
  PROVE  PendingCalls' = PendingCalls
  <1>1. \/ Kind(t) = "incr" /\ Kind(t)' = "incr"
        \/ Kind(t) = "get" /\ Kind(t)' = "get"
    BY DEF Kind, IncrPoints, GetPoints
  <1>2. PendingCall(t)' = PendingCall(t)
    BY <1>1 DEF PendingCall
  <1>3. \A u \in Threads : u # t => PendingCall(u)' = PendingCall(u)
    BY DEF PendingCall, Kind
  <1> QED
    BY <1>2, <1>3 DEF PendingCalls

(* An abstract stutter. *)
LEMMA Stutter ==
  ASSUME UNCHANGED <<now, heap, data, res>>, PendingCalls' = PendingCalls
  PROVE  [Abstract!Next]_(Abstract!vars)
  BY DEF Abstract!vars

(* A step within a call that touches no memory of the store. *)
LEMMA InnerStep ==
  ASSUME IInv, NEW t \in Threads,
         UNCHANGED <<now, heap, data, res>>,
         \A u \in Threads : u # t => pc'[u] = pc[u] /\ call'[u] = call[u],
         \/ pc[t] \in IncrPoints /\ pc'[t] \in IncrPoints
         \/ pc[t] \in GetPoints /\ pc'[t] \in GetPoints,
         call'[t].key = call[t].key, call'[t].time = call[t].time,
         call'[t].item = call[t].item, call'[t].top = call[t].top
  PROVE  [Abstract!Next]_(Abstract!vars)
  BY PendingStands, Stutter

(* A return, seen from above. *)
LEMMA RespondStep ==
  ASSUME IInv, NEW t \in Threads, NEW v, Return(t, v)
  PROVE  Abstract!Respond(t, v)
  <1>1. PendingCall(t)' = NoPending
    BY Returned, PendingIdle
  <1>2. PendingCalls' = [PendingCalls EXCEPT ![t] = PendingCall(t)']
    BY Returned, PendingChange
  <1> QED
    BY <1>1, <1>2 DEF Return, Abstract!Respond

(* A publication, seen from above. *)
LEMMA OpenStep ==
  ASSUME IInv, Promises, NEW t \in Threads, NEW v,
         pc[t] \in {"publish", "swap", "store"},
         Publish(call[t].key, v, call[t].stamp)
  PROVE  Abstract!Open(t, v)
  <1>1. PendingCalls[t].key = call[t].key /\ PendingCalls[t].time = call[t].time
    BY PendingBusy DEF IncrPoints
  <1>2. call[t].stamp \in (call[t].time + TTL)..(now + TTL)
    BY CallFields, ConstantsAssumption DEF Promises, PromiseOK
  <1> QED
    BY <1>1, <1>2 DEF Publish, Abstract!Open

(* The item a checked call holds is one it may act on. *)
LEMMA HeldVisible ==
  ASSUME IInv, NEW t \in Threads, pc[t] \in {"value", "cas", "getvalue"}
  PROVE  call[t].ref \in Abstract!Visible(t)
  <1>1. /\ PendingCalls[t].key = call[t].key /\ PendingCalls[t].time = call[t].time
        /\ PendingCalls[t].first = call[t].item /\ PendingCalls[t].top = call[t].top
    BY PendingBusy DEF IncrPoints, GetPoints
  <1>2. /\ call[t].ref \in Items /\ heap[call[t].ref].key = call[t].key
        /\ call[t].ref = call[t].item \/ call[t].ref > call[t].top
        /\ heap[call[t].ref].expiresAt >= call[t].time
    BY DEF IInv, HeldOK, CheckedOK, Holding
  <1>3. call[t].ref \in Nat /\ call[t].ref # 0 /\ call[t].top \in Nat /\ Len(heap) \in Nat
        /\ call[t].ref <= Len(heap)
    BY <1>2, CallFields DEF Items
  <1>4. call[t].ref \in {call[t].item} \union (call[t].top + 1)..Len(heap)
    BY <1>2, <1>3
  <1> QED
    BY <1>1, <1>2, <1>3, <1>4 DEF Abstract!Visible, Abstract!None

(* Each invocation is an abstract invocation, or a Get that misses. *)
LEMMA BeginStep ==
  ASSUME IInv, NEW t \in Threads, NEW k \in Keys, NEW r, NEW s, NEW v, NEW l, NEW kind,
         Begin(t, k, r, s, v), Goto(t, l),
         \/ l \in IncrPoints /\ kind = "incr" /\ v = 0
         \/ l \in GetPoints /\ kind = "get" /\ v = 0
         \/ l = "store" /\ kind = "set" /\ v \in Values,
         UNCHANGED <<now, heap, data, res>>
  PROVE  Abstract!Invoke(t)
  <1>1. /\ pc[t] = "idle" /\ pc'[t] = l
        /\ call'[t].key = k /\ call'[t].operand = v /\ call'[t].time = now
        /\ call'[t].item = data[k] /\ call'[t].top = Len(heap)
    BY Begun
  <1>2. PendingCalls' = [PendingCalls EXCEPT ![t] = PendingCall(t)']
    BY Begun, PendingChange
  <1>3. Kind(t)' = kind /\ kind \in {"incr", "get", "set"}
    BY <1>1 DEF Kind, IncrPoints, GetPoints
  <1>4. PendingCall(t)' = Abstract!Invocation(k, kind, v)
    BY <1>1, <1>3 DEF PendingCall, Abstract!Invocation
  <1>5. PendingCalls[t] = NoPending
    BY <1>1, PendingIdle
  <1>6. v \in Values \union {0}
    OBVIOUS
  <1> QED
    BY <1>2, <1>3, <1>4, <1>5, <1>6 DEF Abstract!Invoke

LEMMA InvokeSimulates ==
  ASSUME IInv, NEW t \in Threads, Invoke(t)
  PROVE  Abstract!Next
  <1>1. ASSUME NEW k \in Keys, IncrCall(t, k) PROVE Abstract!Next
    <2>1. AfterLoad(data[k]) \in IncrPoints
      BY DEF AfterLoad, IncrPoints
    <2>2. Abstract!Invoke(t)
      BY <1>1, <2>1, BeginStep DEF IncrCall
    <2> QED
      BY <2>2 DEF Abstract!Next
  <1>2. ASSUME NEW k \in Keys, GetCall(t, k) PROVE Abstract!Next
    <2>1. CASE data[k] = NoItem
      <3>1. Return(t, 0) /\ pc[t] = "idle" /\ UNCHANGED <<now, heap, data>>
        BY <1>2, <2>1 DEF GetCall
      <3>2. Abstract!Respond(t, 0) /\ PendingCalls[t] = NoPending
        BY <3>1, RespondStep, PendingIdle
      <3>3. Abstract!GetMiss(t)
        BY <2>1, <3>1, <3>2 DEF Abstract!GetMiss, Abstract!None, NoItem
      <3> QED
        BY <3>3 DEF Abstract!Next
    <2>2. CASE data[k] # NoItem
      <3>1. Abstract!Invoke(t)
        BY <1>2, <2>2, BeginStep DEF GetCall, GetPoints
      <3> QED
        BY <3>1 DEF Abstract!Next
    <2> QED
      BY <2>1, <2>2
  <1>3. ASSUME NEW k \in Keys, NEW v \in Values, SetCall(t, k, v) PROVE Abstract!Next
    <2>1. Abstract!Invoke(t)
      BY <1>3, BeginStep DEF SetCall
    <2> QED
      BY <2>1 DEF Abstract!Next
  <1> QED
    BY <1>1, <1>2, <1>3 DEF Invoke

(* LoadOrStore and the CompareAndSwap of the map open a generation of a    *)
(* key that has none, or whose generation has expired.                     *)
LEMMA IncrOpenSimulates ==
  ASSUME IInv, Promises, NEW t \in Threads, pc[t] \in {"publish", "swap"},
         Publish(call[t].key, 1, call[t].stamp), Return(t, 1), now' = now,
         \/ data[call[t].key] = NoItem
         \/ pc[t] = "swap" /\ data[call[t].key] = call[t].ref
  PROVE  Abstract!Next
  <1>1. Abstract!Open(t, 1) /\ Abstract!Respond(t, 1)
    BY OpenStep, RespondStep
  <1>2. /\ PendingCalls[t] # NoPending /\ PendingCalls[t].kind = "incr"
        /\ PendingCalls[t].key = call[t].key
    BY PendingBusy, Kinds DEF IncrPoints
  <1>3. \/ data[call[t].key] = 0
        \/ heap[data[call[t].key]].expiresAt < now
    BY DEF IInv, CheckedOK, NoItem
  <1>4. Abstract!IncrOpen(t)
    BY <1>1, <1>2, <1>3
       DEF Abstract!IncrOpen, Abstract!Pending, Abstract!Expired, Abstract!None
  <1> QED
    BY <1>4 DEF Abstract!Next

LEMMA IncrStepSimulates ==
  ASSUME IInv, Promises, NEW t \in Threads,
         \/ IncrReload(t) \/ IncrStamp(t) \/ IncrLoadOrStore(t) \/ IncrClock(t)
         \/ IncrSwap(t) \/ IncrReadValue(t) \/ IncrCas(t)
  PROVE  [Abstract!Next]_(Abstract!vars)
  <1> DEFINE Rest == \A u \in Threads : u # t => pc'[u] = pc[u] /\ call'[u] = call[u]
             Same == /\ call'[t].key = call[t].key /\ call'[t].time = call[t].time
                     /\ call'[t].item = call[t].item /\ call'[t].top = call[t].top
             Quiet == UNCHANGED <<now, heap, data, res>>
             Inner == pc[t] \in IncrPoints /\ pc'[t] \in IncrPoints
  <1>1. /\ pc \in [Threads -> PCs] /\ call \in [Threads -> Call] /\ call[t] \in Call
    BY CallFields
  <1>2. CASE IncrReload(t)
    <2>1. Rest /\ Same /\ Quiet /\ pc[t] = "load" /\ pc'[t] = AfterLoad(data[call[t].key])
      BY <1>1, <1>2, Gone DEF IncrReload, Call
    <2>2. Inner
      BY <2>1 DEF AfterLoad, IncrPoints
    <2> QED
      BY <2>1, <2>2, InnerStep
  <1>3. CASE IncrStamp(t)
    <2>1. Rest /\ Same /\ Quiet /\ pc[t] \in {"newclock", "swapclock"}
          /\ pc'[t] \in {"publish", "swap"}
      BY <1>1, <1>3, Gone DEF IncrStamp, Call
    <2>2. Inner
      BY <2>1 DEF IncrPoints
    <2> QED
      BY <2>1, <2>2, InnerStep
  <1>4. CASE IncrLoadOrStore(t)
    <2>1. CASE data[call[t].key] = NoItem
      <3>1. /\ pc[t] = "publish" /\ Publish(call[t].key, 1, call[t].stamp)
            /\ Return(t, 1) /\ now' = now
        BY <1>4, <2>1 DEF IncrLoadOrStore
      <3> QED
        BY <2>1, <3>1, IncrOpenSimulates
    <2>2. CASE data[call[t].key] # NoItem
      <3>1. Rest /\ Same /\ Quiet /\ pc[t] = "publish" /\ pc'[t] = "clock"
        BY <1>1, <1>4, <2>2, Gone DEF IncrLoadOrStore, Call
      <3>2. Inner
        BY <3>1 DEF IncrPoints
      <3> QED
        BY <3>1, <3>2, InnerStep
    <2> QED
      BY <2>1, <2>2
  <1>5. CASE IncrClock(t)
    <2>1. Rest /\ Same /\ Quiet /\ pc[t] = "clock" /\ pc'[t] \in {"swapclock", "value"}
      BY <1>1, <1>5, Gone DEF IncrClock
    <2>2. Inner
      BY <2>1 DEF IncrPoints
    <2> QED
      BY <2>1, <2>2, InnerStep
  <1>6. CASE IncrSwap(t)
    <2>1. CASE data[call[t].key] = call[t].ref
      <3>1. /\ pc[t] = "swap" /\ Publish(call[t].key, 1, call[t].stamp)
            /\ Return(t, 1) /\ now' = now
        BY <1>6, <2>1 DEF IncrSwap
      <3> QED
        BY <2>1, <3>1, IncrOpenSimulates
    <2>2. CASE data[call[t].key] # call[t].ref
      <3>1. Rest /\ Same /\ Quiet /\ pc[t] = "swap" /\ pc'[t] = "load"
        BY <1>1, <1>6, <2>2, Gone DEF IncrSwap
      <3>2. Inner
        BY <3>1 DEF IncrPoints
      <3> QED
        BY <3>1, <3>2, InnerStep
    <2> QED
      BY <2>1, <2>2
  <1>7. CASE IncrReadValue(t)
    <2>1. Rest /\ Same /\ Quiet /\ pc[t] = "value" /\ pc'[t] = "cas"
      BY <1>1, <1>7, Gone DEF IncrReadValue, Call
    <2>2. Inner
      BY <2>1 DEF IncrPoints
    <2> QED
      BY <2>1, <2>2, InnerStep
  <1>8. CASE IncrCas(t)
    <2> DEFINE i == call[t].ref
    <2>1. CASE heap[i].value = call[t].operand
      <3>1. /\ pc[t] = "cas" /\ Return(t, heap[i].value + 1)
            /\ heap' = [heap EXCEPT ![i].value = @ + 1]
            /\ UNCHANGED <<now, data>>
        BY <1>8, <2>1 DEF IncrCas
      <3>2. Abstract!Respond(t, heap[i].value + 1)
        BY <3>1, RespondStep
      <3>3. PendingCalls[t] # NoPending /\ PendingCalls[t].kind = "incr"
        BY <3>1, PendingBusy, Kinds DEF IncrPoints
      <3>4. i \in Abstract!Visible(t)
        BY <3>1, HeldVisible
      <3> HIDE DEF i
      <3>5. Abstract!IncrBump(t)
        BY <3>1, <3>2, <3>3, <3>4 DEF Abstract!IncrBump, Abstract!Pending
      <3> QED
        BY <3>5 DEF Abstract!Next
    <2>2. CASE heap[i].value # call[t].operand
      <3>1. Rest /\ Same /\ Quiet /\ pc[t] = "cas" /\ pc'[t] = "value"
        BY <1>1, <1>8, <2>2, Gone DEF IncrCas
      <3>2. Inner
        BY <3>1 DEF IncrPoints
      <3> QED
        BY <3>1, <3>2, InnerStep
    <2> QED
      BY <2>1, <2>2
  <1> QED
    BY <1>2, <1>3, <1>4, <1>5, <1>6, <1>7, <1>8

(* The later steps of Get and Set. *)
LEMMA GetSetStepSimulates ==
  ASSUME IInv, Promises, NEW t \in Threads, GetClock(t) \/ GetValue(t) \/ SetStore(t)
  PROVE  [Abstract!Next]_(Abstract!vars)
  <1>1. CASE GetClock(t) /\ Expired(call[t].ref, now)
    <2>1. /\ pc[t] = "getclock" /\ Return(t, 0) /\ UNCHANGED <<now, heap, data>>
          /\ heap[call[t].ref].expiresAt < now
      BY <1>1 DEF GetClock, Expired
    <2>2. call[t].ref = call[t].item /\ call[t].ref \in Items /\ call[t].ref # 0
      BY <2>1 DEF Promises, PromiseOK, IInv, HeldOK, Holding, Items
    <2>3. /\ PendingCalls[t] # NoPending /\ PendingCalls[t].kind = "get"
          /\ PendingCalls[t].first = call[t].item
      BY <2>1, PendingBusy, Kinds DEF GetPoints
    <2>4. Abstract!Respond(t, 0)
      BY <2>1, RespondStep
    <2>5. Abstract!GetMiss(t)
      BY <2>1, <2>2, <2>3, <2>4
         DEF Abstract!GetMiss, Abstract!Pending, Abstract!Expired, Abstract!None
    <2> QED
      BY <2>5 DEF Abstract!Next
  <1>2. CASE GetClock(t) /\ ~Expired(call[t].ref, now)
    <2>1. /\ pc[t] = "getclock" /\ Goto(t, "getvalue")
          /\ UNCHANGED <<now, heap, data, call, res>>
      BY <1>2 DEF GetClock
    <2>2. /\ pc'[t] = "getvalue"
          /\ \A u \in Threads : u # t => pc'[u] = pc[u] /\ call'[u] = call[u]
      BY <2>1, Gone
    <2> QED
      BY <2>1, <2>2, InnerStep DEF GetPoints
  <1>3. CASE GetValue(t)
    <2>1. /\ pc[t] = "getvalue" /\ Return(t, heap[call[t].ref].value)
          /\ UNCHANGED <<now, heap, data>>
      BY <1>3 DEF GetValue
    <2>2. PendingCalls[t] # NoPending /\ PendingCalls[t].kind = "get"
      BY <2>1, PendingBusy, Kinds DEF GetPoints
    <2>3. Abstract!Respond(t, heap[call[t].ref].value)
      BY <2>1, RespondStep
    <2>4. Abstract!GetHit(t)
      BY <2>1, <2>2, <2>3, HeldVisible DEF Abstract!GetHit, Abstract!Pending
    <2> QED
      BY <2>4 DEF Abstract!Next
  <1>4. CASE SetStore(t)
    <2>1. /\ pc[t] = "store" /\ Publish(call[t].key, call[t].operand, call[t].stamp)
          /\ Return(t, 0) /\ now' = now
      BY <1>4 DEF SetStore
    <2>2. /\ PendingCalls[t] # NoPending /\ PendingCalls[t].kind = "set"
          /\ PendingCalls[t].value = call[t].operand
      BY <2>1, PendingBusy, Kinds
    <2>3. Abstract!Open(t, call[t].operand) /\ Abstract!Respond(t, 0)
      BY <2>1, OpenStep, RespondStep
    <2>4. Abstract!SetOpen(t)
      BY <2>1, <2>2, <2>3 DEF Abstract!SetOpen, Abstract!Pending
    <2> QED
      BY <2>4 DEF Abstract!Next
  <1> QED
    BY <1>1, <1>2, <1>3, <1>4

(* The collector forgets an expired generation, or does nothing that shows. *)
LEMMA OtherStepSimulates ==
  ASSUME IInv, Gc \/ Close \/ Tick \/ UNCHANGED vars
  PROVE  [Abstract!Next]_(Abstract!vars)
  <1>1. PendingCalls' = PendingCalls
    BY PendingSame DEF Gc, GcTick, GcVisit, GcDelete, GcEnd, GcStop, Close, Tick, vars
  <1>2. CASE GcDelete
    <2>1. gc.key \in Keys /\ data \in [Keys -> Items \union {NoItem}]
      BY DEF IInv, TypeOK, Collector
    <2>2. CASE data[gc.key] = gc.ref
      <3>1. /\ data[gc.key] # 0 /\ heap[data[gc.key]].expiresAt < now
        BY <1>2, <2>2 DEF GcDelete, IInv, CollectorOK, Items
      <3>2. data' = [data EXCEPT ![gc.key] = NoItem] /\ UNCHANGED <<now, heap, res>>
        BY <1>2, <2>1, <2>2 DEF GcDelete
      <3>3. Abstract!Forget(gc.key)
        BY <1>1, <3>1, <3>2 DEF Abstract!Forget, Abstract!Expired, Abstract!None, NoItem
      <3> QED
        BY <2>1, <3>3 DEF Abstract!Next
    <2>3. CASE data[gc.key] # gc.ref
      <3>1. data' = data /\ UNCHANGED <<now, heap, res>>
        BY <1>2, <2>1, <2>3 DEF GcDelete
      <3> QED
        BY <1>1, <3>1, Stutter
    <2> QED
      BY <2>2, <2>3
  <1>3. CASE Tick
    <2>1. Abstract!Tick
      BY <1>1, <1>3 DEF Tick, Abstract!Tick
    <2> QED
      BY <2>1 DEF Abstract!Next
  <1>4. ASSUME ~GcDelete, ~Tick PROVE UNCHANGED <<now, heap, data, res>>
    BY <1>4 DEF Gc, GcTick, GcVisit, GcEnd, GcStop, Close, vars
  <1> QED
    BY <1>1, <1>2, <1>3, <1>4, Stutter

(* The initial memory is an initial store. *)
LEMMA InitSimulates == Init => Abstract!Init
  BY DEF Init, Abstract!Init, Abstract!None, NoItem, PendingCalls, PendingCall, Kind

LEMMA StepSimulates ==
  IInv /\ Promises /\ [Next]_vars => [Abstract!Next]_(Abstract!vars)
  <1> SUFFICES ASSUME IInv, Promises, [Next]_vars
               PROVE  [Abstract!Next]_(Abstract!vars)
    OBVIOUS
  <1>1. ASSUME NEW t \in Threads, Invoke(t) PROVE [Abstract!Next]_(Abstract!vars)
    BY <1>1, InvokeSimulates
  <1>2. ASSUME NEW t \in Threads, Step(t) PROVE [Abstract!Next]_(Abstract!vars)
    BY <1>2, IncrStepSimulates, GetSetStepSimulates DEF Step
  <1>3. ASSUME Gc \/ Close \/ Tick \/ UNCHANGED vars
        PROVE  [Abstract!Next]_(Abstract!vars)
    BY <1>3, OtherStepSimulates
  <1> QED
    BY <1>1, <1>2, <1>3 DEF Next

(* The store implements the abstract store of expiring counters: for any   *)
(* number of goroutines racing with the collector and with each other,     *)
(* every Incr, Get and Set takes effect in one step between its call and   *)
(* its return, on a counter its key really had then (inmem.go:52-138).     *)
THEOREM StoreRefines == Spec => ImplementsCounterStore
  <1>1. IInv /\ Promises /\ [Next]_vars => [Abstract!Next]_(Abstract!vars)
    BY StepSimulates
  <1> QED
    BY <1>1, InitSimulates, PromiseInvariance, PTL
       DEF Spec, ImplementsCounterStore, Abstract!Spec
=============================================================================
