------------------------ MODULE SlidingWindowProofs ------------------------
(***************************************************************************)
(* Proofs about SlidingWindow for any goroutines, limits, windows, stalls  *)
(* and precisions of float64, with calls that overlap and a store that     *)
(* fails.                                                                  *)
(*                                                                         *)
(* Nothing holds the three keys together when calls race, so the invariant *)
(* does not relate them to each other: it traces every count that is alive *)
(* in the store, or read by a call, back to a call that was counted, and   *)
(* says how long ago at most.                                              *)
(*                                                                         *)
(* When calls come one after the other on a store that works, a second     *)
(* invariant says which calls of history the keys count, at every point of *)
(* a call: from it follow the promises about the rolling window.           *)
(***************************************************************************)
EXTENDS SlidingWindow, SequenceTheorems, FiniteSetTheorems, TLAPS

(* A call was counted at time a or later. *)
CountedSince(h, a) == \E i \in 1..Len(h) : h[i] >= a

Cells  == [value : Nat, expiresAt : Nat]
Locals == [now : Nat, windowStart : Nat, next : Nat, prev : Nat, curr : Nat]

HistoryOK(h, n) == h \in Seq(Nat) /\ \A i \in 1..Len(h) : h[i] <= n

(* A current count is as old as its cell, a previous one up to two windows *)
(* older, and each Incr or rotation was late by a stall at most.           *)
CellsOK(s, h, n) ==
    /\ s \in [Fields -> Cells]
    /\ s["curr"].expiresAt <= n + 2 * Window
    /\ s["curr"].value > 0 => CountedSince(h, s["curr"].expiresAt - 2 * Window - MaxStall)
    /\ s["prev"].value > 0 => CountedSince(h, s["prev"].expiresAt - 4 * Window - 2 * MaxStall)

(* The locals l of a call at p. *)
LocalOK(p, l, h, n) ==
    /\ p \in PCs /\ l \in Locals
    /\ p # "idle" => l.now <= n /\ n <= l.now + MaxStall
    /\ p = "rotateGetCurr" => l.now - l.windowStart >= Window
    /\ (p = "rotatePrev" /\ l.next > 0) => CountedSince(h, l.now - 2 * Window - MaxStall)
    /\ (p = "getCurr" /\ l.prev > 0) => CountedSince(h, l.now - 4 * Window - 2 * MaxStall)

CountersOK ==
    /\ calls \in Nat
    /\ metrics \in [allow : Nat, deny : Nat]
    /\ last \in [made : BOOLEAN, allowed : BOOLEAN, retryAt : Nat]

IInv ==
    /\ cfg \in Configs /\ now \in Nat
    /\ pc \in [Threads -> PCs] /\ loc \in [Threads -> Locals]
    /\ HistoryOK(counted, now)
    /\ CellsOK(store, counted, now)
    /\ \A t \in Threads : LocalOK(pc[t], loc[t], counted, now)
    /\ CountersOK

-----------------------------------------------------------------------------
(* Arithmetic. *)

LEMMA DivBounds ==
  ASSUME NEW a \in Nat, NEW w \in Nat \ {0}
  PROVE  a \div w \in Nat /\ a % w \in 0..(w - 1)
  OBVIOUS

LEMMA ProductNat ==
  ASSUME NEW a \in Nat, NEW b \in Nat
  PROVE  a * b \in Nat
  OBVIOUS

LEMMA ProductPositive ==
  ASSUME NEW a \in Nat \ {0}, NEW b \in Nat \ {0}
  PROVE  a * b \in Nat \ {0}
  OBVIOUS

LEMMA Float64Nat ==
  ASSUME NEW x \in Nat, NEW g \in Nat \ {0}
  PROVE  Float64(x, g) \in Nat
  <1>1. x \div g \in Nat /\ x \div g + 1 \in Nat
    BY DivBounds
  <1>2. (x \div g) * g \in Nat /\ (x \div g + 1) * g \in Nat
    BY <1>1, ProductNat
  <1> QED
    BY <1>2 DEF Float64

LEMMA DivideUpNat ==
  ASSUME NEW a \in Nat, NEW b \in Nat \ {0}
  PROVE  DivideUp(a, b) \in Nat
  <1>1. (-a) \div b \in Int /\ (-a) \div b <= 0
    OBVIOUS
  <1> QED
    BY <1>1 DEF DivideUp

LEMMA Chosen ==
  ASSUME cfg \in Configs
  PROVE  /\ Limit \in Nat \ {0} /\ Window \in Nat \ {0} /\ Grain \in Nat \ {0} /\ MaxStall \in Nat
  BY ConfigsAssumption, EnvironmentAssumption DEF Limit, Window, Grain, MaxStall

(* What a denied call is told is no negative delay. *)
LEMMA RetryAfterNat ==
  ASSUME cfg \in Configs, NEW since \in Int, NEW prev \in Nat, NEW curr \in Nat
  PROVE  RetryAfter(since, prev, curr) \in Nat
  <1>1. Limit \in Nat \ {0} /\ Window \in Nat \ {0}
    BY Chosen
  <1>2. PICK u \in Nat : u = UntilBoundary(since)
    BY <1>1 DEF UntilBoundary, clampDuration
  <1>3. CASE curr >= Limit \/ prev = 0
    BY <1>2, <1>3 DEF RetryAfter
  <1>4. CASE ~(curr >= Limit \/ prev = 0)
    <2>1. PICK e \in Int : e = (prev - (Limit - curr)) * Window - since * prev
      BY <1>1
    <2>2. PICK x \in Nat : x = clampDuration(e)
      BY DEF clampDuration
    <2>3. PICK d \in Nat : d = DivideUp(x, prev)
      BY <1>4, DivideUpNat
    <2>4. RetryAfter(since, prev, curr)
            = LET atLeast == IF d = 0 THEN 1 ELSE d IN IF atLeast > u THEN u ELSE atLeast
      BY <1>2, <1>4, <2>1, <2>2, <2>3 DEF RetryAfter
    <2> QED
      BY <1>2, <2>3, <2>4
  <1> QED
    BY <1>3, <1>4

(* A call is denied only for a count it has read. *)
LEMMA DenialNeedsCount ==
  ASSUME cfg \in Configs, NEW since \in Int, NEW prev \in Nat, NEW curr \in Nat,
         NEW a \in Outcomes(since, prev, curr), ~a
  PROVE  prev > 0 \/ curr > 0
  <1> SUFFICES ASSUME prev = 0, curr = 0 PROVE FALSE
    OBVIOUS
  <1>1. Limit \in Nat \ {0} /\ Window \in Nat \ {0}
    BY Chosen
  <1>2. PICK c, b : c = SlidingCount(since, prev, curr) /\ b = Limit * Window
    OBVIOUS
  <1>3. c < b /\ c # b
    <2>1. c = 0
      BY <1>1, <1>2 DEF SlidingCount
    <2>2. b \in Nat \ {0}
      BY <1>1, <1>2, ProductPositive
    <2> QED
      BY <2>1, <2>2
  <1>4. a = (c < b) \/ c = b
    BY <1>2 DEF Outcomes
  <1> QED
    BY <1>3, <1>4

-----------------------------------------------------------------------------
(* The history of counted calls. *)

LEMMA SinceEarlier ==
  ASSUME NEW h \in Seq(Nat), NEW a \in Int, NEW b \in Int, b <= a, CountedSince(h, a)
  PROVE  CountedSince(h, b)
  <1>1. PICK i \in 1..Len(h) : h[i] >= a
    BY DEF CountedSince
  <1>2. h[i] \in Nat
    BY ElementOfSeq
  <1> QED
    BY <1>1, <1>2 DEF CountedSince

(* One more counted call. *)
LEMMA Appended ==
  ASSUME NEW n \in Nat, NEW h, HistoryOK(h, n), NEW v \in Nat, v <= n, NEW g, g = Append(h, v)
  PROVE  /\ HistoryOK(g, n) /\ CountedSince(g, v)
         /\ \A a \in Int : CountedSince(h, a) => CountedSince(g, a)
  <1>1. h \in Seq(Nat) /\ \A i \in 1..Len(h) : h[i] <= n
    BY DEF HistoryOK
  <1>2. /\ g \in Seq(Nat) /\ Len(g) = Len(h) + 1 /\ g[Len(g)] = v
        /\ \A i \in 1..Len(h) : g[i] = h[i]
    BY <1>1, AppendProperties
  <1>3. Len(h) \in Nat
    BY <1>1, LenProperties
  <1> QED
    BY <1>1, <1>2, <1>3 DEF HistoryOK, CountedSince

LEMMA CountedInNat ==
  ASSUME NEW a \in Int, NEW b \in Int, counted \in Seq(Nat)
  PROVE  CountedIn(a, b) \in Nat
  <1> DEFINE S == { j \in 1..Len(counted) : a <= counted[j] /\ counted[j] < b }
  <1>1. IsFiniteSet(1..Len(counted))
    BY LenProperties, FS_Interval
  <1>2. IsFiniteSet(S)
    BY <1>1, FS_Subset
  <1> QED
    BY <1>2, FS_CardinalityType DEF CountedIn

LEMMA CountedInPositive ==
  ASSUME NEW a \in Int, NEW b \in Int, counted \in Seq(Nat),
         NEW i \in 1..Len(counted), a <= counted[i], counted[i] < b
  PROVE  CountedIn(a, b) > 0
  <1> DEFINE S == { j \in 1..Len(counted) : a <= counted[j] /\ counted[j] < b }
  <1>1. Len(counted) \in Nat
    BY LenProperties
  <1>2. IsFiniteSet(1..Len(counted))
    BY <1>1, FS_Interval
  <1>3. IsFiniteSet(S)
    BY <1>2, FS_Subset
  <1>4. i \in S
    OBVIOUS
  <1>5. Cardinality(S) \in Nat /\ Cardinality(S) # 0
    BY <1>3, <1>4, FS_CardinalityType, FS_EmptySet
  <1> QED
    BY <1>5 DEF CountedIn

-----------------------------------------------------------------------------
LEMMA SameConfiguration ==
  ASSUME UNCHANGED cfg
  PROVE  Limit' = Limit /\ Window' = Window /\ Grain' = Grain /\ MaxStall' = MaxStall
  BY DEF Limit, Window, Grain, MaxStall

LEMMA Facts ==
  ASSUME IInv
  PROVE  /\ cfg \in Configs /\ now \in Nat /\ store \in [Fields -> Cells]
         /\ Limit \in Nat \ {0} /\ Window \in Nat \ {0} /\ Grain \in Nat \ {0} /\ MaxStall \in Nat
         /\ HistoryOK(counted, now) /\ counted \in Seq(Nat) /\ CellsOK(store, counted, now) /\ CountersOK
         /\ \A t \in Threads : LocalOK(pc[t], loc[t], counted, now) /\ loc[t] \in Locals
         /\ \A f \in Fields : Get(f) \in Nat
  <1>1. /\ cfg \in Configs /\ now \in Nat
        /\ HistoryOK(counted, now) /\ CellsOK(store, counted, now) /\ CountersOK
        /\ \A t \in Threads : LocalOK(pc[t], loc[t], counted, now) /\ loc[t] \in Locals
    BY DEF IInv
  <1>2. store \in [Fields -> Cells] /\ counted \in Seq(Nat)
    BY <1>1 DEF CellsOK, HistoryOK
  <1>3. \A f \in Fields : Get(f) \in Nat
    BY <1>2 DEF Get, Read, Cells
  <1> QED
    BY <1>1, <1>2, <1>3, Chosen

(* Other calls keep what they have when one moves. *)
LEMMA OthersKeep ==
  ASSUME IInv, NEW u \in Threads, NEW h, \A a \in Int : CountedSince(counted, a) => CountedSince(h, a)
  PROVE  LocalOK(pc[u], loc[u], h, now)
  <1>1. LocalOK(pc[u], loc[u], counted, now) /\ loc[u] \in Locals /\ Window \in Nat /\ MaxStall \in Nat
    BY Facts
  <1>2. loc[u].now - 2 * Window - MaxStall \in Int /\ loc[u].now - 4 * Window - 2 * MaxStall \in Int
    BY <1>1 DEF Locals
  <1> QED
    BY <1>1, <1>2 DEF LocalOK

(* The invariant after a step of one call. *)
LEMMA Moved ==
  ASSUME IInv, NEW t \in Threads, UNCHANGED <<cfg, now>>,
         NEW p, NEW l, pc' = [pc EXCEPT ![t] = p], loc' = [loc EXCEPT ![t] = l],
         NEW h, h = counted', HistoryOK(h, now),
         \A a \in Int : CountedSince(counted, a) => CountedSince(h, a),
         LocalOK(p, l, h, now), CellsOK(store', h, now), CountersOK'
  PROVE  IInv'
  <1>1. /\ cfg \in Configs /\ now \in Nat
        /\ pc \in [Threads -> PCs] /\ loc \in [Threads -> Locals]
    BY DEF IInv
  <1>2. p \in PCs /\ l \in Locals
    BY DEF LocalOK
  <1>3. /\ pc' \in [Threads -> PCs] /\ loc' \in [Threads -> Locals]
        /\ pc'[t] = p /\ loc'[t] = l
        /\ \A u \in Threads \ {t} : pc'[u] = pc[u] /\ loc'[u] = loc[u]
    BY <1>1, <1>2
  <1>4. ASSUME NEW u \in Threads PROVE LocalOK(pc'[u], loc'[u], h, now)
    <2>1. CASE u = t
      BY <1>3, <2>1
    <2>2. CASE u # t
      BY <1>3, <2>2, OthersKeep
    <2> QED
      BY <2>1, <2>2
  <1>5. \A u \in Threads : LocalOK(pc[u], loc[u], counted, now)'
    BY <1>4, SameConfiguration DEF LocalOK
  <1>6. CellsOK(store, counted, now)'
    BY SameConfiguration DEF CellsOK
  <1>7. HistoryOK(counted, now)'
    BY DEF HistoryOK
  <1> QED
    BY <1>1, <1>3, <1>5, <1>6, <1>7 DEF IInv

LEMMA CellsKept ==
  ASSUME IInv, NEW h, \A a \in Int : CountedSince(counted, a) => CountedSince(h, a)
  PROVE  CellsOK(store, h, now)
  <1>1. CellsOK(store, counted, now) /\ store \in [Fields -> Cells] /\ Window \in Nat /\ MaxStall \in Nat
    BY Facts
  <1>2. \A f \in Fields : /\ store[f].expiresAt - 2 * Window - MaxStall \in Int
                          /\ store[f].expiresAt - 4 * Window - 2 * MaxStall \in Int
    BY <1>1 DEF Cells
  <1> QED
    BY <1>1, <1>2 DEF CellsOK, Fields

LEMMA IdleOK ==
  ASSUME NEW h, NEW n
  PROVE  LocalOK("idle", IdleLocal, h, n)
  BY DEF LocalOK, IdleLocal, PCs, Locals

(* Where a call begins. *)
LEMMA Calling ==
  ASSUME IInv, NEW t \in Threads, Allow(t)
  PROVE  IInv'
  <1>1. /\ UNCHANGED <<cfg, now, store, metrics, counted, last>> /\ calls' = calls + 1
        /\ pc' = [pc EXCEPT ![t] = "getTs"]
    BY DEF Allow, Goto
  <1>2. PICK p : p = "getTs"
    OBVIOUS
  <1>3. PICK l : l = [loc[t] EXCEPT !.now = now]
    OBVIOUS
  <1>4. loc' = [loc EXCEPT ![t] = l]
    BY <1>3 DEF Allow
  <1>5. l \in Locals /\ l.now = now
    BY <1>3, Facts DEF Locals
  <1>6. LocalOK(p, l, counted, now)
    BY <1>2, <1>5, Facts DEF LocalOK, PCs, Gets
  <1>7. CountersOK'
    BY <1>1, Facts DEF CountersOK
  <1>8. PICK h : h = counted
    OBVIOUS
  <1>9. HistoryOK(h, now) /\ LocalOK(p, l, h, now) /\ CellsOK(store', h, now)
    BY <1>1, <1>6, <1>8, Facts
  <1> QED
    BY <1>1, <1>2, <1>4, <1>7, <1>8, <1>9, Moved

(* A step that reads, or moves on. *)
LEMMA MovedOn ==
  ASSUME IInv, NEW t \in Threads, UNCHANGED <<cfg, now, store, counted>>,
         NEW p, NEW l, pc' = [pc EXCEPT ![t] = p], loc' = [loc EXCEPT ![t] = l],
         LocalOK(p, l, counted, now), CountersOK'
  PROVE  IInv'
  <1>1. PICK h : h = counted
    OBVIOUS
  <1>2. HistoryOK(h, now) /\ LocalOK(p, l, h, now) /\ CellsOK(store', h, now)
    BY <1>1, Facts
  <1> QED
    BY <1>1, <1>2, Moved

(* What is alive was counted. *)
LEMMA LiveCounts ==
  ASSUME IInv
  PROVE  /\ Get("curr") > 0 => CountedSince(counted, now - 2 * Window - MaxStall)
         /\ Get("prev") > 0 => CountedSince(counted, now - 4 * Window - 2 * MaxStall)
  <1>1. /\ now \in Nat /\ Window \in Nat /\ MaxStall \in Nat /\ counted \in Seq(Nat)
        /\ store["curr"] \in Cells /\ store["prev"] \in Cells /\ CellsOK(store, counted, now)
    BY Facts DEF Fields
  <1>2. ASSUME Get("curr") > 0 PROVE CountedSince(counted, now - 2 * Window - MaxStall)
    <2>1. PICK e \in Nat : e = store["curr"].expiresAt
      BY <1>1 DEF Cells
    <2>2. e >= now /\ store["curr"].value > 0
      BY <1>2, <2>1 DEF Get, Read, Live
    <2>3. CountedSince(counted, e - 2 * Window - MaxStall)
      BY <1>1, <2>1, <2>2 DEF CellsOK
    <2>4. PICK a \in Int, b \in Int : a = e - 2 * Window - MaxStall /\ b = now - 2 * Window - MaxStall
      BY <1>1
    <2>5. b <= a
      BY <1>1, <2>2, <2>4
    <2> QED
      BY <1>1, <2>3, <2>4, <2>5, SinceEarlier
  <1>3. ASSUME Get("prev") > 0 PROVE CountedSince(counted, now - 4 * Window - 2 * MaxStall)
    <2>1. PICK e \in Nat : e = store["prev"].expiresAt
      BY <1>1 DEF Cells
    <2>2. e >= now /\ store["prev"].value > 0
      BY <1>3, <2>1 DEF Get, Read, Live
    <2>3. CountedSince(counted, e - 4 * Window - 2 * MaxStall)
      BY <1>1, <2>1, <2>2 DEF CellsOK
    <2>4. PICK a \in Int, b \in Int : a = e - 4 * Window - 2 * MaxStall /\ b = now - 4 * Window - 2 * MaxStall
      BY <1>1
    <2>5. b <= a
      BY <1>1, <2>2, <2>4
    <2> QED
      BY <1>1, <2>3, <2>4, <2>5, SinceEarlier
  <1> QED
    BY <1>2, <1>3

(* The same from the point of view of a call. *)
LEMMA LiveForCall ==
  ASSUME IInv, NEW t \in Threads, pc[t] # "idle"
  PROVE  /\ Get("curr") > 0 => CountedSince(counted, loc[t].now - 2 * Window - MaxStall)
         /\ Get("prev") > 0 => CountedSince(counted, loc[t].now - 4 * Window - 2 * MaxStall)
  <1>1. PICK n \in Nat : n = loc[t].now /\ n <= now
    BY Facts DEF LocalOK, Locals
  <1>2. now \in Nat /\ Window \in Nat /\ MaxStall \in Nat /\ counted \in Seq(Nat)
    BY Facts
  <1>3. /\ now - 2 * Window - MaxStall \in Int /\ n - 2 * Window - MaxStall \in Int
        /\ n - 2 * Window - MaxStall <= now - 2 * Window - MaxStall
        /\ now - 4 * Window - 2 * MaxStall \in Int /\ n - 4 * Window - 2 * MaxStall \in Int
        /\ n - 4 * Window - 2 * MaxStall <= now - 4 * Window - 2 * MaxStall
    <2>1. PICK w \in Nat, m \in Nat : w = Window /\ m = MaxStall
      BY <1>2
    <2>2. PICK k \in Nat : k = now
      BY <1>2
    <2>3. /\ k - 2 * w - m \in Int /\ n - 2 * w - m \in Int /\ n - 2 * w - m <= k - 2 * w - m
          /\ k - 4 * w - 2 * m \in Int /\ n - 4 * w - 2 * m \in Int
          /\ n - 4 * w - 2 * m <= k - 4 * w - 2 * m
      BY <1>1, <2>2
    <2> QED
      BY <2>1, <2>2, <2>3
  <1> QED
    BY <1>1, <1>2, <1>3, LiveCounts, SinceEarlier

LEMMA ReadingStart ==
  ASSUME IInv, NEW t \in Threads, GetTs(t)
  PROVE  IInv'
  <1>1. /\ UNCHANGED <<cfg, now, store, calls, metrics, counted, last>> /\ pc[t] = "getTs"
    BY DEF GetTs
  <1>2. CountersOK'
    BY <1>1, Facts DEF CountersOK
  <1>3. /\ loc[t] \in Locals /\ LocalOK(pc[t], loc[t], counted, now) /\ now \in Nat
        /\ Window \in Nat \ {0} /\ MaxStall \in Nat /\ Get("ts") \in Nat
    BY Facts DEF Fields
  <1>4. PICK ts \in Nat : ts = Get("ts")
    BY <1>3
  <1>5. PICK p, w :
          /\ p \in {"initTs", "rotateGetCurr", "getPrev"} /\ w \in {ts, loc[t].now}
          /\ p = "rotateGetCurr" => w = ts /\ loc[t].now - ts >= Window
          /\ pc' = [pc EXCEPT ![t] = p]
          /\ loc' = [loc EXCEPT ![t].windowStart = w]
    BY <1>4 DEF GetTs, Goto
  <1>6. PICK l : l = [loc[t] EXCEPT !.windowStart = w]
    OBVIOUS
  <1>7. w \in Nat
    BY <1>3, <1>4, <1>5 DEF Locals
  <1>8. l \in Locals /\ l.now = loc[t].now /\ l.windowStart = w
    BY <1>3, <1>6, <1>7 DEF Locals
  <1>9. loc' = [loc EXCEPT ![t] = l]
    BY <1>5, <1>6
  <1>10. l.now <= now /\ now <= l.now + MaxStall
    BY <1>1, <1>3, <1>8 DEF LocalOK
  <1>11. LocalOK(p, l, counted, now)
    BY <1>5, <1>8, <1>10 DEF LocalOK, PCs, Gets, Sets
  <1> QED
    BY <1>1, <1>2, <1>5, <1>9, <1>11, MovedOn

LEMMA Rotating ==
  ASSUME IInv, NEW t \in Threads, RotateGetCurr(t)
  PROVE  IInv'
  <1>1. /\ UNCHANGED <<cfg, now, store, calls, metrics, counted, last>> /\ pc[t] = "rotateGetCurr"
        /\ pc' = [pc EXCEPT ![t] = "rotatePrev"]
    BY DEF RotateGetCurr, Goto
  <1>2. CountersOK'
    BY <1>1, Facts DEF CountersOK
  <1>3. /\ loc[t] \in Locals /\ LocalOK(pc[t], loc[t], counted, now) /\ now \in Nat
        /\ Window \in Nat \ {0} /\ MaxStall \in Nat /\ Get("curr") \in Nat
    BY Facts DEF Fields
  <1>4. PICK e \in Nat : e = loc[t].now - loc[t].windowStart
    BY <1>1, <1>3 DEF LocalOK, Locals
  <1>5. PICK k \in Nat : k = e \div Window
    BY <1>3, DivBounds
  <1>6. PICK c \in Nat : c = IF k = 1 THEN Get("curr") ELSE 0
    BY <1>3
  <1>7. PICK w \in Nat : w = loc[t].windowStart + k * Window
    <2>1. k * Window \in Nat
      BY <1>3, ProductNat
    <2> QED
      BY <1>3, <2>1 DEF Locals
  <1>8. PICK m : m = [loc[t] EXCEPT !.next = c]
    OBVIOUS
  <1>9. PICK l : l = [m EXCEPT !.windowStart = w]
    OBVIOUS
  <1>10. l \in Locals /\ l.now = loc[t].now /\ l.next = c
    BY <1>3, <1>8, <1>9 DEF Locals
  <1>11. loc' = [loc EXCEPT ![t] = l]
    <2>1. loc' = [loc EXCEPT ![t].next = c, ![t].windowStart = w]
      BY <1>4, <1>5, <1>6, <1>7 DEF RotateGetCurr
    <2> QED
      BY <1>8, <1>9, <2>1 DEF IInv
  <1>12. c > 0 => CountedSince(counted, l.now - 2 * Window - MaxStall)
    BY <1>1, <1>6, <1>10, LiveForCall
  <1>13. PICK p : p = "rotatePrev"
    OBVIOUS
  <1>14. l.now <= now /\ now <= l.now + MaxStall
    BY <1>1, <1>3, <1>10 DEF LocalOK
  <1>15. LocalOK(p, l, counted, now)
    BY <1>10, <1>12, <1>13, <1>14 DEF LocalOK, PCs, Sets
  <1> QED
    BY <1>1, <1>2, <1>11, <1>13, <1>15, MovedOn

LEMMA ReadingPrev ==
  ASSUME IInv, NEW t \in Threads, GetPrev(t)
  PROVE  IInv'
  <1>1. /\ UNCHANGED <<cfg, now, store, calls, metrics, counted, last>> /\ pc[t] = "getPrev"
        /\ pc' = [pc EXCEPT ![t] = "getCurr"]
    BY DEF GetPrev, Goto
  <1>2. CountersOK'
    BY <1>1, Facts DEF CountersOK
  <1>3. /\ loc[t] \in Locals /\ LocalOK(pc[t], loc[t], counted, now) /\ Get("prev") \in Nat
    BY Facts DEF Fields
  <1>4. PICK l : l = [loc[t] EXCEPT !.prev = Get("prev")]
    OBVIOUS
  <1>5. l \in Locals /\ l.now = loc[t].now /\ l.prev = Get("prev")
    BY <1>3, <1>4 DEF Locals
  <1>6. loc' = [loc EXCEPT ![t] = l]
    BY <1>4 DEF GetPrev
  <1>7. l.prev > 0 => CountedSince(counted, l.now - 4 * Window - 2 * MaxStall)
    BY <1>1, <1>5, LiveForCall
  <1>8. PICK p : p = "getCurr"
    OBVIOUS
  <1>9. l.now <= now /\ now <= l.now + MaxStall
    BY <1>1, <1>3, <1>5 DEF LocalOK
  <1>10. LocalOK(p, l, counted, now)
    BY <1>5, <1>7, <1>8, <1>9 DEF LocalOK, PCs, Gets
  <1> QED
    BY <1>1, <1>2, <1>6, <1>8, <1>10, MovedOn

(* What a Set writes: only a rotation writes a count, one it has read. *)
LEMMA AccessOK ==
  ASSUME IInv, NEW t \in Threads, pc[t] \in Sets,
         NEW f, f = SetAccess(t)[1], NEW v, v = SetAccess(t)[2], NEW q, q = SetAccess(t)[3]
  PROVE  /\ f \in Fields /\ v \in Nat /\ (f = "curr" => v = 0)
         /\ (f = "prev" /\ v > 0) => CountedSince(counted, now - 2 * Window - 2 * MaxStall)
         /\ q \in {"initCurr", "initPrev", "getPrev", "rotateCurr", "rotateTs"}
  <1>1. /\ loc[t] \in Locals /\ LocalOK(pc[t], loc[t], counted, now) /\ now \in Nat
        /\ Window \in Nat /\ MaxStall \in Nat /\ counted \in Seq(Nat) /\ Grain \in Nat \ {0}
    BY Facts
  <1>2. PICK x \in Nat : x = Float64(loc[t].windowStart, Grain)
    BY <1>1, Float64Nat DEF Locals
  <1>3. CASE pc[t] \in {"initTs", "rotateTs"}
    <2>1. f = "ts" /\ v = x /\ q \in {"initCurr", "getPrev"}
      BY <1>2, <1>3 DEF SetAccess
    <2> QED
      BY <1>2, <2>1 DEF Fields
  <1>4. CASE pc[t] \in {"initCurr", "rotateCurr", "initPrev"}
    <2>1. f \in {"curr", "prev"} /\ v = 0 /\ q \in {"initPrev", "rotateTs", "getPrev"}
      BY <1>4 DEF SetAccess
    <2> QED
      BY <2>1 DEF Fields
  <1>5. CASE pc[t] = "rotatePrev"
    <2>1. f = "prev" /\ v = loc[t].next /\ q = "rotateCurr"
      BY <1>5 DEF SetAccess
    <2>2. v \in Nat /\ loc[t].now \in Nat /\ now <= loc[t].now + MaxStall
      BY <1>1, <1>5, <2>1 DEF Locals, LocalOK
    <2>3. ASSUME v > 0 PROVE CountedSince(counted, now - 2 * Window - 2 * MaxStall)
      <3>1. PICK a \in Int, b \in Int :
               a = loc[t].now - 2 * Window - MaxStall /\ b = now - 2 * Window - 2 * MaxStall
        BY <1>1, <2>2
      <3>2. CountedSince(counted, a)
        BY <1>1, <1>5, <2>1, <2>3, <3>1 DEF LocalOK
      <3>3. b <= a
        <4>1. PICK n \in Nat, m \in Nat, w \in Nat, k \in Nat :
                 n = now /\ m = loc[t].now /\ w = Window /\ k = MaxStall
          BY <1>1, <2>2
        <4>2. n <= m + k /\ a = m - 2 * w - k /\ b = n - 2 * w - 2 * k
          BY <2>2, <3>1, <4>1
        <4> QED
          BY <4>2
      <3> QED
        BY <1>1, <3>1, <3>2, <3>3, SinceEarlier
    <2> QED
      BY <2>1, <2>2, <2>3 DEF Fields
  <1> QED
    BY <1>3, <1>4, <1>5 DEF Sets

LEMMA WritingCells ==
  ASSUME IInv, NEW t \in Threads, pc[t] \in Sets, Write(SetAccess(t)[1], SetAccess(t)[2])
  PROVE  CellsOK(store', counted, now)
  <1>1. PICK f, v : f = SetAccess(t)[1] /\ v = SetAccess(t)[2]
    OBVIOUS
  <1>2. /\ f \in Fields /\ v \in Nat /\ (f = "curr" => v = 0)
        /\ (f = "prev" /\ v > 0) => CountedSince(counted, now - 2 * Window - 2 * MaxStall)
    BY <1>1, AccessOK
  <1>3. /\ now \in Nat /\ Window \in Nat /\ MaxStall \in Nat
        /\ CellsOK(store, counted, now) /\ store \in [Fields -> Cells]
    BY Facts
  <1>4. PICK x : x = Written(v, now, StateTTL)
    OBVIOUS
  <1>5. x \in Cells /\ x.value = v /\ x.expiresAt = now + 2 * Window
    BY <1>2, <1>3, <1>4 DEF Written, StateTTL, Cells
  <1>6. store' = [store EXCEPT ![f] = x]
    BY <1>1, <1>4 DEF Write
  <1>7. /\ store' \in [Fields -> Cells] /\ store'[f] = x
        /\ \A g \in Fields : g # f => store'[g] = store[g]
    BY <1>2, <1>3, <1>5, <1>6
  <1>8. x.expiresAt - 4 * Window - 2 * MaxStall = now - 2 * Window - 2 * MaxStall
    BY <1>3, <1>5
  <1>9. "curr" \in Fields /\ "prev" \in Fields
    BY DEF Fields
  <1>10. /\ store'["curr"].expiresAt <= now + 2 * Window
         /\ store'["curr"].value > 0 =>
              CountedSince(counted, store'["curr"].expiresAt - 2 * Window - MaxStall)
    <2>1. CASE f = "curr"
      BY <1>2, <1>3, <1>5, <1>7, <2>1
    <2>2. CASE f # "curr"
      BY <1>3, <1>7, <1>9, <2>2 DEF CellsOK
    <2> QED
      BY <2>1, <2>2
  <1>11. store'["prev"].value > 0 =>
           CountedSince(counted, store'["prev"].expiresAt - 4 * Window - 2 * MaxStall)
    <2>1. CASE f = "prev"
      BY <1>2, <1>5, <1>7, <1>8, <2>1
    <2>2. CASE f # "prev"
      BY <1>3, <1>7, <1>9, <2>2 DEF CellsOK
    <2> QED
      BY <2>1, <2>2
  <1> QED
    BY <1>7, <1>10, <1>11 DEF CellsOK

LEMMA Setting ==
  ASSUME IInv, NEW t \in Threads, Set(t)
  PROVE  IInv'
  <1>1. /\ UNCHANGED <<cfg, now, loc, calls, metrics, counted, last>> /\ pc[t] \in Sets
        /\ Write(SetAccess(t)[1], SetAccess(t)[2])
    BY DEF Set
  <1>2. PICK p : p = SetAccess(t)[3]
    OBVIOUS
  <1>3. pc' = [pc EXCEPT ![t] = p]
    BY <1>2 DEF Set, Goto
  <1>4. p \in {"initCurr", "initPrev", "getPrev", "rotateCurr", "rotateTs"}
    BY <1>1, <1>2, AccessOK
  <1>5. PICK h, l : h = counted /\ l = loc[t]
    OBVIOUS
  <1>6. loc' = [loc EXCEPT ![t] = l]
    BY <1>1, <1>5 DEF IInv
  <1>7. CellsOK(store', h, now) /\ HistoryOK(h, now)
    BY <1>1, <1>5, WritingCells, Facts
  <1>8. pc[t] # "idle" /\ LocalOK(pc[t], l, h, now)
    BY <1>1, <1>5, Facts DEF Sets
  <1>9. LocalOK(p, l, h, now)
    BY <1>4, <1>8 DEF LocalOK, PCs, Gets, Sets
  <1>10. CountersOK'
    BY <1>1, Facts DEF CountersOK
  <1> QED
    BY <1>1, <1>3, <1>5, <1>6, <1>7, <1>9, <1>10, Moved

LEMMA Deciding ==
  ASSUME IInv, NEW t \in Threads, GetCurr(t)
  PROVE  IInv'
  <1>1. UNCHANGED <<cfg, now, store, calls, counted>> /\ pc[t] = "getCurr"
    BY DEF GetCurr
  <1>2. /\ loc[t] \in Locals /\ LocalOK(pc[t], loc[t], counted, now) /\ now \in Nat
        /\ Get("curr") \in Nat /\ cfg \in Configs /\ CountersOK
    BY Facts DEF Fields
  <1>3. PICK c \in Nat, s \in Int, r \in Nat :
          c = Get("curr") /\ s = loc[t].now - loc[t].windowStart /\ r = loc[t].prev
    BY <1>2 DEF Locals
  <1>4. PICK a \in Outcomes(s, r, c) :
         \/ /\ a
            /\ loc' = [loc EXCEPT ![t].curr = c]
            /\ Goto(t, "incr")
            /\ UNCHANGED <<metrics, last>>
         \/ /\ ~a
            /\ metrics' = [metrics EXCEPT !.deny = @ + 1]
            /\ last' = [made |-> TRUE, allowed |-> FALSE, retryAt |-> RetryAt(loc[t].now + RetryAfter(s, r, c))]
            /\ Return(t)
    BY <1>3 DEF GetCurr
  <1>5. CASE a
    <2>1. PICK l : l = [loc[t] EXCEPT !.curr = c]
      OBVIOUS
    <2>2. loc' = [loc EXCEPT ![t] = l]
      BY <1>4, <1>5, <2>1
    <2>3. l \in Locals /\ l.now = loc[t].now
      BY <1>2, <1>3, <2>1 DEF Locals
    <2>4. PICK p : p = "incr" /\ pc' = [pc EXCEPT ![t] = p]
      BY <1>4, <1>5 DEF Goto
    <2>5. LocalOK(p, l, counted, now)
      BY <1>1, <1>2, <2>3, <2>4 DEF LocalOK, PCs
    <2>6. CountersOK'
      BY <1>1, <1>2, <1>4, <1>5 DEF CountersOK
    <2> QED
      BY <1>1, <2>2, <2>4, <2>5, <2>6, MovedOn
  <1>6. CASE ~a
    <2>1. PICK p, l : p = "idle" /\ l = IdleLocal /\ pc' = [pc EXCEPT ![t] = p] /\ loc' = [loc EXCEPT ![t] = l]
      BY <1>4, <1>6 DEF Return, Goto
    <2>2. LocalOK(p, l, counted, now)
      BY <2>1, IdleOK
    <2>3. PICK at \in Nat : at = loc[t].now + RetryAfter(s, r, c)
      <3>1. RetryAfter(s, r, c) \in Nat
        BY <1>2, RetryAfterNat
      <3> QED
        BY <1>2, <3>1 DEF Locals
    <2>4. PICK e \in Nat : e = RetryAt(at)
      BY <1>2, <2>3 DEF RetryAt, CountersOK
    <2>5. PICK y \in BOOLEAN, z \in BOOLEAN : y = TRUE /\ z = FALSE
      OBVIOUS
    <2>6. last' = [made |-> y, allowed |-> z, retryAt |-> e]
      BY <1>4, <1>6, <2>3, <2>4, <2>5
    <2>7. last' \in [made : BOOLEAN, allowed : BOOLEAN, retryAt : Nat]
      BY <2>6
    <2>8. metrics' \in [allow : Nat, deny : Nat] /\ calls' \in Nat
      BY <1>1, <1>2, <1>4, <1>6 DEF CountersOK
    <2>9. CountersOK'
      BY <2>7, <2>8 DEF CountersOK
    <2> QED
      BY <1>1, <2>1, <2>2, <2>9, MovedOn
  <1> QED
    BY <1>5, <1>6

(* The Incr of a call that read the clock a stall ago at most. *)
LEMMA Counting ==
  ASSUME IInv, NEW t \in Threads, pc[t] # "idle", Increment(t), NEW h, h = counted'
  PROVE  /\ HistoryOK(h, now) /\ CellsOK(store', h, now)
         /\ \A a \in Int : CountedSince(counted, a) => CountedSince(h, a)
  <1>1. /\ now \in Nat /\ Window \in Nat /\ MaxStall \in Nat /\ store \in [Fields -> Cells]
        /\ HistoryOK(counted, now) /\ counted \in Seq(Nat)
        /\ LocalOK(pc[t], loc[t], counted, now) /\ loc[t] \in Locals
    BY Facts
  <1>2. PICK v \in Nat : v = loc[t].now /\ v <= now /\ now <= v + MaxStall
    BY <1>1 DEF LocalOK, Locals
  <1>3. h = Append(counted, v)
    BY <1>2 DEF Increment
  <1>4. /\ HistoryOK(h, now) /\ CountedSince(h, v)
        /\ \A a \in Int : CountedSince(counted, a) => CountedSince(h, a)
    <2>1. PICK n, g : n \in Nat /\ n = now /\ g = counted
      BY <1>1
    <2>2. HistoryOK(g, n) /\ v <= n /\ h = Append(g, v)
      BY <1>1, <1>2, <1>3, <2>1
    <2>3. /\ HistoryOK(h, n) /\ CountedSince(h, v)
          /\ \A a \in Int : CountedSince(g, a) => CountedSince(h, a)
      BY <2>1, <2>2, Appended
    <2> QED
      BY <2>1, <2>3
  <1>5. CellsOK(store, h, now)
    BY <1>4, CellsKept
  <1>6. PICK old : old = store["curr"]
    OBVIOUS
  <1>7. old \in Cells /\ old.expiresAt <= now + 2 * Window
    BY <1>1, <1>5, <1>6 DEF CellsOK, Fields
  <1>8. PICK x : x = Incremented(old, now, StateTTL, FALSE)
    OBVIOUS
  <1>9. x \in Cells /\ x.expiresAt \in {old.expiresAt, now + 2 * Window}
    BY <1>1, <1>7, <1>8 DEF Incremented, Written, StateTTL, Cells
  <1>10. store' = [store EXCEPT !["curr"] = x]
    BY <1>6, <1>8 DEF Increment
  <1>11. /\ store' \in [Fields -> Cells] /\ store'["curr"] = x /\ store'["prev"] = store["prev"]
    BY <1>1, <1>9, <1>10 DEF Fields
  <1>12. PICK e \in Nat : e = x.expiresAt /\ e <= now + 2 * Window
    BY <1>1, <1>7, <1>9 DEF Cells
  <1>13. PICK b \in Int : b = e - 2 * Window - MaxStall
    BY <1>1
  <1>14. b <= v
    <2>1. PICK n \in Nat, w \in Nat, k \in Nat : n = now /\ w = Window /\ k = MaxStall
      BY <1>1
    <2>2. e <= n + 2 * w /\ n <= v + k /\ b = e - 2 * w - k
      BY <1>2, <1>12, <1>13, <2>1
    <2> QED
      BY <2>2
  <1>15. CountedSince(h, b)
    <2>1. h \in Seq(Nat)
      BY <1>4 DEF HistoryOK
    <2> QED
      BY <1>4, <1>14, <2>1, SinceEarlier
  <1>16. CellsOK(store', h, now)
    BY <1>5, <1>11, <1>12, <1>13, <1>15 DEF CellsOK
  <1> QED
    BY <1>4, <1>16

(* The end of a call, whatever it has done to the store. *)
LEMMA Returning ==
  ASSUME IInv, NEW t \in Threads, Return(t), UNCHANGED <<cfg, now>>,
         NEW h, h = counted', HistoryOK(h, now), CellsOK(store', h, now),
         \A a \in Int : CountedSince(counted, a) => CountedSince(h, a), CountersOK'
  PROVE  IInv'
  <1>1. PICK p, l : p = "idle" /\ l = IdleLocal /\ pc' = [pc EXCEPT ![t] = p] /\ loc' = [loc EXCEPT ![t] = l]
    BY DEF Return, Goto
  <1>2. LocalOK(p, l, h, now)
    BY <1>1, IdleOK
  <1> QED
    BY <1>1, <1>2, Moved

LEMMA Incrementing ==
  ASSUME IInv, NEW t \in Threads, Incr(t)
  PROVE  IInv'
  <1>1. /\ UNCHANGED <<cfg, now, calls>> /\ pc[t] = "incr" /\ Increment(t) /\ Return(t)
        /\ metrics' = [metrics EXCEPT !.allow = @ + 1]
        /\ last' = [made |-> TRUE, allowed |-> TRUE, retryAt |-> 0]
    BY DEF Incr
  <1>2. CountersOK'
    <2>1. last' \in [made : BOOLEAN, allowed : BOOLEAN, retryAt : Nat]
      BY <1>1
    <2>2. metrics' \in [allow : Nat, deny : Nat] /\ calls' \in Nat
      <3>1. metrics \in [allow : Nat, deny : Nat] /\ calls \in Nat
        BY Facts DEF CountersOK
      <3> QED
        BY <1>1, <3>1
    <2> QED
      BY <2>1, <2>2 DEF CountersOK
  <1>3. PICK h : h = counted'
    OBVIOUS
  <1>4. /\ HistoryOK(h, now) /\ CellsOK(store', h, now)
        /\ \A a \in Int : CountedSince(counted, a) => CountedSince(h, a)
    BY <1>1, <1>3, Counting
  <1> QED
    BY <1>1, <1>2, <1>3, <1>4, Returning

LEMMA Failing ==
  ASSUME IInv, NEW t \in Threads, StoreError(t)
  PROVE  IInv'
  <1>1. /\ pc[t] # "idle" /\ UNCHANGED <<cfg, now, calls>> /\ Return(t)
        /\ \/ UNCHANGED <<store, counted>>
           \/ pc[t] \in Sets /\ Write(SetAccess(t)[1], SetAccess(t)[2]) /\ UNCHANGED counted
           \/ pc[t] = "incr" /\ Increment(t)
    BY DEF StoreError
  <1>2. CountersOK'
    <2>1. last' \in [made : BOOLEAN, allowed : BOOLEAN, retryAt : Nat]
      BY DEF StoreError, NoDecision
    <2>2. calls' \in Nat /\ metrics \in [allow : Nat, deny : Nat]
      BY <1>1, Facts DEF CountersOK
    <2>3. metrics' = IF FailOpen THEN [metrics EXCEPT !.allow = @ + 1] ELSE metrics
      BY DEF StoreError
    <2>4. metrics' \in [allow : Nat, deny : Nat]
      BY <2>2, <2>3
    <2> QED
      BY <2>1, <2>2, <2>4 DEF CountersOK
  <1>3. PICK h : h = counted'
    OBVIOUS
  <1>4. /\ HistoryOK(h, now) /\ CellsOK(store', h, now)
        /\ \A a \in Int : CountedSince(counted, a) => CountedSince(h, a)
    <2>1. CASE UNCHANGED <<store, counted>>
      BY <1>3, <2>1, Facts
    <2>2. CASE pc[t] \in Sets /\ Write(SetAccess(t)[1], SetAccess(t)[2]) /\ UNCHANGED counted
      BY <1>3, <2>2, Facts, WritingCells
    <2>3. CASE pc[t] = "incr" /\ Increment(t)
      BY <1>3, <2>3, Counting
    <2> QED
      BY <1>1, <2>1, <2>2, <2>3
  <1> QED
    BY <1>1, <1>2, <1>3, <1>4, Returning

LEMMA Passing ==
  ASSUME IInv, Tick
  PROVE  IInv'
  <1>1. /\ UNCHANGED <<cfg, store, pc, loc, calls, metrics, counted, last>> /\ now' = now + 1
        /\ \A t \in Threads : pc[t] # "idle" => now < loc[t].now + MaxStall
    BY DEF Tick
  <1>2. now \in Nat /\ Window \in Nat /\ MaxStall \in Nat /\ HistoryOK(counted, now) /\ CountersOK
    BY Facts
  <1>3. PICK n \in Nat : n = now' /\ n = now + 1
    BY <1>1, <1>2
  <1>4. HistoryOK(counted, n)
    <2>1. \A i \in 1..Len(counted) : counted[i] \in Nat /\ counted[i] <= now
      BY <1>2, ElementOfSeq DEF HistoryOK
    <2> QED
      BY <1>2, <1>3, <2>1 DEF HistoryOK
  <1>5. CellsOK(store, counted, n)
    <2>1. CellsOK(store, counted, now) /\ store["curr"].expiresAt \in Nat
      BY Facts DEF Cells, Fields
    <2> QED
      BY <1>2, <1>3, <2>1 DEF CellsOK
  <1>6. ASSUME NEW t \in Threads PROVE LocalOK(pc[t], loc[t], counted, n)
    <2>1. LocalOK(pc[t], loc[t], counted, now) /\ loc[t].now \in Nat
      BY Facts DEF Locals
    <2>2. pc[t] # "idle" => loc[t].now <= n /\ n <= loc[t].now + MaxStall
      BY <1>1, <1>2, <1>3, <2>1 DEF LocalOK
    <2> QED
      BY <2>1, <2>2 DEF LocalOK
  <1>7. \A t \in Threads : LocalOK(pc[t], loc[t], counted, now)'
    BY <1>1, <1>3, <1>6, SameConfiguration DEF LocalOK
  <1>8. CellsOK(store, counted, now)'
    BY <1>1, <1>3, <1>5, SameConfiguration DEF CellsOK
  <1>9. HistoryOK(counted, now)'
    BY <1>1, <1>3, <1>4 DEF HistoryOK
  <1>10. CountersOK'
    BY <1>1, <1>2 DEF CountersOK
  <1> QED
    BY <1>1, <1>3, <1>7, <1>8, <1>9, <1>10 DEF IInv

LEMMA Stuttering ==
  ASSUME IInv, UNCHANGED vars
  PROVE  IInv'
  <1>1. UNCHANGED <<cfg, now, store, pc, loc, calls, metrics, counted, last>>
    BY DEF vars
  <1>2. \A t \in Threads : LocalOK(pc[t], loc[t], counted, now)'
    BY <1>1, SameConfiguration DEF IInv, LocalOK
  <1>3. CellsOK(store, counted, now)' /\ HistoryOK(counted, now)' /\ CountersOK'
    BY <1>1, SameConfiguration DEF IInv, CellsOK, HistoryOK, CountersOK
  <1> QED
    BY <1>1, <1>2, <1>3 DEF IInv

LEMMA InitHolds == Init => IInv
  <1> SUFFICES ASSUME Init PROVE IInv
    OBVIOUS
  <1>1. cfg \in Configs
    BY DEF Init
  <1>2. Window \in Nat /\ MaxStall \in Nat /\ Grain \in Nat
    BY <1>1, Chosen
  <1>3. PICK l : l = IdleLocal /\ loc = [t \in Threads |-> l]
    BY DEF Init
  <1>4. l \in Locals
    BY <1>3 DEF IdleLocal, Locals
  <1>5. pc \in [Threads -> PCs] /\ loc \in [Threads -> Locals] /\ now \in Nat
    BY <1>2, <1>3, <1>4 DEF Init, PCs
  <1>6. HistoryOK(counted, now)
    BY DEF Init, HistoryOK
  <1>7. CellsOK(store, counted, now)
    <2>1. PICK x : x = EmptyCell /\ store = [f \in Fields |-> x]
      BY DEF Init
    <2>2. x \in Cells /\ x.value = 0 /\ x.expiresAt = 0
      BY <2>1 DEF EmptyCell, Cells
    <2> QED
      BY <1>2, <1>5, <2>1, <2>2 DEF CellsOK, Fields
  <1>8. \A t \in Threads : LocalOK(pc[t], loc[t], counted, now)
    <2>1. \A t \in Threads : pc[t] = "idle" /\ loc[t] = IdleLocal
      BY <1>3 DEF Init
    <2> QED
      BY <2>1, IdleOK
  <1>9. CountersOK
    BY DEF Init, CountersOK, NoDecision
  <1> QED
    BY <1>1, <1>5, <1>6, <1>7, <1>8, <1>9 DEF IInv

LEMMA StepKeeps == IInv /\ [Next]_vars => IInv'
  <1> SUFFICES ASSUME IInv, [Next]_vars PROVE IInv'
    OBVIOUS
  <1>1. ASSUME NEW t \in Threads, Allow(t) PROVE IInv'
    BY <1>1, Calling
  <1>2. ASSUME NEW t \in Threads, Step(t) PROVE IInv'
    BY <1>2, ReadingStart, Rotating, Setting, ReadingPrev, Deciding, Incrementing, Failing DEF Step
  <1>3. CASE Tick
    BY <1>3, Passing
  <1>4. CASE UNCHANGED vars
    BY <1>4, Stuttering
  <1> QED
    BY <1>1, <1>2, <1>3, <1>4 DEF Next

-----------------------------------------------------------------------------
(* Every count alive in the store or read by a call goes back to a counted *)
(* call, and the times of both differ by windows and stalls that are known *)
(* (sliding_window.go:62-143).                                             *)
THEOREM InductiveInvariant == Spec => []IInv
  BY InitHolds, StepKeeps, PTL DEF Spec

(* However calls interleave and fail, counts and window starts stay        *)
(* natural numbers, and no announced delay is negative                     *)
(* (sliding_window.go:62-190).                                             *)
THEOREM TypeCorrect == Spec => []TypeOK
  <1>1. IInv => TypeOK
    BY DEF IInv, TypeOK, CellsOK, HistoryOK, CountersOK, Cells, Locals
  <1> QED
    BY <1>1, InductiveInvariant, PTL

LEMMA DenialIsDecision ==
  ASSUME IInv, NEW t \in Threads, Denied(t), NEW u \in Threads, Allow(u) \/ Step(u)
  PROVE  GetCurr(t)
  <1>1. /\ metrics'.deny # metrics.deny /\ pc[t] = "getCurr" /\ pc'[t] = "idle"
    BY DEF Denied
  <1>2. GetCurr(u)
    BY <1>1, Facts DEF Step, Allow, GetTs, RotateGetCurr, Set, GetPrev, Incr, StoreError, CountersOK
  <1>3. u = t
    BY <1>1, <1>2 DEF GetCurr, Goto, Return, IInv
  <1> QED
    BY <1>2, <1>3

(* A denial by a call is its decision, on counts that it has read. *)
LEMMA DenialDecides ==
  ASSUME IInv, NEW t \in Threads, Denied(t), NEW u \in Threads, Allow(u) \/ Step(u)
  PROVE  CountedIn(loc[t].now - 4 * Window - 2 * MaxStall, loc[t].now + MaxStall + 1) > 0
  <1>1. /\ metrics'.deny # metrics.deny /\ pc[t] = "getCurr" /\ pc'[t] = "idle"
    BY DEF Denied
  <1>2. GetCurr(t)
    BY DenialIsDecision
  <1>4. /\ loc[t] \in Locals /\ LocalOK(pc[t], loc[t], counted, now) /\ now \in Nat
        /\ Get("curr") \in Nat /\ cfg \in Configs /\ Window \in Nat /\ MaxStall \in Nat
        /\ counted \in Seq(Nat) /\ HistoryOK(counted, now)
    BY Facts DEF Fields
  <1>5. PICK c \in Nat, s \in Int, r \in Nat :
          c = Get("curr") /\ s = loc[t].now - loc[t].windowStart /\ r = loc[t].prev
    BY <1>4 DEF Locals
  <1>6. PICK a \in Outcomes(s, r, c) : a => UNCHANGED metrics
    BY <1>2, <1>5 DEF GetCurr
  <1>7. r > 0 \/ c > 0
    BY <1>1, <1>4, <1>6, DenialNeedsCount
  <1>8. PICK n \in Nat, k \in Nat, w \in Nat, m \in Nat :
          /\ n = loc[t].now /\ k = now /\ w = Window /\ m = MaxStall
          /\ n <= k /\ k <= n + m
    BY <1>1, <1>4 DEF Locals, LocalOK
  <1>9. PICK x \in Int, y \in Int, z \in Int :
          x = n - 4 * w - 2 * m /\ y = n - 2 * w - m /\ z = n + m + 1
    BY <1>8
  <1>10. x <= y
    BY <1>8, <1>9
  <1>11. CountedSince(counted, x)
    <2>1. r > 0 => CountedSince(counted, x)
      BY <1>1, <1>4, <1>5, <1>8, <1>9 DEF LocalOK
    <2>2. c > 0 => CountedSince(counted, y)
      BY <1>1, <1>5, <1>8, <1>9, LiveForCall
    <2> QED
      BY <1>4, <1>7, <1>10, <2>1, <2>2, SinceEarlier
  <1>12. PICK i \in 1..Len(counted) : counted[i] >= x
    BY <1>11 DEF CountedSince
  <1>13. counted[i] \in Nat /\ counted[i] <= now
    BY <1>4, ElementOfSeq DEF HistoryOK
  <1>14. x <= counted[i] /\ counted[i] < z
    <2>1. PICK v \in Nat : v = counted[i] /\ v >= x /\ v <= k
      BY <1>8, <1>12, <1>13
    <2>2. k < z
      <3>1. k \in Nat /\ n \in Nat /\ m \in Nat /\ k <= n + m
        BY <1>8
      <3>2. z = n + m + 1
        BY <1>9
      <3> QED
        BY <3>1, <3>2
    <2>3. x <= v /\ v < z
      BY <2>1, <2>2
    <2> QED
      BY <2>1, <2>3
  <1>15. CountedIn(x, z) > 0
    BY <1>4, <1>14, CountedInPositive
  <1> QED
    BY <1>8, <1>9, <1>15

(* With any number of goroutines racing through initialisation and         *)
(* rotation, and calls that fail anywhere in them, a count outlives the    *)
(* call that made it by four windows at most, and a few stalls: no key     *)
(* stays denied without being used (sliding_window.go:66-137).             *)
THEOREM StaleCountsAreForgotten == Spec => StaleCountsForgotten
  <1> DEFINE A == \A t \in Threads :
                    Denied(t) => CountedIn(loc[t].now - 4 * Window - 2 * MaxStall,
                                           loc[t].now + MaxStall + 1) > 0
  <1>1. ASSUME IInv, [Next]_vars PROVE [A]_vars
    <2> SUFFICES ASSUME NEW t \in Threads, Denied(t)
                 PROVE  CountedIn(loc[t].now - 4 * Window - 2 * MaxStall, loc[t].now + MaxStall + 1) > 0
      OBVIOUS
    <2>1. ASSUME NEW u \in Threads, Allow(u) \/ Step(u)
          PROVE  CountedIn(loc[t].now - 4 * Window - 2 * MaxStall, loc[t].now + MaxStall + 1) > 0
      BY <1>1, <2>1, DenialDecides
    <2>2. ~(Tick \/ UNCHANGED vars)
      BY DEF Denied, Tick, vars
    <2> QED
      BY <1>1, <2>1, <2>2 DEF Next
  <1>2. Spec => [][A]_vars
    BY <1>1, InductiveInvariant, PTL DEF Spec
  <1> QED
    BY <1>2 DEF StaleCountsForgotten

-----------------------------------------------------------------------------
(* The newest c calls of h are those of the window that starts at start,   *)
(* the p before them those of the window before it, as a call at time m    *)
(* finds them: calls of the window before are missing only if they came    *)
(* early in it, or if the rotation came late in this one.                  *)
Windows(h, start, c, p, m) ==
    /\ c \in 0..Limit /\ p \in 0..Limit /\ c + p <= Len(h)
    /\ \A i \in 1..Len(h) : h[i] < start + Window + Drift
    /\ \A i \in 1..Len(h) : i > Len(h) - c => h[i] >= start - Drift
    /\ \A i \in 1..Len(h) : i <= Len(h) - c => h[i] < start + 2 * Drift
    /\ \A i \in 1..Len(h) : i > Len(h) - c - p => h[i] >= start - Window - 2 * Drift
    /\ \A i \in 1..Len(h) : i <= Len(h) - c - p =>
          \/ h[i] < start - Window + Blur + Late
          \/ p = 0 /\ m >= start + Window - 2 * Drift - Late

(* A call at time m opens a window at start, and carries over p calls. *)
Opened(h, start, p, m) ==
    /\ Grain <= start /\ start <= m /\ m < start + Window
    /\ p \in 0..Limit /\ p <= Len(h)
    /\ \A i \in 1..Len(h) : h[i] < start + Drift
    /\ \A i \in 1..Len(h) : i > Len(h) - p => h[i] >= start - Window - Drift
    /\ \A i \in 1..Len(h) : i <= Len(h) - p =>
          \/ h[i] < start - Window + 2 * Drift + Late
          \/ p = 0 /\ m >= start + Window - Drift - Late

Lasting(cell, start) == cell.expiresAt >= start + 2 * Window

(* The three keys as a call at time m finds them. *)
Kept(s, h, m) ==
    LET start == s["ts"].value IN
    IF start = 0 THEN h = << >>
    ELSE /\ Grain <= start /\ start <= m + Drift
         /\ \A f \in Fields : Lasting(s[f], start - Drift)
         /\ Windows(h, start, s["curr"].value, s["prev"].value, m)

StartSet(s, l) == s["ts"].value = Float64(l.windowStart, Grain) /\ Lasting(s["ts"], l.windowStart)
CurrSet(s, l)  == s["curr"].value = 0 /\ Lasting(s["curr"], l.windowStart)
PrevSet(s, l)  == s["prev"].value = l.next /\ Lasting(s["prev"], l.windowStart)

(* The window of a call that has found or opened it. *)
Entered(l, s, h) ==
    LET start == s["ts"].value IN
    /\ start # 0 /\ Kept(s, h, l.now)
    /\ start - Drift <= l.windowStart /\ l.windowStart <= start + Drift
    /\ l.windowStart <= l.now + Drift /\ l.now < l.windowStart + Window

(* The counts let a call through that comes s after the start of the window. *)
LetsThrough(s, p, c) == SlidingCount(s, p, c) <= Limit * Window

(* What the only call under way knows. *)
CallOK(p, l, s, h) ==
    /\ Grain <= l.now /\ \A i \in 1..Len(h) : h[i] <= l.now
    /\ p = "getTs" => Kept(s, h, l.now)
    /\ p \in {"initTs", "initCurr", "initPrev"} => Opened(h, l.windowStart, 0, l.now)
    /\ p \in {"rotatePrev", "rotateCurr", "rotateTs"} => Opened(h, l.windowStart, l.next, l.now)
    /\ p \in {"initCurr", "initPrev"} => StartSet(s, l)
    /\ p \in {"initPrev", "rotateTs"} => CurrSet(s, l)
    /\ p \in {"rotateCurr", "rotateTs"} => PrevSet(s, l)
    /\ p = "rotateGetCurr" =>
          /\ Kept(s, h, l.now) /\ s["ts"].value # 0
          /\ l.windowStart = s["ts"].value /\ l.windowStart + Window <= l.now
    /\ p \in {"getPrev", "getCurr", "incr"} => Entered(l, s, h)
    /\ p \in {"getCurr", "incr"} => l.prev = s["prev"].value
    /\ p = "incr" =>
          /\ l.curr = s["curr"].value /\ l.curr < Limit
          /\ LetsThrough(l.now - l.windowStart, l.prev, l.curr)

(* The calls i to j lie in an interval shorter than a window; n calls in   *)
(* one of length d are no more than the estimate lets through.             *)
Near(h, i, j) == i <= j /\ h[j] - h[i] <= Window - 2 * Blur - Late
Within(n, d)  == n <= 2 * Limit /\ (n - Limit - 1) * Window <= Limit * (d + Blur)
Rolling(h)    == \A i, j \in 1..Len(h) : Near(h, i, j) => Within(j - i + 1, h[j] - h[i])

(* Calls that come one after the other, and what they leave. *)
Orderly == Undisturbed /\ Prompt

NoCall == \A t \in Threads : pc[t] = "idle"

OneCall ==
    \A t \in Threads : pc[t] # "idle" =>
        /\ \A u \in Threads : u # t => pc[u] = "idle"
        /\ CallOK(pc[t], loc[t], store, counted)

SBody ==
    /\ Grain <= now
    /\ Rolling(counted)
    /\ NoCall => Kept(store, counted, now)
    /\ OneCall

SInv == Orderly => SBody

LEMMA Sizes ==
  ASSUME cfg \in Configs
  PROVE  /\ Limit \in Nat \ {0} /\ Window \in Nat \ {0} /\ Grain \in Nat \ {0} /\ MaxStall \in Nat
         /\ Drift \in Nat /\ Blur \in Nat /\ Blur = 3 * Drift
         /\ Late \in Nat /\ Late <= MaxStall /\ MaxStall <= Late + 1
  <1>1. Grain \in Nat \ {0} /\ MaxStall \in Nat
    BY Chosen
  <1>2. PICK d \in Nat : d = Drift
    BY <1>1, DivBounds DEF Drift
  <1>3. Late \in Nat /\ Late <= MaxStall /\ MaxStall <= Late + 1
    BY <1>1 DEF Late
  <1> QED
    BY <1>2, <1>3, Chosen DEF Blur

(* float64 moves a time by half the spacing of its values at most. *)
LEMMA Float64Near ==
  ASSUME NEW x \in Nat, NEW g \in Nat \ {0}, g <= x
  PROVE  /\ Float64(x, g) \in Nat /\ g <= Float64(x, g)
         /\ x - g \div 2 <= Float64(x, g) /\ Float64(x, g) <= x + g \div 2
  <1>1. PICK q \in Nat : q = x \div g
    BY DivBounds
  <1>2. PICK r \in 0..(g - 1) : r = x % g
    BY DivBounds
  <1>3. PICK z \in Nat : z = q * g
    BY <1>1, ProductNat
  <1>4. x = z + r
    BY <1>1, <1>2, <1>3
  <1>5. g <= z
    <2>1. q # 0
      BY <1>2, <1>3, <1>4
    <2>2. PICK y \in Nat : y + 1 = q
      BY <2>1
    <2>3. PICK u \in Nat : u = y * g
      BY <2>2, ProductNat
    <2>4. z = u + g
      BY <1>3, <2>2, <2>3
    <2> QED
      BY <2>3, <2>4
  <1>6. (q + 1) * g = z + g
    BY <1>1, <1>3
  <1>7. Float64(x, g) = IF 2 * r < g \/ (2 * r = g /\ q % 2 = 0) THEN z ELSE z + g
    BY <1>1, <1>2, <1>3, <1>6 DEF Float64
  <1>8. PICK f : f = Float64(x, g)
    OBVIOUS
  <1>9. PICK hg \in Nat : hg = g \div 2 /\ 2 * hg <= g /\ g <= 2 * hg + 1
    <2>1. g \div 2 \in Nat /\ 2 * (g \div 2) <= g /\ g <= 2 * (g \div 2) + 1
      OBVIOUS
    <2> QED
      BY <2>1
  <1>10. CASE 2 * r <= g /\ f = z
    BY <1>2, <1>3, <1>4, <1>5, <1>8, <1>9, <1>10
  <1>11. CASE 2 * r >= g /\ f = z + g
    BY <1>2, <1>3, <1>4, <1>5, <1>8, <1>9, <1>11
  <1>12. \/ 2 * r <= g /\ f = z
         \/ 2 * r >= g /\ f = z + g
    BY <1>2, <1>7, <1>8
  <1> QED
    BY <1>10, <1>11, <1>12

(* A rotation by the whole windows that have passed. *)
LEMMA RotatedStart ==
  ASSUME NEW e \in Nat, NEW w \in Nat \ {0}, w <= e, NEW k, k = e \div w
  PROVE  /\ k \in Nat /\ k >= 1 /\ k * w \in Nat /\ k * w <= e /\ e < k * w + w
         /\ k = 1 => k * w = w
         /\ k # 1 => k * w >= 2 * w
  <1>1. k \in Nat
    BY DivBounds
  <1>2. PICK r \in 0..(w - 1) : r = e % w
    BY DivBounds
  <1>3. PICK z \in Nat : z = k * w
    BY <1>1, ProductNat
  <1>4. e = z + r
    BY <1>2, <1>3
  <1>5. k # 0
    <2> SUFFICES ASSUME k = 0 PROVE FALSE
      OBVIOUS
    <2>1. z = 0
      BY <1>3
    <2> QED
      BY <1>2, <1>4, <2>1
  <1>6. ASSUME k # 1 PROVE z >= 2 * w
    <2>1. PICK y \in Nat : k = y + 2
      BY <1>1, <1>5, <1>6
    <2>2. PICK u \in Nat : u = y * w
      BY <2>1, ProductNat
    <2>3. z = u + 2 * w
      BY <1>3, <2>1, <2>2
    <2> QED
      BY <2>2, <2>3
  <1>7. k = 1 => z = w
    BY <1>3
  <1> QED
    BY <1>1, <1>2, <1>3, <1>4, <1>5, <1>6, <1>7

LEMMA ReadLive ==
  ASSUME NEW x \in Cells, NEW n \in Nat
  PROVE  /\ x.expiresAt >= n => Read(x, n) = x.value
         /\ ~(x.expiresAt >= n) => Read(x, n) = 0
  BY DEF Read, Live, Cells

-----------------------------------------------------------------------------
(* The window that a call opens holds none of the calls counted so far. *)
LEMMA WindowOpened ==
  ASSUME cfg \in Configs, Prompt, NEW h \in Seq(Nat), NEW v \in Nat, NEW p, NEW m \in Nat,
         Opened(h, v, p, m), NEW w \in Nat, v - Drift <= w, w <= v + Drift
  PROVE  Windows(h, w, 0, p, m)
  <1>1. /\ Limit \in Nat /\ Window \in Nat /\ Drift \in Nat /\ Blur = 3 * Drift /\ Late \in Nat
    BY Sizes
  <1>2. \A i \in 1..Len(h) : h[i] \in Nat
    BY ElementOfSeq
  <1>3. Len(h) \in Nat
    BY LenProperties
  <1>4. /\ p \in 0..Limit /\ p <= Len(h)
        /\ \A i \in 1..Len(h) : h[i] < v + Drift
        /\ \A i \in 1..Len(h) : i > Len(h) - p => h[i] >= v - Window - Drift
        /\ \A i \in 1..Len(h) : i <= Len(h) - p =>
              \/ h[i] < v - Window + 2 * Drift + Late
              \/ p = 0 /\ m >= v + Window - Drift - Late
    BY DEF Opened
  <1>5. \A i \in 1..Len(h) : h[i] < w + 2 * Drift
    BY <1>1, <1>2, <1>4
  <1>6. \A i \in 1..Len(h) : h[i] < w + Window + Drift
    <2> SUFFICES ASSUME NEW i \in 1..Len(h) PROVE h[i] < w + Window + Drift
      OBVIOUS
    <2>1. h[i] < v + Drift /\ h[i] \in Nat
      BY <1>2, <1>4
    <2>2. 6 * Drift <= Window
      BY <1>1, Sizes DEF Prompt
    <2> QED
      BY <1>1, <2>1, <2>2
  <1>7. \A i \in 1..Len(h) : i > Len(h) - 0 - p => h[i] >= w - Window - 2 * Drift
    BY <1>1, <1>2, <1>3, <1>4
  <1>8. ASSUME NEW i \in 1..Len(h), i <= Len(h) - 0 - p
        PROVE  \/ h[i] < w - Window + Blur + Late
               \/ p = 0 /\ m >= w + Window - 2 * Drift - Late
    <2>1. h[i] \in Nat /\ i <= Len(h) - p
      BY <1>1, <1>2, <1>3, <1>4, <1>8
    <2>2. CASE h[i] < v - Window + 2 * Drift + Late
      BY <1>1, <2>1, <2>2
    <2>3. CASE p = 0 /\ m >= v + Window - Drift - Late
      BY <1>1, <2>3
    <2> QED
      BY <1>4, <2>1, <2>2, <2>3
  <1>9. \A i \in 1..Len(h) : ~(i > Len(h) - 0)
    BY <1>3
  <1>10. 0 \in 0..Limit /\ 0 + p <= Len(h)
    BY <1>1, <1>3, <1>4
  <1> QED
    BY <1>1, <1>4, <1>5, <1>6, <1>7, <1>8, <1>9, <1>10 DEF Windows

(* The calls of a window, when the one after it, or a later one, opens.    *)
LEMMA WindowRotated ==
  ASSUME cfg \in Configs, Prompt, NEW h \in Seq(Nat), NEW w \in Nat, Grain <= w,
         NEW c, NEW p, NEW m \in Nat, Windows(h, w, c, p, m), w + Window <= m,
         NEW k, k = (m - w) \div Window, NEW v, v = w + k * Window,
         NEW q, q \in {0, c}, k # 1 => q = 0,
         (k = 1 /\ q # c) => m >= w + 2 * Window - Drift - Late
  PROVE  Opened(h, v, q, m)
  <1>1. /\ Limit \in Nat /\ Window \in Nat \ {0} /\ Drift \in Nat /\ Blur = 3 * Drift /\ Late \in Nat
        /\ Grain \in Nat /\ MaxStall \in Nat /\ Late <= MaxStall
    BY Sizes
  <1>2. \A i \in 1..Len(h) : h[i] \in Nat
    BY ElementOfSeq
  <1>3. Len(h) \in Nat
    BY LenProperties
  <1>4. /\ c \in 0..Limit /\ p \in 0..Limit /\ c + p <= Len(h)
        /\ \A i \in 1..Len(h) : h[i] < w + Window + Drift
        /\ \A i \in 1..Len(h) : i > Len(h) - c => h[i] >= w - Drift
        /\ \A i \in 1..Len(h) : i <= Len(h) - c => h[i] < w + 2 * Drift
    BY DEF Windows
  <1>5. 6 * Drift + MaxStall <= Window
    BY <1>1 DEF Prompt
  <1>6. PICK z \in Nat : /\ k \in Nat /\ z = k * Window /\ w + z <= m /\ m < w + z + Window
                         /\ k = 1 => z = Window
                         /\ k # 1 => z >= 2 * Window
                         /\ z >= Window
    <2>1. PICK e \in Nat : e = m - w /\ Window <= e
      BY <1>1
    <2>2. /\ k \in Nat /\ k >= 1 /\ k * Window \in Nat /\ k * Window <= e /\ e < k * Window + Window
          /\ k = 1 => k * Window = Window
          /\ k # 1 => k * Window >= 2 * Window
      BY <1>1, <2>1, RotatedStart
    <2>3. PICK z \in Nat : z = k * Window
      BY <2>2
    <2> QED
      BY <1>1, <2>1, <2>2, <2>3
  <1>7. v \in Nat /\ v = w + z
    BY <1>1, <1>6
  <1>13. /\ w + z <= m /\ m < w + z + Window /\ z >= Window
         /\ (k = 1 => z = Window) /\ (k # 1 => z >= 2 * Window)
    BY <1>6
  <1>8. Grain <= v /\ v <= m /\ m < v + Window
    BY <1>1, <1>13, <1>7
  <1>9. q \in 0..Limit /\ q <= Len(h)
    BY <1>1, <1>3, <1>4
  <1>10. ASSUME NEW i \in 1..Len(h) PROVE h[i] < v + Drift
    <2>1. h[i] \in Nat /\ h[i] < w + Window + Drift
      BY <1>2, <1>4
    <2> QED
      BY <1>1, <1>7, <1>13, <2>1
  <1>11. \A i \in 1..Len(h) : i > Len(h) - q => h[i] >= v - Window - Drift
    <2>1. CASE q = 0
      BY <1>3, <2>1
    <2>2. CASE q # 0
      <3>1. q = c /\ k = 1
        BY <2>2
      <3>2. ASSUME NEW i \in 1..Len(h), i > Len(h) - q PROVE h[i] >= v - Window - Drift
        <4>1. h[i] \in Nat /\ h[i] >= w - Drift
          BY <1>2, <1>4, <3>1, <3>2
        <4>2. v = w + Window
          BY <1>7, <1>13, <3>1
        <4> QED
          BY <1>1, <4>1, <4>2
      <3> QED
        BY <3>2
    <2> QED
      BY <2>1, <2>2
  <1>12. ASSUME NEW i \in 1..Len(h), i <= Len(h) - q
         PROVE  \/ h[i] < v - Window + 2 * Drift + Late
                \/ q = 0 /\ m >= v + Window - Drift - Late
    <2>1. h[i] \in Nat /\ h[i] < w + Window + Drift
      BY <1>2, <1>4
    <2>2. CASE k # 1
      BY <1>1, <1>13, <1>7, <2>1, <2>2
    <2>3. CASE k = 1 /\ q = c
      <3>1. h[i] < w + 2 * Drift
        BY <1>4, <1>12, <2>3
      <3> QED
        BY <1>1, <1>13, <1>7, <2>1, <2>3, <3>1
    <2>4. CASE k = 1 /\ q # c
      <3>1. q = 0 /\ m >= w + 2 * Window - Drift - Late
        BY <2>4
      <3> QED
        BY <1>1, <1>13, <1>7, <2>4, <3>1
    <2> QED
      BY <2>2, <2>3, <2>4
  <1> QED
    BY <1>8, <1>9, <1>10, <1>11, <1>12 DEF Opened

(* The first window after the keys have expired. *)
LEMMA WindowExpired ==
  ASSUME cfg \in Configs, Prompt, NEW h \in Seq(Nat), NEW w \in Nat,
         NEW c, NEW p, NEW m \in Nat, Windows(h, w, c, p, m), Grain <= m,
         w + 2 * Window - Drift - Late <= m
  PROVE  Opened(h, m, 0, m)
  <1>1. /\ Limit \in Nat /\ Window \in Nat \ {0} /\ Drift \in Nat /\ Late \in Nat
        /\ MaxStall \in Nat /\ Late <= MaxStall /\ 6 * Drift + MaxStall <= Window
    <2>1. /\ Limit \in Nat /\ Window \in Nat \ {0} /\ Drift \in Nat /\ Blur = 3 * Drift
          /\ Late \in Nat /\ MaxStall \in Nat /\ Late <= MaxStall
      BY Sizes
    <2>2. MaxStall + 2 * Blur <= Window
      BY DEF Prompt
    <2> QED
      BY <2>1, <2>2
  <1>2. \A i \in 1..Len(h) : h[i] \in Nat
    BY ElementOfSeq
  <1>3. Len(h) \in Nat
    BY LenProperties
  <1>4. \A i \in 1..Len(h) : h[i] < w + Window + Drift
    BY DEF Windows
  <1>5. \A i \in 1..Len(h) : h[i] < m + Drift /\ h[i] < m - Window + 2 * Drift + Late
    BY <1>1, <1>2, <1>4
  <1>6. m <= m /\ m < m + Window /\ 0 \in 0..Limit /\ 0 <= Len(h)
    BY <1>1, <1>3
  <1>7. \A i \in 1..Len(h) : ~(i > Len(h) - 0)
    BY <1>3
  <1> QED
    BY <1>1, <1>3, <1>5, <1>6, <1>7 DEF Opened

(* A window of which nothing is known, and no call was counted. *)
LEMMA WindowFirst ==
  ASSUME cfg \in Configs, NEW h, h = << >>, NEW m \in Nat, Grain <= m
  PROVE  Opened(h, m, 0, m)
  <1>1. Limit \in Nat /\ Window \in Nat \ {0} /\ Len(h) = 0
    BY Sizes
  <1>2. m <= m /\ m < m + Window /\ 0 \in 0..Limit /\ 0 <= Len(h)
    BY <1>1
  <1>3. \A i \in 1..Len(h) : FALSE
    BY <1>1
  <1> QED
    BY <1>2, <1>3 DEF Opened

(* What a call finds holds as time goes on. *)
LEMMA WindowsLater ==
  ASSUME cfg \in Configs, NEW h \in Seq(Nat), NEW w \in Nat, NEW c, NEW p,
         NEW m \in Nat, Windows(h, w, c, p, m), NEW n \in Nat, m <= n
  PROVE  Windows(h, w, c, p, n)
  <1>1. Window \in Nat /\ Drift \in Nat /\ Late \in Nat
    BY Sizes
  <1>2. m >= w + Window - 2 * Drift - Late => n >= w + Window - 2 * Drift - Late
    BY <1>1
  <1> QED
    BY <1>2 DEF Windows

-----------------------------------------------------------------------------
LEMMA ProductMonotone ==
  ASSUME NEW a \in Nat, NEW b \in Nat, a <= b, NEW u \in Nat
  PROVE  a * u <= b * u /\ u * a <= u * b
  <1>1. PICK y \in Nat : b = a + y
    OBVIOUS
  <1>2. PICK z \in Nat : z = y * u
    BY <1>1, ProductNat
  <1>3. b * u = a * u + z /\ u * b = u * a + z
    BY <1>1, <1>2
  <1>4. a * u \in Nat /\ u * a \in Nat
    BY ProductNat
  <1> QED
    BY <1>2, <1>3, <1>4

(* What the estimate admits: a of the p calls of the previous window, and  *)
(* c of this one, a time s after its start.                                *)
LEMMA EstimateBound ==
  ASSUME NEW a \in Nat, NEW p \in Nat, NEW c \in Nat, NEW l \in Nat, NEW w \in Nat,
         NEW s \in Int, s <= w, NEW x \in Nat, s <= x, a <= p, a <= l,
         p * (w - s) + c * w <= l * w
  PROVE  (a + c - l) * w <= l * x
  <1>1. PICK u \in Nat : u = w - s /\ s = w - u
    OBVIOUS
  <1>2. PICK pu \in Nat, cw \in Nat, lw \in Nat : pu = p * u /\ cw = c * w /\ lw = l * w
    BY ProductNat
  <1>3. PICK au \in Nat, aw \in Nat, lx \in Nat : au = a * u /\ aw = a * w /\ lx = l * x
    BY ProductNat
  <1>4. au <= pu
    BY <1>2, <1>3, ProductMonotone
  <1>5. pu + cw <= lw
    BY <1>1, <1>2
  <1>6. aw - au <= lx
    <2>1. CASE s < 0
      <3>1. w <= u
        BY <1>1, <2>1
      <3>2. aw <= au
        BY <1>1, <1>3, <3>1, ProductMonotone
      <3> QED
        BY <1>3, <3>2
    <2>2. CASE s >= 0
      <3>1. PICK t \in Nat : t = s
        BY <2>2
      <3>2. PICK at \in Nat, lt \in Nat : at = a * t /\ lt = l * t
        BY ProductNat
      <3>3. aw = at + au
        <4>1. w = t + u
          BY <1>1, <3>1
        <4> QED
          BY <1>3, <3>2, <4>1
      <3>4. at <= lt /\ lt <= lx
        BY <1>3, <3>1, <3>2, ProductMonotone
      <3> QED
        BY <1>3, <3>2, <3>3, <3>4
    <2> QED
      BY <2>1, <2>2
  <1>7. (a + c - l) * w = aw + cw - lw
    BY <1>2, <1>3
  <1> QED
    BY <1>2, <1>3, <1>4, <1>5, <1>6, <1>7

(* The window with one more call. *)
LEMMA WindowAdmits ==
  ASSUME cfg \in Configs, Prompt, NEW h \in Seq(Nat), NEW w \in Nat, NEW c, NEW p, NEW m \in Nat,
         Windows(h, w, c, p, m), c < Limit,
         NEW v \in Nat, w - Drift <= v, v < w + Window + Drift, NEW g, g = Append(h, v)
  PROVE  Windows(g, w, c + 1, p, m)
  <1>1. /\ Limit \in Nat /\ Window \in Nat \ {0} /\ Drift \in Nat /\ Blur = 3 * Drift /\ Late \in Nat
    BY Sizes
  <1>2. /\ g \in Seq(Nat) /\ Len(g) = Len(h) + 1 /\ g[Len(g)] = v
        /\ \A i \in 1..Len(h) : g[i] = h[i]
    BY AppendProperties
  <1>3. Len(h) \in Nat
    BY LenProperties
  <1>4. /\ c \in 0..Limit /\ p \in 0..Limit /\ c + p <= Len(h)
        /\ \A i \in 1..Len(h) : h[i] < w + Window + Drift
        /\ \A i \in 1..Len(h) : i > Len(h) - c => h[i] >= w - Drift
        /\ \A i \in 1..Len(h) : i <= Len(h) - c => h[i] < w + 2 * Drift
        /\ \A i \in 1..Len(h) : i > Len(h) - c - p => h[i] >= w - Window - 2 * Drift
        /\ \A i \in 1..Len(h) : i <= Len(h) - c - p =>
              \/ h[i] < w - Window + Blur + Late
              \/ p = 0 /\ m >= w + Window - 2 * Drift - Late
    BY DEF Windows
  <1>5. /\ Len(g) - (c + 1) = Len(h) - c
        /\ Len(g) - (c + 1) - p = Len(h) - c - p
    BY <1>2, <1>3, <1>4
  <1>6. c + 1 \in 0..Limit /\ c + 1 + p <= Len(g)
    BY <1>1, <1>2, <1>3, <1>4
  <1>7. ASSUME NEW i \in 1..Len(g), i # Len(g) PROVE i \in 1..Len(h) /\ g[i] = h[i]
    BY <1>2, <1>3, <1>7
  <1>8. v >= w - Window - 2 * Drift
    BY <1>1
  <1>9. Len(g) > Len(h) - c /\ Len(g) > Len(h) - c - p
    BY <1>1, <1>2, <1>3, <1>4
  <1>10. \A i \in 1..Len(g) : g[i] < w + Window + Drift
    BY <1>2, <1>4, <1>7
  <1>11. \A i \in 1..Len(g) : i > Len(h) - c => g[i] >= w - Drift
    BY <1>2, <1>4, <1>7
  <1>12. \A i \in 1..Len(g) : i <= Len(h) - c => g[i] < w + 2 * Drift
    <2> SUFFICES ASSUME NEW i \in 1..Len(g), i <= Len(h) - c PROVE g[i] < w + 2 * Drift
      OBVIOUS
    <2>1. i # Len(g)
      BY <1>2, <1>3, <1>4
    <2> QED
      BY <1>4, <1>7, <2>1
  <1>13. \A i \in 1..Len(g) : i > Len(h) - c - p => g[i] >= w - Window - 2 * Drift
    BY <1>2, <1>4, <1>7, <1>8
  <1>14. ASSUME NEW i \in 1..Len(g), i <= Len(h) - c - p
         PROVE  \/ g[i] < w - Window + Blur + Late
                \/ p = 0 /\ m >= w + Window - 2 * Drift - Late
    <2>1. i # Len(g)
      BY <1>2, <1>3, <1>4, <1>14
    <2> QED
      BY <1>4, <1>7, <1>14, <2>1
  <1> QED
    BY <1>4, <1>5, <1>6, <1>10, <1>11, <1>12, <1>13, <1>14 DEF Windows

(* How many calls a window and the one before it give an interval of       *)
(* length d that ends with the call admitted at v: n of those before it.   *)
LEMMA IntervalBound ==
  ASSUME NEW limit \in Nat \ {0}, NEW window \in Nat \ {0}, NEW drift \in Nat, NEW late \in Nat,
         NEW w \in Nat, NEW c \in Nat, c < limit, NEW p \in Nat, p <= limit, NEW v \in Nat,
         NEW o \in Nat, w - drift <= o, v < o + window, w - drift <= v,
         p * (window - (v - o)) + c * window <= limit * window,
         NEW n \in Nat, NEW d \in Nat, d <= window - 6 * drift - late,
         n > c => v - d < w + 2 * drift,
         n > c + p => \/ v - d < w - window + 3 * drift + late
                      \/ v >= w + window - 2 * drift - late
  PROVE  n + 1 <= 2 * limit /\ (n - limit) * window <= limit * (d + 3 * drift)
  <1>1. PICK x \in Nat : x = d + 3 * drift
    OBVIOUS
  <1>2. PICK lx \in Nat : lx = limit * x
    BY ProductNat
  <1>3. CASE n <= c
    <2>1. PICK y \in Nat : n - limit = -y
      BY <1>3
    <2>2. PICK z \in Nat : z = y * window
      BY ProductNat
    <2>3. (n - limit) * window = -z
      BY <2>1, <2>2
    <2>4. n + 1 <= 2 * limit
      BY <1>3
    <2> QED
      BY <1>1, <1>2, <2>2, <2>3, <2>4
  <1>4. CASE n > c
    <2>1. n <= c + p
      BY <1>4
    <2>2. PICK a \in Nat : n = a + c /\ a <= p /\ a <= limit
      BY <1>4, <2>1
    <2>3. PICK s \in Int : s = v - o /\ s <= window /\ s <= x
      BY <1>1, <1>4
    <2>4. p * (window - s) + c * window <= limit * window
      BY <2>3
    <2>5. (a + c - limit) * window <= limit * x
      BY <2>2, <2>3, <2>4, EstimateBound
    <2>6. n + 1 <= 2 * limit
      BY <2>2
    <2> QED
      BY <1>1, <2>2, <2>5, <2>6
  <1> QED
    BY <1>3, <1>4

(* g is h with v at its end. *)
Longer(g, h, v) ==
    /\ g \in Seq(Nat) /\ Len(g) = Len(h) + 1 /\ g[Len(g)] = v
    /\ \A i \in 1..Len(h) : g[i] = h[i] /\ h[i] \in Nat

LEMMA AppendLonger ==
  ASSUME NEW h \in Seq(Nat), NEW v \in Nat
  PROVE  Longer(Append(h, v), h, v)
  BY AppendProperties, ElementOfSeq DEF Longer

LEMMA RollingAdmits ==
  ASSUME cfg \in Configs, NEW h \in Seq(Nat), Rolling(h),
         NEW w \in Nat, NEW c, NEW p, NEW v \in Nat, Windows(h, w, c, p, v), c < Limit,
         \A i \in 1..Len(h) : h[i] <= v,
         NEW o \in Nat, w - Drift <= o, v < o + Window, w - Drift <= v,
         LetsThrough(v - o, p, c), NEW g, Longer(g, h, v)
  PROVE  Rolling(g)
  <1>1. PICK ll \in Nat \ {0}, ww \in Nat \ {0}, dd \in Nat, la \in Nat :
           ll = Limit /\ ww = Window /\ dd = Drift /\ la = Late
    BY Sizes
  <1>2. Blur = 3 * dd
    BY <1>1 DEF Blur
  <1>3. /\ g \in Seq(Nat) /\ Len(g) = Len(h) + 1 /\ g[Len(g)] = v
        /\ \A i \in 1..Len(h) : g[i] = h[i] /\ h[i] \in Nat
    BY DEF Longer
  <1>4. PICK k \in Nat : k = Len(h) /\ Len(g) = k + 1
    BY <1>3, LenProperties
  <1>5. c \in Nat /\ c < ll /\ p \in Nat /\ p <= ll
    BY <1>1 DEF Windows
  <1>6. ASSUME NEW i \in Nat, 1 <= i, i <= k + 1, Near(g, i, k + 1) PROVE Within(k + 1 - i + 1, g[k + 1] - g[i])
    <2>1. PICK e \in Nat : e = g[i] /\ e <= v /\ (i # k + 1 => i \in 1..k /\ e = h[i])
      <3>1. i # k + 1 => i \in 1..k
        BY <1>6
      <3>2. i \in 1..k => g[i] \in Nat /\ g[i] <= v /\ g[i] = h[i]
        BY <1>3, <1>4
      <3>3. i = k + 1 => g[i] \in Nat /\ g[i] <= v
        BY <1>3, <1>4
      <3> QED
        BY <3>1, <3>2, <3>3
    <2>2. PICK n \in Nat : n = k + 1 - i
      BY <1>6
    <2>3. PICK d \in Nat : d = v - e
      <3>1. v - e \in Nat
        BY <2>1
      <3> QED
        BY <3>1
    <2>4. d <= ww - 6 * dd - la
      <3>1. g[k + 1] - g[i] <= Window - 2 * Blur - Late
        BY <1>6 DEF Near
      <3>2. v - e <= ww - 2 * (3 * dd) - la
        BY <1>1, <1>2, <1>3, <1>4, <2>1, <3>1
      <3> QED
        BY <2>3, <3>2
    <2>5. ASSUME n > c PROVE v - d < w + 2 * dd
      <3>1. i \in 1..k /\ i <= k - c
        BY <1>5, <1>6, <2>2, <2>5
      <3>2. h[i] < w + 2 * dd
        BY <1>1, <1>4, <3>1 DEF Windows
      <3>3. v - d = h[i]
        BY <1>6, <2>1, <2>3, <3>1
      <3> QED
        BY <3>1, <3>2, <3>3
    <2>6. ASSUME n > c + p
          PROVE  v - d < w - ww + 3 * dd + la \/ v >= w + ww - 2 * dd - la
      <3>1. i \in 1..k /\ i <= k - c - p
        BY <1>5, <1>6, <2>2, <2>6
      <3>2. h[i] < w - ww + 3 * dd + la \/ v >= w + ww - 2 * dd - la
        BY <1>1, <1>2, <1>4, <3>1 DEF Windows
      <3>3. v - d = h[i]
        BY <1>6, <2>1, <2>3, <3>1
      <3> QED
        BY <3>2, <3>3
    <2>7. p * (ww - (v - o)) + c * ww <= ll * ww
      BY <1>1 DEF LetsThrough, SlidingCount
    <2>8. w - dd <= o /\ v < o + ww /\ w - dd <= v
      BY <1>1
    <2>9. n + 1 <= 2 * ll /\ (n - ll) * ww <= ll * (d + 3 * dd)
      BY <1>5, <2>4, <2>5, <2>6, <2>7, <2>8, IntervalBound
    <2>10. n + 1 - ll - 1 = n - ll
      BY <1>6, <2>2
    <2>11. Within(n + 1, d)
      BY <1>1, <1>2, <2>9, <2>10 DEF Within
    <2>12. k + 1 - i + 1 = n + 1
      BY <1>6, <2>2
    <2>13. g[k + 1] - g[i] = d
      BY <1>3, <1>4, <2>1, <2>3
    <2> QED
      BY <2>11, <2>12, <2>13
  <1>7. ASSUME NEW i \in 1..(k + 1), NEW j \in 1..(k + 1), Near(g, i, j) PROVE Within(j - i + 1, g[j] - g[i])
    <2>1. CASE j = k + 1
      BY <1>6, <1>7, <2>1
    <2>2. CASE j # k + 1
      <3>1. i \in 1..k /\ j \in 1..k
        <4>1. i <= j
          BY <1>7 DEF Near
        <4> QED
          BY <2>2, <4>1
      <3>2. g[i] = h[i] /\ g[j] = h[j]
        BY <1>3, <1>4, <3>1
      <3>3. Near(h, i, j)
        BY <1>7, <3>2 DEF Near
      <3> QED
        BY <1>4, <3>1, <3>2, <3>3 DEF Rolling
    <2> QED
      BY <2>1, <2>2
  <1> QED
    BY <1>4, <1>7 DEF Rolling

-----------------------------------------------------------------------------
(* What depends on the configuration only, which never changes. *)
LEMMA SameSizes ==
  ASSUME UNCHANGED cfg
  PROVE  /\ Limit' = Limit /\ Window' = Window /\ Grain' = Grain /\ Drift' = Drift /\ Blur' = Blur
         /\ Late' = Late /\ MaxStall' = MaxStall /\ (Orderly' <=> Orderly)
  <1>1. Limit' = Limit /\ Window' = Window /\ Grain' = Grain /\ MaxStall' = MaxStall
    BY SameConfiguration
  <1>2. Drift' = Drift
    BY <1>1 DEF Drift
  <1>3. Blur' = Blur
    BY <1>2 DEF Blur
  <1>4. Late' = Late
    BY <1>1 DEF Late
  <1>5. (Orderly' <=> Orderly)
    BY <1>1, <1>3 DEF Orderly, Undisturbed, Prompt, Concurrent, MayFail
  <1> QED
    BY <1>1, <1>2, <1>3, <1>4, <1>5

LEMMA SameWindows ==
  ASSUME UNCHANGED cfg, NEW h, NEW w, NEW c, NEW p, NEW m
  PROVE  Windows(h, w, c, p, m)' <=> Windows(h, w, c, p, m)
  BY SameSizes DEF Windows

LEMMA SameOpened ==
  ASSUME UNCHANGED cfg, NEW h, NEW w, NEW p, NEW m
  PROVE  Opened(h, w, p, m)' <=> Opened(h, w, p, m)
  BY SameSizes DEF Opened

LEMMA SameKept ==
  ASSUME UNCHANGED cfg, NEW s, NEW h, NEW m
  PROVE  Kept(s, h, m)' <=> Kept(s, h, m)
  BY SameSizes, SameWindows DEF Kept, Lasting

LEMMA SameRolling ==
  ASSUME UNCHANGED cfg, NEW h
  PROVE  Rolling(h)' <=> Rolling(h)
  BY SameSizes DEF Rolling, Near, Within

LEMMA SameCall ==
  ASSUME UNCHANGED cfg, NEW p, NEW l, NEW s, NEW h
  PROVE  CallOK(p, l, s, h)' <=> CallOK(p, l, s, h)
  <1>1. Entered(l, s, h)' <=> Entered(l, s, h)
    BY SameSizes, SameKept DEF Entered
  <1>2. StartSet(s, l)' <=> StartSet(s, l)
    BY SameSizes DEF StartSet, Lasting
  <1>3. CurrSet(s, l)' <=> CurrSet(s, l)
    BY SameSizes DEF CurrSet, Lasting
  <1>4. PrevSet(s, l)' <=> PrevSet(s, l)
    BY SameSizes DEF PrevSet, Lasting
  <1>5. \A v, q, c : LetsThrough(v, q, c)' <=> LetsThrough(v, q, c)
    BY SameSizes DEF LetsThrough, SlidingCount
  <1> QED
    BY <1>1, <1>2, <1>3, <1>4, <1>5, SameSizes, SameKept, SameOpened DEF CallOK

(* What a call leaves is there for a later one. *)
LEMMA KeptLater ==
  ASSUME cfg \in Configs, NEW s \in [Fields -> Cells], NEW h \in Seq(Nat),
         NEW m \in Nat, NEW n \in Nat, m <= n, Kept(s, h, m)
  PROVE  Kept(s, h, n)
  <1>1. Drift \in Nat
    BY Sizes
  <1>2. CASE s["ts"].value = 0
    BY <1>2 DEF Kept
  <1>3. CASE s["ts"].value # 0
    <2>1. PICK w \in Nat, c \in {s["curr"].value}, p \in {s["prev"].value} : w = s["ts"].value /\ c = s["curr"].value /\ p = s["prev"].value
      BY DEF Fields, Cells
    <2>2. /\ Grain <= w /\ w <= m + Drift
          /\ \A f \in Fields : Lasting(s[f], w - Drift)
          /\ Windows(h, w, c, p, m)
      BY <1>3, <2>1 DEF Kept
    <2>3. Windows(h, w, c, p, n)
      BY <2>2, WindowsLater
    <2>4. w <= n + Drift
      BY <1>1, <2>2
    <2> QED
      BY <1>3, <2>1, <2>2, <2>3, <2>4 DEF Kept
  <1> QED
    BY <1>2, <1>3

(* The keys outlast the call that has entered their window. *)
LEMMA EnteredLive ==
  ASSUME cfg \in Configs, Prompt, NEW s \in [Fields -> Cells], NEW h, NEW l \in Locals, Entered(l, s, h),
         NEW n \in Nat, n <= l.now + MaxStall, NEW f \in Fields
  PROVE  s[f].expiresAt >= n
  <1>1. /\ Window \in Nat /\ Drift \in Nat /\ MaxStall \in Nat /\ MaxStall + 6 * Drift <= Window
    BY Sizes DEF Prompt
  <1>2. PICK w \in Nat, o \in Nat, v \in Nat, e \in Nat :
           w = s["ts"].value /\ o = l.windowStart /\ v = l.now /\ e = s[f].expiresAt
    BY DEF Fields, Cells, Locals
  <1>3. w # 0 /\ Kept(s, h, v) /\ o <= w + Drift /\ v < o + Window
    BY <1>2 DEF Entered
  <1>4. e >= w - Drift + 2 * Window
    BY <1>2, <1>3 DEF Kept, Lasting
  <1>5. n <= v + MaxStall
    BY <1>2
  <1> QED
    BY <1>1, <1>2, <1>3, <1>4, <1>5

(* The end of an initialisation or of a rotation. *)
LEMMA Entering ==
  ASSUME cfg \in Configs, Prompt, NEW s \in [Fields -> Cells], NEW h \in Seq(Nat), NEW l \in Locals, NEW q,
         Opened(h, l.windowStart, q, l.now), StartSet(s, l), CurrSet(s, l),
         s["prev"].value = q, Lasting(s["prev"], l.windowStart)
  PROVE  Entered(l, s, h)
  <1>1. /\ Window \in Nat /\ Drift \in Nat /\ Grain \in Nat \ {0}
    BY Sizes
  <1>2. PICK o \in Nat, v \in Nat, w \in {s["ts"].value} : o = l.windowStart /\ v = l.now /\ w = s["ts"].value
    BY DEF Locals
  <1>3. Opened(h, o, q, v)
    BY <1>2
  <1>4. Grain <= o /\ o <= v /\ v < o + Window
    BY <1>3 DEF Opened
  <1>5. w = Float64(o, Grain)
    BY <1>2 DEF StartSet
  <1>6. w \in Nat /\ Grain <= w /\ o - Drift <= w /\ w <= o + Drift
    BY <1>1, <1>4, <1>5, Float64Near DEF Drift
  <1>7. Windows(h, w, 0, q, v)
    BY <1>3, <1>6, WindowOpened
  <1>8. ASSUME NEW f \in Fields PROVE Lasting(s[f], w - Drift)
    <2>1. s[f].expiresAt \in Nat
      BY DEF Cells
    <2>2. s[f].expiresAt >= o + 2 * Window
      BY <1>2 DEF StartSet, CurrSet, Lasting, Fields
    <2> QED
      BY <1>1, <1>6, <2>1, <2>2 DEF Lasting
  <1>9. w # 0 /\ w <= v + Drift
    BY <1>1, <1>4, <1>6
  <1>10. Kept(s, h, v)
    BY <1>2, <1>6, <1>7, <1>8, <1>9 DEF Kept, CurrSet
  <1>11. w - Drift <= o /\ o <= w + Drift /\ o <= v + Drift
    BY <1>1, <1>4, <1>6
  <1> QED
    BY <1>2, <1>4, <1>9, <1>10, <1>11 DEF Entered

(* An admitted call found less than Limit. *)
LEMMA AdmittedBelow ==
  ASSUME cfg \in Configs, NEW s \in Int, s < Window, NEW p \in Nat, NEW c \in Nat,
         NEW a \in Outcomes(s, p, c), a
  PROVE  LetsThrough(s, p, c) /\ c < Limit
  <1>1. PICK ll \in Nat, ww \in Nat : ll = Limit /\ ww = Window
    BY Sizes
  <1>2. PICK u \in Nat \ {0} : u = ww - s
    <2>1. ww - s \in Nat \ {0}
      BY <1>1
    <2> QED
      BY <2>1
  <1>3. PICK pu \in Nat, cw \in Nat, lw \in Nat : pu = p * u /\ cw = c * ww /\ lw = ll * ww
    BY <1>2, ProductNat
  <1>4. SlidingCount(s, p, c) = pu + cw
    BY <1>1, <1>2, <1>3 DEF SlidingCount
  <1>5. pu + cw < lw \/ (pu + cw = lw /\ p > 0)
    BY <1>1, <1>3, <1>4 DEF Outcomes
  <1>6. p > 0 => pu > 0
    BY <1>2, <1>3, ProductPositive
  <1>7. cw < lw
    BY <1>3, <1>5, <1>6
  <1>8. c < ll
    <2> SUFFICES ASSUME ll <= c PROVE FALSE
      BY <1>1
    <2>1. lw <= cw
      BY <1>1, <1>3, ProductMonotone
    <2> QED
      BY <1>3, <1>7, <2>1
  <1>9. pu + cw <= lw
    BY <1>3, <1>5
  <1> QED
    BY <1>1, <1>3, <1>4, <1>8, <1>9 DEF LetsThrough

(* What is expired when a call reads it was expired, or nearly, when it    *)
(* read the clock.                                                         *)
LEMMA ExpiredForCall ==
  ASSUME cfg \in Configs, NEW x \in Cells, NEW w \in Nat, Lasting(x, w - Drift),
         NEW v \in Nat, NEW n \in Nat, n <= v + MaxStall, ~(x.expiresAt >= n)
  PROVE  w + 2 * Window - Drift - Late <= v
  <1>1. /\ Window \in Nat /\ Drift \in Nat /\ MaxStall \in Nat /\ Late \in Nat /\ MaxStall <= Late + 1
    BY Sizes
  <1>2. PICK e \in Nat : e = x.expiresAt
    BY DEF Cells
  <1>3. e >= w - Drift + 2 * Window /\ e < n
    BY <1>2 DEF Lasting
  <1> QED
    BY <1>1, <1>3

-----------------------------------------------------------------------------
(* The invariant after a step of the only call under way. *)
LEMMA CallMoved ==
  ASSUME IInv, Orderly, SBody, NEW t \in Threads, \A u \in Threads : u # t => pc[u] = "idle",
         UNCHANGED <<cfg, now>>,
         NEW p, NEW l, pc' = [pc EXCEPT ![t] = p], loc' = [loc EXCEPT ![t] = l],
         NEW s, s = store', NEW h, h = counted', Rolling(h),
         p = "idle" => Kept(s, h, now), p # "idle" => CallOK(p, l, s, h)
  PROVE  SBody'
  <1>1. pc \in [Threads -> PCs] /\ loc \in [Threads -> Locals]
    BY DEF IInv
  <1>2. /\ pc'[t] = p /\ loc'[t] = l
        /\ \A u \in Threads : u # t => pc'[u] = "idle"
    BY <1>1
  <1>3. (Grain <= now)'
    BY SameSizes DEF SBody
  <1>4. Rolling(counted)'
    BY SameRolling
  <1>5. ASSUME NoCall' PROVE Kept(store, counted, now)'
    <2>1. p = "idle"
      BY <1>2, <1>5 DEF NoCall
    <2>2. PICK n : n = now
      OBVIOUS
    <2>3. Kept(s, h, n)'
      BY <2>1, <2>2, SameKept
    <2> QED
      BY <2>2, <2>3
  <1>6. OneCall'
    <2> SUFFICES ASSUME NEW v \in Threads, pc'[v] # "idle"
                 PROVE  /\ \A u \in Threads : u # v => pc'[u] = "idle"
                        /\ CallOK(pc[v], loc[v], store, counted)'
      BY DEF OneCall
    <2>1. v = t
      BY <1>2
    <2>2. p # "idle"
      BY <1>2, <2>1
    <2>3. CallOK(p, l, s, h)'
      BY <2>2, SameCall
    <2> QED
      BY <1>2, <2>1, <2>3
  <1> QED
    BY <1>3, <1>4, <1>5, <1>6 DEF SBody

(* What is known of the call under way. *)
LEMMA CallFacts ==
  ASSUME IInv, Orderly, SBody, NEW t \in Threads, pc[t] # "idle"
  PROVE  /\ cfg \in Configs /\ Prompt /\ now \in Nat /\ Grain \in Nat
         /\ \A u \in Threads : u # t => pc[u] = "idle"
         /\ CallOK(pc[t], loc[t], store, counted)
         /\ store \in [Fields -> Cells] /\ counted \in Seq(Nat) /\ Rolling(counted)
         /\ loc[t] \in Locals /\ loc[t].now \in Nat /\ loc[t].windowStart \in Nat
         /\ loc[t].now <= now /\ now <= loc[t].now + MaxStall
  <1>1. LocalOK(pc[t], loc[t], counted, now) /\ loc[t] \in Locals
    BY Facts
  <1>2. loc[t].now <= now /\ now <= loc[t].now + MaxStall
    BY <1>1 DEF LocalOK
  <1> QED
    BY <1>1, <1>2, Facts DEF SBody, OneCall, Orderly, Locals

LEMMA CallStarts ==
  ASSUME IInv, Orderly, SBody, NEW t \in Threads, Allow(t)
  PROVE  SBody'
  <1>1. NoCall /\ UNCHANGED <<cfg, now, store, counted>>
    BY DEF Allow, Orderly, Undisturbed, NoCall
  <1>2. Kept(store, counted, now) /\ Grain <= now /\ Rolling(counted)
    BY <1>1 DEF SBody
  <1>3. /\ now \in Nat /\ loc[t] \in Locals /\ HistoryOK(counted, now)
    BY Facts
  <1>4. PICK p : p = "getTs" /\ pc' = [pc EXCEPT ![t] = p]
    BY DEF Allow, Goto
  <1>5. PICK l : l = [loc[t] EXCEPT !.now = now]
    OBVIOUS
  <1>6. loc' = [loc EXCEPT ![t] = l]
    BY <1>5 DEF Allow
  <1>7. l.now = now
    BY <1>3, <1>5 DEF Locals
  <1>8. CallOK(p, l, store, counted)
    BY <1>2, <1>3, <1>4, <1>7 DEF CallOK, HistoryOK
  <1>9. p # "idle" /\ \A u \in Threads : u # t => pc[u] = "idle"
    BY <1>1, <1>4 DEF NoCall
  <1>10. PICK s, h : s = store /\ h = counted
    OBVIOUS
  <1>11. /\ s = store' /\ h = counted' /\ Rolling(h)
         /\ (p = "idle" => Kept(s, h, now)) /\ (p # "idle" => CallOK(p, l, s, h))
    BY <1>1, <1>2, <1>8, <1>9, <1>10
  <1>12. UNCHANGED <<cfg, now>> /\ \A u \in Threads : u # t => pc[u] = "idle"
    BY <1>1, <1>9
  <1> QED
    BY <1>4, <1>6, <1>11, <1>12, CallMoved

(* The invariant after a step that reads. *)
LEMMA CallReads ==
  ASSUME IInv, Orderly, SBody, NEW t \in Threads, pc[t] # "idle",
         UNCHANGED <<cfg, now, store, counted>>,
         NEW p, p # "idle", NEW l, pc' = [pc EXCEPT ![t] = p], loc' = [loc EXCEPT ![t] = l],
         CallOK(p, l, store, counted)
  PROVE  SBody'
  <1>1. (\A u \in Threads : u # t => pc[u] = "idle") /\ Rolling(counted)
    BY CallFacts
  <1>2. PICK s, h : s = store /\ h = counted
    OBVIOUS
  <1>3. /\ s = store' /\ h = counted' /\ Rolling(h)
        /\ (p = "idle" => Kept(s, h, now)) /\ (p # "idle" => CallOK(p, l, s, h))
    BY <1>1, <1>2
  <1> QED
    BY <1>1, <1>3, CallMoved

LEMMA CallReadsStart ==
  ASSUME IInv, Orderly, SBody, NEW t \in Threads, GetTs(t)
  PROVE  SBody'
  <1>1. UNCHANGED <<cfg, now, store, counted>> /\ pc[t] = "getTs" /\ pc[t] # "idle"
    BY DEF GetTs
  <1>101. PICK s, h, m : s = store /\ h = counted /\ m = loc[t]
    OBVIOUS
  <1>102. PICK v \in Nat, n \in Nat : v = loc[t].now /\ n = now
    BY <1>1, CallFacts
  <1>2. s = store /\ h = counted /\ m = loc[t] /\ v = m.now /\ n = now
    BY <1>101, <1>102
  <1>3. /\ cfg \in Configs /\ Prompt /\ s \in [Fields -> Cells] /\ h \in Seq(Nat)
        /\ m \in Locals /\ v <= n /\ n <= v + MaxStall /\ Grain <= v
        /\ \A i \in 1..Len(h) : h[i] <= v
        /\ Kept(s, h, v)
    BY <1>1, <1>2, CallFacts DEF CallOK
  <1>4. PICK w \in Nat, c \in {s["curr"].value}, p \in {s["prev"].value} : w = s["ts"].value /\ c = s["curr"].value /\ p = s["prev"].value
    BY <1>3 DEF Fields, Cells
  <1>5. /\ Window \in Nat \ {0} /\ Drift \in Nat /\ Late \in Nat /\ MaxStall \in Nat
    BY <1>3, Sizes
  <1>6. w # 0 => /\ Grain <= w /\ w <= v + Drift
                 /\ Lasting(s["ts"], w - Drift) /\ Windows(h, w, c, p, v)
    BY <1>3, <1>4 DEF Kept, Fields
  <1>7. s["ts"] \in Cells
    BY <1>3 DEF Fields
  <1>8. Get("ts") = IF s["ts"].expiresAt >= n THEN w ELSE 0
    BY <1>2, <1>4, <1>7, ReadLive DEF Get
  <1>9. CASE Get("ts") = 0
    <2>1. Opened(h, v, 0, v)
      <3>1. CASE w = 0
        <4>1. h = << >>
          BY <1>3, <1>4, <3>1 DEF Kept
        <4> QED
          BY <1>3, <4>1, WindowFirst
      <3>2. CASE w # 0
        <4>1. ~(s["ts"].expiresAt >= n)
          BY <1>8, <1>9, <3>2
        <4>2. w + 2 * Window - Drift - Late <= v
          BY <1>3, <1>6, <1>7, <3>2, <4>1, ExpiredForCall
        <4> QED
          BY <1>3, <1>6, <3>2, <4>2, WindowExpired
      <3> QED
        BY <3>1, <3>2
    <2>2. PICK l, q : l = [m EXCEPT !.windowStart = v] /\ q = "initTs"
      OBVIOUS
    <2>3. l.now = v /\ l.windowStart = v
      BY <1>2, <1>3, <2>2 DEF Locals
    <2>4. loc' = [loc EXCEPT ![t] = l] /\ pc' = [pc EXCEPT ![t] = q] /\ q # "idle"
      BY <1>2, <1>9, <2>2 DEF GetTs, Goto
    <2>5. CallOK(q, l, s, h)
      BY <1>3, <2>1, <2>2, <2>3 DEF CallOK
    <2> QED
      BY <1>1, <1>2, <2>4, <2>5, CallReads
  <1>10. CASE Get("ts") # 0
    <2>1. Get("ts") = w /\ w # 0
      BY <1>8, <1>10
    <2>2. PICK l, q : /\ l = [m EXCEPT !.windowStart = w]
                      /\ q = IF v - w >= Window THEN "rotateGetCurr" ELSE "getPrev"
      OBVIOUS
    <2>3. l.now = v /\ l.windowStart = w
      BY <1>2, <1>3, <2>2 DEF Locals
    <2>4. loc' = [loc EXCEPT ![t] = l] /\ pc' = [pc EXCEPT ![t] = q] /\ q # "idle"
      BY <1>2, <1>10, <2>1, <2>2 DEF GetTs, Goto
    <2>5. CallOK(q, l, s, h)
      <3>1. CASE q = "rotateGetCurr"
        <4>1. w + Window <= v
          BY <1>5, <2>2, <3>1
        <4> QED
          BY <1>3, <1>4, <2>1, <2>3, <3>1, <4>1 DEF CallOK
      <3>2. CASE q = "getPrev"
        <4>1. v < w + Window /\ w - Drift <= w /\ w <= w + Drift /\ w <= v + Drift
          BY <1>5, <1>6, <2>1, <2>2, <3>2
        <4>2. Entered(l, s, h)
          BY <1>3, <1>4, <2>1, <2>3, <4>1 DEF Entered
        <4> QED
          BY <1>3, <2>3, <3>2, <4>2 DEF CallOK
      <3> QED
        BY <2>2, <3>1, <3>2
    <2> QED
      BY <1>1, <1>2, <2>4, <2>5, CallReads
  <1> QED
    BY <1>9, <1>10

LEMMA CallRotates ==
  ASSUME IInv, Orderly, SBody, NEW t \in Threads, RotateGetCurr(t)
  PROVE  SBody'
  <1>1. UNCHANGED <<cfg, now, store, counted>> /\ pc[t] = "rotateGetCurr" /\ pc[t] # "idle"
    BY DEF RotateGetCurr
  <1>101. PICK s, h, m : s = store /\ h = counted /\ m = loc[t]
    OBVIOUS
  <1>102. PICK v \in Nat, n \in Nat : v = loc[t].now /\ n = now
    BY <1>1, CallFacts
  <1>2. s = store /\ h = counted /\ m = loc[t] /\ v = m.now /\ n = now
    BY <1>101, <1>102
  <1>3. /\ cfg \in Configs /\ Prompt /\ s \in [Fields -> Cells] /\ h \in Seq(Nat)
        /\ m \in Locals /\ v <= n /\ n <= v + MaxStall /\ Grain <= v
        /\ \A i \in 1..Len(h) : h[i] <= v
        /\ Kept(s, h, v) /\ s["ts"].value # 0
        /\ m.windowStart = s["ts"].value /\ m.windowStart + Window <= v
    BY <1>1, <1>2, CallFacts DEF CallOK
  <1>4. PICK w \in Nat, c \in Nat, p \in {s["prev"].value} : w = s["ts"].value /\ c = s["curr"].value /\ p = s["prev"].value
    BY <1>3 DEF Fields, Cells
  <1>5. /\ Grain <= w /\ w + Window <= v
        /\ Lasting(s["curr"], w - Drift) /\ Windows(h, w, c, p, v)
    BY <1>3, <1>4 DEF Kept, Fields
  <1>6. s["curr"] \in Cells
    BY <1>3 DEF Fields
  <1>7. Get("curr") = IF s["curr"].expiresAt >= n THEN c ELSE 0
    BY <1>2, <1>4, <1>6, ReadLive DEF Get
  <1>8. PICK k, q, o : /\ k = (v - w) \div Window
                       /\ q = IF k = 1 THEN Get("curr") ELSE 0
                       /\ o = w + k * Window
    OBVIOUS
  <1>9. q \in {0, c} /\ (k # 1 => q = 0)
    BY <1>7, <1>8
  <1>10. (k = 1 /\ q # c) => v >= w + 2 * Window - Drift - Late
    <2> SUFFICES ASSUME k = 1, q # c PROVE v >= w + 2 * Window - Drift - Late
      OBVIOUS
    <2>1. ~(s["curr"].expiresAt >= n)
      BY <1>7, <1>8
    <2>2. w + 2 * Window - Drift - Late <= v
      BY <1>3, <1>5, <1>6, <2>1, ExpiredForCall
    <2>3. Window \in Nat /\ Drift \in Nat /\ Late \in Nat
      BY <1>3, Sizes
    <2> QED
      BY <2>2, <2>3
  <1>11. Opened(h, o, q, v)
    BY <1>3, <1>5, <1>8, <1>9, <1>10, WindowRotated
  <1>12. PICK x : x = [m EXCEPT !.next = q]
    OBVIOUS
  <1>13. PICK l : l = [x EXCEPT !.windowStart = o]
    OBVIOUS
  <1>14. l.now = v /\ l.next = q /\ l.windowStart = o
    BY <1>2, <1>3, <1>12, <1>13 DEF Locals
  <1>15. loc' = [loc EXCEPT ![t] = l]
    <2>1. loc' = [loc EXCEPT ![t].next = q, ![t].windowStart = m.windowStart + k * Window]
      BY <1>2, <1>3, <1>4, <1>8 DEF RotateGetCurr
    <2>2. m.windowStart + k * Window = o
      BY <1>3, <1>4, <1>8
    <2> QED
      BY <1>2, <1>12, <1>13, <2>1, <2>2 DEF IInv
  <1>16. PICK y : y = "rotatePrev" /\ y # "idle" /\ pc' = [pc EXCEPT ![t] = y]
    BY DEF RotateGetCurr, Goto
  <1>17. CallOK(y, l, s, h)
    BY <1>3, <1>11, <1>14, <1>16 DEF CallOK
  <1> QED
    BY <1>1, <1>2, <1>15, <1>16, <1>17, CallReads

LEMMA CallReadsPrev ==
  ASSUME IInv, Orderly, SBody, NEW t \in Threads, GetPrev(t)
  PROVE  SBody'
  <1>1. UNCHANGED <<cfg, now, store, counted>> /\ pc[t] = "getPrev" /\ pc[t] # "idle"
    BY DEF GetPrev
  <1>2. PICK s, h, m : s = store /\ h = counted /\ m = loc[t]
    OBVIOUS
  <1>3. PICK n \in Nat : n = now
    BY <1>1, CallFacts
  <1>4. /\ cfg \in Configs /\ Prompt /\ s \in [Fields -> Cells] /\ m \in Locals /\ n <= m.now + MaxStall
        /\ Grain <= m.now /\ (\A i \in 1..Len(h) : h[i] <= m.now) /\ Entered(m, s, h)
    BY <1>1, <1>2, <1>3, CallFacts DEF CallOK
  <1>5. s["prev"] \in Cells /\ "prev" \in Fields
    BY <1>4 DEF Fields
  <1>6. s["prev"].expiresAt >= n
    BY <1>4, <1>5, EnteredLive
  <1>7. Get("prev") = s["prev"].value
    BY <1>2, <1>3, <1>5, <1>6, ReadLive DEF Get
  <1>8. PICK l : l = [m EXCEPT !.prev = Get("prev")]
    OBVIOUS
  <1>9. l.now = m.now /\ l.windowStart = m.windowStart /\ l.prev = s["prev"].value
    BY <1>4, <1>7, <1>8 DEF Locals
  <1>10. Entered(l, s, h)
    BY <1>4, <1>9 DEF Entered
  <1>11. PICK p : p = "getCurr" /\ p # "idle" /\ pc' = [pc EXCEPT ![t] = p]
    BY DEF GetPrev, Goto
  <1>12. loc' = [loc EXCEPT ![t] = l]
    BY <1>2, <1>8 DEF GetPrev
  <1>13. CallOK(p, l, s, h)
    BY <1>4, <1>9, <1>10, <1>11 DEF CallOK
  <1> QED
    BY <1>1, <1>2, <1>11, <1>12, <1>13, CallReads

LEMMA CallDecides ==
  ASSUME IInv, Orderly, SBody, NEW t \in Threads, GetCurr(t)
  PROVE  SBody'
  <1>1. UNCHANGED <<cfg, now, store, counted>> /\ pc[t] = "getCurr" /\ pc[t] # "idle"
    BY DEF GetCurr
  <1>2. PICK s, h, m : s = store /\ h = counted /\ m = loc[t]
    OBVIOUS
  <1>3. PICK n \in Nat : n = now
    BY <1>1, CallFacts
  <1>4. /\ cfg \in Configs /\ Prompt /\ s \in [Fields -> Cells] /\ h \in Seq(Nat) /\ Rolling(h)
        /\ m \in Locals /\ m.now <= n /\ n <= m.now + MaxStall
        /\ Grain <= m.now /\ (\A i \in 1..Len(h) : h[i] <= m.now) /\ Entered(m, s, h)
        /\ m.prev = s["prev"].value
    BY <1>1, <1>2, <1>3, CallFacts DEF CallOK
  <1>5. s["curr"] \in Cells /\ "curr" \in Fields
    BY <1>4 DEF Fields
  <1>6. s["curr"].expiresAt >= n
    BY <1>4, <1>5, EnteredLive
  <1>7. PICK c \in Nat : c = s["curr"].value
    BY <1>5 DEF Cells
  <1>8. Get("curr") = c
    BY <1>2, <1>3, <1>5, <1>6, <1>7, ReadLive DEF Get
  <1>9. PICK z \in Int, r \in Nat : z = m.now - m.windowStart /\ r = m.prev
    BY <1>4 DEF Locals
  <1>10. PICK a \in Outcomes(z, r, c) :
           \/ a /\ loc' = [loc EXCEPT ![t].curr = c] /\ Goto(t, "incr")
           \/ ~a /\ Return(t)
    BY <1>2, <1>8, <1>9 DEF GetCurr
  <1>11. CASE a /\ loc' = [loc EXCEPT ![t].curr = c] /\ Goto(t, "incr")
    <2>1. PICK l : l = [m EXCEPT !.curr = c]
      OBVIOUS
    <2>2. /\ l.now = m.now /\ l.windowStart = m.windowStart /\ l.prev = m.prev /\ l.curr = c
      BY <1>4, <2>1 DEF Locals
    <2>3. Entered(l, s, h)
      BY <1>4, <2>2 DEF Entered
    <2>4. z < Window
      <3>1. m.now < m.windowStart + Window /\ m.now \in Nat /\ m.windowStart \in Nat /\ Window \in Nat
        BY <1>4, Sizes DEF Entered, Locals
      <3> QED
        BY <1>9, <3>1
    <2>5. LetsThrough(z, r, c) /\ c < Limit
      BY <1>4, <1>10, <1>11, <2>4, AdmittedBelow
    <2>6. PICK p : p = "incr" /\ p # "idle" /\ pc' = [pc EXCEPT ![t] = p]
      BY <1>11 DEF Goto
    <2>7. loc' = [loc EXCEPT ![t] = l]
      BY <1>2, <1>11, <2>1
    <2>8. CallOK(p, l, s, h)
      BY <1>4, <1>7, <1>9, <2>2, <2>3, <2>5, <2>6 DEF CallOK
    <2> QED
      BY <1>1, <1>2, <2>6, <2>7, <2>8, CallReads
  <1>12. CASE ~a /\ Return(t)
    <2>1. PICK p, l : p = "idle" /\ l = IdleLocal /\ pc' = [pc EXCEPT ![t] = p] /\ loc' = [loc EXCEPT ![t] = l]
      BY <1>12 DEF Return, Goto
    <2>2. m.now \in Nat /\ Kept(s, h, m.now)
      BY <1>4 DEF Entered, Locals
    <2>3. Kept(s, h, n)
      BY <1>4, <2>2, KeptLater
    <2>4. /\ s = store' /\ h = counted' /\ Rolling(h)
          /\ (p = "idle" => Kept(s, h, now)) /\ (p # "idle" => CallOK(p, l, s, h))
      BY <1>1, <1>2, <1>3, <1>4, <2>1, <2>3
    <2>5. UNCHANGED <<cfg, now>> /\ \A u \in Threads : u # t => pc[u] = "idle"
      BY <1>1, CallFacts
    <2> QED
      BY <2>1, <2>4, <2>5, CallMoved
  <1> QED
    BY <1>10, <1>11, <1>12

LEMMA CallCounts ==
  ASSUME IInv, Orderly, SBody, NEW t \in Threads, Incr(t)
  PROVE  SBody'
  <1>1. /\ UNCHANGED <<cfg, now>> /\ pc[t] = "incr" /\ pc[t] # "idle" /\ Return(t)
        /\ store' = [store EXCEPT !["curr"] = Incremented(@, now, StateTTL, FALSE)]
        /\ counted' = Append(counted, loc[t].now)
    BY DEF Incr, Increment
  <1>2. PICK s, h, m : s = store /\ h = counted /\ m = loc[t]
    OBVIOUS
  <1>3. PICK n \in Nat, v \in Nat, o \in Nat : n = now /\ v = m.now /\ o = m.windowStart
    BY <1>1, <1>2, CallFacts
  <1>4. /\ cfg \in Configs /\ Prompt /\ s \in [Fields -> Cells] /\ h \in Seq(Nat) /\ Rolling(h)
        /\ m \in Locals /\ v <= n /\ n <= m.now + MaxStall
        /\ (\A i \in 1..Len(h) : h[i] <= v) /\ Entered(m, s, h)
        /\ m.prev = s["prev"].value /\ m.curr = s["curr"].value /\ m.curr < Limit
        /\ LetsThrough(v - o, m.prev, m.curr)
    BY <1>1, <1>2, <1>3, CallFacts DEF CallOK
  <1>5. s["curr"] \in Cells /\ "curr" \in Fields
    BY <1>4 DEF Fields
  <1>6. s["curr"].expiresAt >= n
    BY <1>4, <1>5, EnteredLive
  <1>7. PICK w \in Nat, c \in Nat, p \in Nat : w = s["ts"].value /\ c = s["curr"].value /\ p = s["prev"].value
    BY <1>4 DEF Fields, Cells
  <1>8. /\ Window \in Nat \ {0} /\ Drift \in Nat
    BY <1>4, Sizes
  <1>9. /\ w # 0 /\ Kept(s, h, v)
        /\ w - Drift <= o /\ o <= w + Drift /\ o <= v + Drift /\ v < o + Window
    BY <1>3, <1>4, <1>7 DEF Entered
  <1>10. /\ Grain <= w /\ w <= v + Drift
         /\ \A f \in Fields : Lasting(s[f], w - Drift)
         /\ Windows(h, w, c, p, v)
    BY <1>7, <1>9 DEF Kept
  <1>11. PICK x : x = Incremented(s["curr"], n, StateTTL, FALSE)
    OBVIOUS
  <1>12. x.value = c + 1 /\ x.expiresAt = s["curr"].expiresAt
    BY <1>5, <1>6, <1>7, <1>11 DEF Incremented, Live
  <1>13. PICK z : z = store' /\ z = [s EXCEPT !["curr"] = x]
    BY <1>1, <1>2, <1>3, <1>11
  <1>14. /\ z["ts"] = s["ts"] /\ z["prev"] = s["prev"] /\ z["curr"] = x
    BY <1>4, <1>13 DEF Fields
  <1>15. PICK g : g = counted' /\ g = Append(h, v)
    BY <1>1, <1>2, <1>3
  <1>16. v < w + Window + Drift /\ w - Drift <= v
    BY <1>8, <1>9, <1>10
  <1>17. Windows(g, w, c + 1, p, v)
    BY <1>4, <1>7, <1>9, <1>10, <1>15, <1>16, WindowAdmits
  <1>18. Longer(g, h, v)
    BY <1>4, <1>15, AppendLonger
  <1>19. Rolling(g)
    <2>1. LetsThrough(v - o, p, c) /\ c < Limit
      BY <1>4, <1>7
    <2> QED
      BY <1>4, <1>9, <1>10, <1>16, <1>18, <2>1, RollingAdmits
  <1>20. Kept(z, g, v)
    <2>1. z["ts"].value = w /\ z["prev"].value = p /\ z["curr"].value = c + 1
      BY <1>7, <1>12, <1>14
    <2>2. \A f \in Fields : Lasting(z[f], w - Drift)
      BY <1>10, <1>12, <1>14 DEF Fields, Lasting
    <2> QED
      BY <1>9, <1>10, <1>17, <2>1, <2>2 DEF Kept
  <1>21. z \in [Fields -> Cells] /\ g \in Seq(Nat)
    <2>1. x \in Cells
      <3>1. [value |-> c + 1, expiresAt |-> s["curr"].expiresAt] \in Cells
        BY <1>5 DEF Cells
      <3> QED
        BY <1>5, <1>6, <1>7, <1>11, <3>1 DEF Incremented, Live
    <2> QED
      BY <1>4, <1>5, <1>13, <1>18, <2>1 DEF Longer
  <1>22. Kept(z, g, n)
    BY <1>4, <1>20, <1>21, KeptLater
  <1>23. PICK q, l : q = "idle" /\ l = IdleLocal /\ pc' = [pc EXCEPT ![t] = q] /\ loc' = [loc EXCEPT ![t] = l]
    BY <1>1 DEF Return, Goto
  <1>24. /\ z = store' /\ g = counted' /\ Rolling(g)
         /\ (q = "idle" => Kept(z, g, now)) /\ (q # "idle" => CallOK(q, l, z, g))
    BY <1>3, <1>13, <1>15, <1>19, <1>22, <1>23
  <1>25. UNCHANGED <<cfg, now>> /\ \A u \in Threads : u # t => pc[u] = "idle"
    BY <1>1, CallFacts
  <1> QED
    BY <1>23, <1>24, <1>25, CallMoved

(* The store after a Set. *)
LEMMA SetStore ==
  ASSUME cfg \in Configs, NEW s \in [Fields -> Cells], NEW f \in Fields, NEW v \in Nat, NEW n \in Nat,
         NEW z, z = [s EXCEPT ![f] = Written(v, n, StateTTL)], NEW o \in Nat, o <= n
  PROVE  /\ z \in [Fields -> Cells] /\ z[f].value = v /\ Lasting(z[f], o)
         /\ \A g \in Fields : g # f => z[g] = s[g]
  <1>1. Window \in Nat
    BY Sizes
  <1>2. PICK x : x = Written(v, n, StateTTL)
    OBVIOUS
  <1>3. x \in Cells /\ x.value = v /\ x.expiresAt = n + 2 * Window
    BY <1>1, <1>2 DEF Written, StateTTL, Cells
  <1>4. z = [s EXCEPT ![f] = x]
    BY <1>2
  <1>5. z \in [Fields -> Cells] /\ z[f] = x /\ \A g \in Fields : g # f => z[g] = s[g]
    BY <1>3, <1>4
  <1>6. Lasting(x, o)
    BY <1>1, <1>3 DEF Lasting
  <1> QED
    BY <1>3, <1>5, <1>6

LEMMA CallSets ==
  ASSUME IInv, Orderly, SBody, NEW t \in Threads, Set(t)
  PROVE  SBody'
  <1>1. UNCHANGED <<cfg, now, loc, counted>> /\ pc[t] \in Sets /\ pc[t] # "idle"
    BY DEF Set, Sets
  <1>2. PICK s, h, l, p : s = store /\ h = counted /\ l = loc[t] /\ p = pc[t]
    OBVIOUS
  <1>3. PICK n \in Nat, m \in Nat, o \in Nat : n = now /\ m = l.now /\ o = l.windowStart
    BY <1>1, <1>2, CallFacts
  <1>4. /\ cfg \in Configs /\ Prompt /\ s \in [Fields -> Cells] /\ h \in Seq(Nat) /\ Rolling(h)
        /\ l \in Locals /\ m <= n
        /\ CallOK(p, l, s, h)
    BY <1>1, <1>2, <1>3, CallFacts
  <1>5. /\ Grain <= m /\ \A i \in 1..Len(h) : h[i] <= m
        /\ p \in {"initTs", "initCurr", "initPrev"} => Opened(h, o, 0, m)
        /\ p \in {"rotatePrev", "rotateCurr", "rotateTs"} => Opened(h, o, l.next, m)
        /\ p \in {"initCurr", "initPrev"} => StartSet(s, l)
        /\ p \in {"initPrev", "rotateTs"} => CurrSet(s, l)
        /\ p \in {"rotateCurr", "rotateTs"} => PrevSet(s, l)
    BY <1>3, <1>4 DEF CallOK
  <1>6. o <= m /\ o <= n
    <2>1. \A q : Opened(h, o, q, m) => o <= m
      BY DEF Opened
    <2>2. o <= m
      BY <1>1, <1>2, <1>5, <2>1 DEF Sets
    <2> QED
      BY <1>4, <2>2
  <1>7. PICK f, v, q : f = SetAccess(t)[1] /\ v = SetAccess(t)[2] /\ q = SetAccess(t)[3]
    OBVIOUS
  <1>8. PICK z : z = store' /\ z = [s EXCEPT ![f] = Written(v, n, StateTTL)]
    BY <1>2, <1>3, <1>7 DEF Set, Write
  <1>9. f \in Fields /\ v \in Nat
    BY <1>1, <1>7, AccessOK
  <1>10. /\ z \in [Fields -> Cells] /\ z[f].value = v /\ Lasting(z[f], o)
         /\ \A g \in Fields : g # f => z[g] = s[g]
    BY <1>4, <1>6, <1>8, <1>9, SetStore
  <1>11. CallOK(q, l, z, h) /\ q # "idle"
    <2>1. CASE p = "initTs"
      <3>1. f = "ts" /\ v = Float64(o, Grain) /\ q = "initCurr"
        BY <1>2, <1>3, <1>7, <2>1 DEF SetAccess
      <3>2. StartSet(z, l)
        BY <1>3, <1>10, <3>1 DEF StartSet
      <3> QED
        BY <1>3, <1>5, <2>1, <3>1, <3>2 DEF CallOK
    <2>2. CASE p = "initCurr"
      <3>1. f = "curr" /\ v = 0 /\ q = "initPrev"
        BY <1>2, <1>7, <2>2 DEF SetAccess
      <3>2. StartSet(z, l) /\ CurrSet(z, l)
        BY <1>3, <1>5, <1>10, <2>2, <3>1 DEF StartSet, CurrSet, Fields
      <3> QED
        BY <1>3, <1>5, <2>2, <3>1, <3>2 DEF CallOK
    <2>3. CASE p = "initPrev"
      <3>1. f = "prev" /\ v = 0 /\ q = "getPrev"
        BY <1>2, <1>7, <2>3 DEF SetAccess
      <3>2. StartSet(z, l) /\ CurrSet(z, l) /\ z["prev"].value = 0 /\ Lasting(z["prev"], l.windowStart)
        BY <1>3, <1>5, <1>10, <2>3, <3>1 DEF StartSet, CurrSet, Fields
      <3>3. Opened(h, l.windowStart, 0, l.now)
        BY <1>3, <1>5, <2>3
      <3>4. Entered(l, z, h)
        BY <1>4, <1>10, <3>2, <3>3, Entering
      <3> QED
        BY <1>3, <1>5, <3>1, <3>4 DEF CallOK
    <2>4. CASE p = "rotatePrev"
      <3>1. f = "prev" /\ v = l.next /\ q = "rotateCurr"
        BY <1>2, <1>7, <2>4 DEF SetAccess
      <3>2. PrevSet(z, l)
        BY <1>3, <1>10, <3>1 DEF PrevSet
      <3> QED
        BY <1>3, <1>5, <2>4, <3>1, <3>2 DEF CallOK
    <2>5. CASE p = "rotateCurr"
      <3>1. f = "curr" /\ v = 0 /\ q = "rotateTs"
        BY <1>2, <1>7, <2>5 DEF SetAccess
      <3>2. PrevSet(z, l) /\ CurrSet(z, l)
        BY <1>3, <1>5, <1>10, <2>5, <3>1 DEF PrevSet, CurrSet, Fields
      <3> QED
        BY <1>3, <1>5, <2>5, <3>1, <3>2 DEF CallOK
    <2>6. CASE p = "rotateTs"
      <3>1. f = "ts" /\ v = Float64(o, Grain) /\ q = "getPrev"
        BY <1>2, <1>3, <1>7, <2>6 DEF SetAccess
      <3>2. StartSet(z, l) /\ CurrSet(z, l) /\ z["prev"].value = l.next /\ Lasting(z["prev"], l.windowStart)
        BY <1>3, <1>5, <1>10, <2>6, <3>1 DEF StartSet, CurrSet, PrevSet, Fields
      <3>3. Opened(h, l.windowStart, l.next, l.now)
        BY <1>3, <1>5, <2>6
      <3>4. Entered(l, z, h)
        BY <1>4, <1>10, <3>2, <3>3, Entering
      <3> QED
        BY <1>3, <1>5, <3>1, <3>4 DEF CallOK
    <2> QED
      BY <1>1, <1>2, <2>1, <2>2, <2>3, <2>4, <2>5, <2>6 DEF Sets
  <1>12. pc' = [pc EXCEPT ![t] = q] /\ loc' = [loc EXCEPT ![t] = l]
    BY <1>1, <1>2, <1>7 DEF Set, Goto, IInv
  <1>13. /\ Rolling(counted')
         /\ (q = "idle" => Kept(store', counted', now))
         /\ (q # "idle" => CallOK(q, l, store', counted'))
    BY <1>1, <1>2, <1>4, <1>8, <1>11
  <1>14. UNCHANGED <<cfg, now>> /\ \A u \in Threads : u # t => pc[u] = "idle"
    BY <1>1, CallFacts
  <1> QED
    BY <1>12, <1>13, <1>14, CallMoved

LEMMA TimePasses ==
  ASSUME IInv, Orderly, SBody, Tick
  PROVE  SBody'
  <1>1. UNCHANGED <<cfg, store, pc, loc, counted>> /\ now' = now + 1
    BY DEF Tick
  <1>2. now \in Nat /\ now' \in Nat /\ now <= now'
    BY <1>1, Facts
  <1>20. PICK n \in Nat : n = now
    BY <1>2
  <1>21. PICK m \in Nat : m = now'
    BY <1>2
  <1>22. PICK s : s = store
    OBVIOUS
  <1>23. PICK h : h = counted
    OBVIOUS
  <1>3. /\ cfg \in Configs /\ s \in [Fields -> Cells] /\ h \in Seq(Nat) /\ Grain \in Nat
        /\ Rolling(h) /\ Grain <= n
    BY <1>2, <1>20, <1>21, <1>22, <1>23, Facts DEF SBody
  <1>4. (Grain <= now)'
    BY <1>1, <1>2, <1>20, <1>21, <1>22, <1>23, <1>3, SameSizes
  <1>5. Rolling(counted)'
    <2>1. Rolling(h)'
      BY <1>1, <1>3, SameRolling
    <2> QED
      BY <1>1, <1>2, <1>20, <1>21, <1>22, <1>23, <2>1
  <1>6. ASSUME NoCall' PROVE Kept(store, counted, now)'
    <2>1. Kept(s, h, n)
      BY <1>1, <1>2, <1>20, <1>21, <1>22, <1>23, <1>6 DEF SBody, NoCall
    <2>2. Kept(s, h, m)
      BY <1>2, <1>20, <1>21, <1>22, <1>23, <1>3, <2>1, KeptLater
    <2>3. Kept(s, h, m)'
      BY <1>1, <2>2, SameKept
    <2> QED
      BY <1>1, <1>2, <1>20, <1>21, <1>22, <1>23, <2>3
  <1>7. OneCall'
    <2> SUFFICES ASSUME NEW v \in Threads, pc'[v] # "idle"
                 PROVE  /\ \A u \in Threads : u # v => pc'[u] = "idle"
                        /\ CallOK(pc[v], loc[v], store, counted)'
      BY DEF OneCall
    <2>1. PICK p, l : p = pc[v] /\ l = loc[v]
      OBVIOUS
    <2>2. (\A u \in Threads : u # v => pc[u] = "idle") /\ CallOK(p, l, s, h)
      BY <1>1, <1>2, <1>20, <1>21, <1>22, <1>23, <2>1 DEF SBody, OneCall
    <2>3. CallOK(p, l, s, h)'
      BY <1>1, <2>2, SameCall
    <2> QED
      BY <1>1, <1>2, <1>20, <1>21, <1>22, <1>23, <2>1, <2>2, <2>3
  <1> QED
    BY <1>4, <1>5, <1>6, <1>7 DEF SBody

LEMMA NothingMoves ==
  ASSUME SBody, UNCHANGED vars
  PROVE  SBody'
  <1>1. UNCHANGED <<cfg, now, store, pc, loc, counted>>
    BY DEF vars
  <1>2. PICK s, h, n : s = store /\ h = counted /\ n = now
    OBVIOUS
  <1>3. (Grain <= now)'
    BY <1>1, SameSizes DEF SBody
  <1>4. Rolling(counted)'
    <2>1. Rolling(h)'
      BY <1>1, <1>2, SameRolling DEF SBody
    <2> QED
      BY <1>1, <1>2, <2>1
  <1>5. ASSUME NoCall' PROVE Kept(store, counted, now)'
    <2>1. Kept(s, h, n)
      BY <1>1, <1>2, <1>5 DEF SBody, NoCall
    <2>2. Kept(s, h, n)'
      BY <1>1, <2>1, SameKept
    <2> QED
      BY <1>1, <1>2, <2>2
  <1>6. OneCall'
    <2> SUFFICES ASSUME NEW v \in Threads, pc'[v] # "idle"
                 PROVE  /\ \A u \in Threads : u # v => pc'[u] = "idle"
                        /\ CallOK(pc[v], loc[v], store, counted)'
      BY DEF OneCall
    <2>1. PICK p, l : p = pc[v] /\ l = loc[v]
      OBVIOUS
    <2>2. (\A u \in Threads : u # v => pc[u] = "idle") /\ CallOK(p, l, s, h)
      BY <1>1, <1>2, <2>1 DEF SBody, OneCall
    <2>3. CallOK(p, l, s, h)'
      BY <1>1, <2>2, SameCall
    <2> QED
      BY <1>1, <1>2, <2>1, <2>2, <2>3
  <1> QED
    BY <1>3, <1>4, <1>5, <1>6 DEF SBody

LEMMA InitOrderly == Init => SInv
  <1> SUFFICES ASSUME Init PROVE SBody
    BY DEF SInv
  <1>1. cfg \in Configs /\ now = Grain /\ counted = << >>
    BY DEF Init
  <1>2. Grain <= now
    BY <1>1, Sizes
  <1>3. Rolling(counted)
    BY <1>1 DEF Rolling
  <1>4. Kept(store, counted, now)
    <2>1. store["ts"].value = 0
      BY DEF Init, Fields, EmptyCell
    <2> QED
      BY <1>1, <2>1 DEF Kept
  <1>5. OneCall
    BY DEF Init, OneCall
  <1> QED
    BY <1>2, <1>3, <1>4, <1>5 DEF SBody

LEMMA StepOrderly == IInv /\ SInv /\ [Next]_vars => SInv'
  <1> SUFFICES ASSUME IInv, SInv, [Next]_vars, Orderly' PROVE SBody'
    BY DEF SInv
  <1>1. UNCHANGED cfg
    BY DEF Next, Step, Allow, GetTs, RotateGetCurr, Set, GetPrev, GetCurr, Incr, StoreError, Tick, vars
  <1>2. Orderly /\ SBody
    BY <1>1, SameSizes DEF SInv
  <1>3. ASSUME NEW t \in Threads, Allow(t) PROVE SBody'
    BY <1>2, <1>3, CallStarts
  <1>4. ASSUME NEW t \in Threads, Step(t) PROVE SBody'
    <2>1. ~StoreError(t)
      BY <1>2 DEF Orderly, Undisturbed, StoreError
    <2> QED
      BY <1>2, <1>4, <2>1, CallReadsStart, CallRotates, CallSets, CallReadsPrev, CallDecides, CallCounts DEF Step
  <1>5. CASE Tick
    BY <1>2, <1>5, TimePasses
  <1>6. CASE UNCHANGED vars
    BY <1>2, <1>6, NothingMoves
  <1> QED
    BY <1>3, <1>4, <1>5, <1>6 DEF Next

(* While calls come one after the other, the three keys are those of the   *)
(* window that the last call has entered, at every point of a call         *)
(* (sliding_window.go:62-143).                                             *)
THEOREM OrderlyInvariant == Spec => [](IInv /\ SInv)
  <1>1. Init => IInv /\ SInv
    BY InitHolds, InitOrderly
  <1>2. IInv /\ SInv /\ [Next]_vars => (IInv /\ SInv)'
    BY StepKeeps, StepOrderly
  <1> QED
    BY <1>1, <1>2, PTL DEF Spec

(* The promise of the sliding estimate, for any Limit, Window, stall and   *)
(* precision of float64 (sliding_window.go:81-137).                        *)
THEOREM RollingLimitHolds == Spec => []RollingLimit
  <1>1. SInv => RollingLimit
    BY DEF SInv, SBody, Orderly, RollingLimit, Rolling, Near, Within
  <1> QED
    BY <1>1, OrderlyInvariant, PTL

-----------------------------------------------------------------------------
(* Calls of an interval, counted by their places in the history. *)
LEMMA CountAtLeast ==
  ASSUME counted \in Seq(Nat), NEW a \in Int, NEW b \in Int, NEW i \in Nat, NEW k \in Nat,
         i + k <= Len(counted),
         \A j \in 1..Len(counted) : (i < j /\ j <= i + k) => a <= counted[j] /\ counted[j] < b
  PROVE  k <= CountedIn(a, b)
  <1> DEFINE S == { j \in 1..Len(counted) : a <= counted[j] /\ counted[j] < b }
             P == (i + 1)..(i + k)
  <1>1. Len(counted) \in Nat
    BY LenProperties
  <1>2. IsFiniteSet(S) /\ Cardinality(S) \in Nat
    <2>1. IsFiniteSet(1..Len(counted))
      BY <1>1, FS_Interval
    <2> QED
      BY <2>1, FS_Subset, FS_CardinalityType
  <1>3. P \subseteq S
    BY <1>1
  <1>4. Cardinality(P) = k
    BY FS_Interval
  <1>5. Cardinality(P) <= Cardinality(S)
    BY <1>2, <1>3, FS_Subset
  <1> QED
    BY <1>2, <1>4, <1>5 DEF CountedIn

LEMMA CountAtMost ==
  ASSUME counted \in Seq(Nat), NEW a \in Int, NEW b \in Int, NEW i \in Nat, NEW k \in Nat,
         \A j \in 1..Len(counted) : (a <= counted[j] /\ counted[j] < b) => i < j /\ j <= i + k
  PROVE  CountedIn(a, b) <= k
  <1> DEFINE S == { j \in 1..Len(counted) : a <= counted[j] /\ counted[j] < b }
             P == (i + 1)..(i + k)
  <1>1. S \subseteq P
    BY LenProperties
  <1>2. IsFiniteSet(P) /\ Cardinality(P) = k
    BY FS_Interval
  <1>3. Cardinality(S) <= Cardinality(P)
    BY <1>1, <1>2, FS_Subset
  <1> QED
    BY <1>2, <1>3 DEF CountedIn

(* The counts of a window and the calls of history in it. *)
LEMMA WindowsCount ==
  ASSUME cfg \in Configs, counted \in Seq(Nat), NEW w \in Nat, NEW c, NEW p, NEW n \in Nat,
         Windows(counted, w, c, p, n)
  PROVE  /\ CountedIn(w + Blur, w + Window) <= c
         /\ c <= CountedIn(w - Blur, w + Window + Blur)
         /\ p <= CountedIn(w - Window - Blur, w + Blur)
         /\ n < w + Window - Blur - Late =>
               CountedIn(w - Window + Blur + Late, w - Blur) <= p
  <1>1. Limit \in Nat /\ Window \in Nat /\ Drift \in Nat /\ Blur \in Nat /\ Blur = 3 * Drift /\ Late \in Nat
    BY Sizes
  <1>2. PICK h : h = counted
    OBVIOUS
  <1>3. \A i \in 1..Len(h) : h[i] \in Nat
    BY <1>2, ElementOfSeq
  <1>4. PICK len \in Nat : len = Len(h)
    BY <1>2, LenProperties
  <1>5. /\ c \in Nat /\ p \in Nat /\ c + p <= len
        /\ \A i \in 1..len : h[i] < w + Window + Drift
        /\ \A i \in 1..len : i > len - c => h[i] >= w - Drift
        /\ \A i \in 1..len : i <= len - c => h[i] < w + 2 * Drift
        /\ \A i \in 1..len : i > len - c - p => h[i] >= w - Window - 2 * Drift
        /\ \A i \in 1..len : i <= len - c - p =>
              \/ h[i] < w - Window + Blur + Late
              \/ p = 0 /\ n >= w + Window - 2 * Drift - Late
    BY <1>1, <1>2, <1>4 DEF Windows
  <1>12. c \in Nat /\ p \in Nat /\ c + p <= len
    BY <1>5
  <1>13. len - c \in Nat /\ len - c - p \in Nat
    BY <1>4, <1>12
  <1>6. PICK y \in Nat : y = len - c
    BY <1>13
  <1>7. PICK z \in Nat : z = len - c - p
    BY <1>13
  <1>8. CountedIn(w + Blur, w + Window) <= c
    <2>1. ASSUME NEW j \in 1..len, w + Blur <= h[j] /\ h[j] < w + Window
          PROVE  y < j /\ j <= y + c
      <3>1. h[j] \in Nat /\ ~(h[j] < w + 2 * Drift)
        BY <1>1, <1>3, <1>4, <2>1
      <3> QED
        BY <1>4, <1>5, <1>6, <1>12, <3>1
    <2>2. w + Blur \in Int /\ w + Window \in Int
      BY <1>1
    <2> QED
      BY <1>1, <1>2, <1>4, <1>12, <2>1, <2>2, CountAtMost
  <1>9. c <= CountedIn(w - Blur, w + Window + Blur)
    <2>1. ASSUME NEW j \in 1..len, y < j /\ j <= y + c
          PROVE  w - Blur <= h[j] /\ h[j] < w + Window + Blur
      <3>1. h[j] \in Nat /\ j > len - c
        BY <1>3, <1>4, <1>6, <1>12, <2>1
      <3>2. h[j] >= w - Drift /\ h[j] < w + Window + Drift
        BY <1>5, <3>1
      <3> QED
        BY <1>1, <3>1, <3>2
    <2>2. y + c <= len
      BY <1>4, <1>6, <1>12
    <2>3. w - Blur \in Int /\ w + Window + Blur \in Int
      BY <1>1
    <2> QED
      BY <1>2, <1>4, <1>12, <2>1, <2>2, <2>3, CountAtLeast
  <1>10. p <= CountedIn(w - Window - Blur, w + Blur)
    <2>1. ASSUME NEW j \in 1..len, z < j /\ j <= z + p
          PROVE  w - Window - Blur <= h[j] /\ h[j] < w + Blur
      <3>1. h[j] \in Nat /\ j > len - c - p /\ j <= len - c
        BY <1>3, <1>4, <1>7, <1>12, <2>1
      <3>2. h[j] >= w - Window - 2 * Drift /\ h[j] < w + 2 * Drift
        BY <1>5, <3>1
      <3> QED
        BY <1>1, <3>1, <3>2
    <2>2. z + p <= len
      BY <1>4, <1>7, <1>12
    <2>3. w - Window - Blur \in Int /\ w + Blur \in Int
      BY <1>1
    <2> QED
      BY <1>2, <1>4, <1>12, <2>1, <2>2, <2>3, CountAtLeast
  <1>11. ASSUME n < w + Window - Blur - Late
         PROVE  CountedIn(w - Window + Blur + Late, w - Blur) <= p
    <2>1. ASSUME NEW j \in 1..len, w - Window + Blur + Late <= h[j] /\ h[j] < w - Blur
          PROVE  z < j /\ j <= z + p
      <3>1. h[j] \in Nat /\ ~(h[j] < w - Window + Blur + Late) /\ ~(h[j] >= w - Drift)
        BY <1>1, <1>3, <1>4, <2>1
      <3>2. ~(n >= w + Window - 2 * Drift - Late)
        BY <1>1, <1>11
      <3>3. ~(j > len - c) /\ ~(j <= len - c - p)
        BY <1>5, <3>1, <3>2
      <3> QED
        BY <1>4, <1>7, <1>12, <3>3
    <2>2. w - Window + Blur + Late \in Int /\ w - Blur \in Int
      BY <1>1
    <2> QED
      BY <1>2, <1>4, <1>5, <1>7, <2>1, <2>2, CountAtMost
  <1> QED
    BY <1>8, <1>9, <1>10, <1>11

(* Between calls the counts that a call will read are those of history     *)
(* (sliding_window.go:62-114, 137).                                        *)
THEOREM CountsAreHistory == Spec => []CountsMatchHistory
  <1>1. IInv /\ SInv => CountsMatchHistory
    <2> SUFFICES ASSUME IInv, SInv, Orderly, NoCall, Get("ts") # 0, now < Get("ts") + 2 * Window - Blur
                 PROVE  /\ CountedIn(Get("ts") + Blur, Get("ts") + Window) <= Get("curr")
                        /\ Get("curr") <= CountedIn(Get("ts") - Blur, Get("ts") + Window + Blur)
                        /\ Get("prev") <= CountedIn(Get("ts") - Window - Blur, Get("ts") + Blur)
                        /\ now < Get("ts") + Window - Blur - Late =>
                              CountedIn(Get("ts") - Window + Blur + Late, Get("ts") - Blur) <= Get("prev")
      BY DEF CountsMatchHistory, Orderly, NoCall
    <2>1. /\ cfg \in Configs /\ now \in Nat /\ counted \in Seq(Nat)
          /\ store \in [Fields -> Cells] /\ Kept(store, counted, now)
      BY Facts DEF SInv, SBody
    <2>2. Window \in Nat /\ Drift \in Nat /\ Blur = 3 * Drift
      BY <2>1, Sizes
    <2>3. /\ store["ts"] \in Cells /\ store["curr"] \in Cells /\ store["prev"] \in Cells
      BY <2>1 DEF Fields
    <2>4. Get("ts") = store["ts"].value
      BY <2>1, <2>3, ReadLive DEF Get
    <2>5. PICK w \in Nat : w = Get("ts")
      BY <2>3, <2>4 DEF Cells
    <2>6. /\ \A f \in Fields : Lasting(store[f], w - Drift)
          /\ Windows(counted, w, store["curr"].value, store["prev"].value, now)
      BY <2>1, <2>4, <2>5 DEF Kept
    <2>7. store["curr"].expiresAt >= now /\ store["prev"].expiresAt >= now
      <3>1. /\ store["curr"].expiresAt >= w - Drift + 2 * Window
            /\ store["prev"].expiresAt >= w - Drift + 2 * Window
        BY <2>6 DEF Lasting, Fields
      <3>2. store["curr"].expiresAt \in Nat /\ store["prev"].expiresAt \in Nat
        BY <2>3 DEF Cells
      <3>3. now \in Nat /\ now < w + 2 * Window - Blur
        BY <2>1, <2>5
      <3> QED
        BY <2>2, <2>5, <3>1, <3>2, <3>3
    <2>8. Get("curr") = store["curr"].value /\ Get("prev") = store["prev"].value
      BY <2>1, <2>3, <2>7, ReadLive DEF Get
    <2> QED
      BY <2>1, <2>5, <2>6, <2>8, WindowsCount
  <1> QED
    BY <1>1, OrderlyInvariant, PTL

(* A denial needs Limit calls in the two windows, if float64 is precise    *)
(* enough for the number of calls.                                         *)
LEMMA DenialFills ==
  ASSUME NEW lim \in Nat, NEW w \in Nat \ {0}, NEW d \in Nat, lim * d < w,
         NEW s \in Int, s >= -d, s <= w, NEW p \in Nat, NEW c \in Nat,
         p * (w - s) + c * w >= lim * w
  PROVE  lim <= p + c
  <1> SUFFICES ASSUME lim > p + c PROVE FALSE
    OBVIOUS
  <1>1. PICK y \in Nat : lim = p + c + 1 + y
    <2>1. lim - p - c - 1 \in Nat
      OBVIOUS
    <2> QED
      BY <2>1
  <1>2. PICK x \in Nat : x = w - s /\ x <= w + d
    <2>1. w - s \in Nat /\ w - s <= w + d
      OBVIOUS
    <2> QED
      BY <2>1
  <1>3. PICK px \in Nat, pw \in Nat, pd \in Nat : px = p * x /\ pw = p * w /\ pd = p * d
    BY <1>2, ProductNat
  <1>4. PICK cw \in Nat, yw \in Nat, ld \in Nat : cw = c * w /\ yw = y * w /\ ld = lim * d
    BY ProductNat
  <1>5. px <= pw + pd
    <2>1. p * x <= p * (w + d)
      BY <1>2, ProductMonotone
    <2>2. p * (w + d) = pw + pd
      BY <1>3
    <2> QED
      BY <1>3, <2>1, <2>2
  <1>6. pd <= ld
    <2>1. p <= lim
      BY <1>1
    <2> QED
      BY <1>3, <1>4, <2>1, ProductMonotone
  <1>7. lim * w = pw + cw + w + yw
    BY <1>1, <1>3, <1>4
  <1>8. px + cw >= lim * w
    BY <1>2, <1>3, <1>4
  <1>9. ld < w
    BY <1>4
  <1> QED
    BY <1>3, <1>4, <1>5, <1>6, <1>7, <1>8, <1>9

LEMMA DenialFinds ==
  ASSUME IInv, Orderly, SBody, Limit * Drift < Window, NEW t \in Threads, Denied(t), GetCurr(t)
  PROVE  CountedIn(loc[t].now - 2 * Window - Blur + 1, loc[t].now + 1) >= Limit
  <1>1. /\ metrics'.deny # metrics.deny /\ pc[t] = "getCurr" /\ pc[t] # "idle"
    BY DEF Denied
  <1>2. PICK s, h, m : s = store /\ h = counted /\ m = loc[t]
    OBVIOUS
  <1>3. PICK n \in Nat : n = now
    BY <1>1, CallFacts
  <1>4. /\ cfg \in Configs /\ Prompt /\ s \in [Fields -> Cells] /\ h \in Seq(Nat)
        /\ m \in Locals /\ n <= m.now + MaxStall
        /\ (\A i \in 1..Len(h) : h[i] <= m.now) /\ Entered(m, s, h)
        /\ m.prev = s["prev"].value
    BY <1>1, <1>2, <1>3, CallFacts DEF CallOK
  <1>5. s["curr"] \in Cells /\ s["prev"] \in Cells /\ s["ts"] \in Cells /\ "curr" \in Fields
    BY <1>4 DEF Fields
  <1>6. s["curr"].expiresAt >= n
    BY <1>4, <1>5, EnteredLive
  <1>7. PICK c \in Nat : c = s["curr"].value
    BY <1>5 DEF Cells
  <1>8. PICK p \in Nat : p = s["prev"].value
    BY <1>5 DEF Cells
  <1>9. PICK w \in Nat : w = s["ts"].value
    BY <1>5 DEF Cells
  <1>10. Get("curr") = c
    BY <1>2, <1>3, <1>5, <1>6, <1>7, ReadLive DEF Get
  <1>11. PICK v \in Nat, o \in Nat : v = m.now /\ o = m.windowStart
    BY <1>4 DEF Locals
  <1>12. PICK z \in Int : z = v - o
    BY <1>11
  <1>13. /\ Limit \in Nat /\ Window \in Nat \ {0} /\ Drift \in Nat /\ Blur = 3 * Drift
    BY <1>4, Sizes
  <1>14. /\ Windows(h, w, c, p, v)
         /\ o <= w + Drift /\ o <= v + Drift /\ v < o + Window
    BY <1>4, <1>7, <1>8, <1>9, <1>11 DEF Entered, Kept
  <1>15. PICK a \in Outcomes(z, p, c) : a => UNCHANGED metrics
    BY <1>2, <1>4, <1>8, <1>10, <1>11, <1>12 DEF GetCurr
  <1>16. SlidingCount(z, p, c) >= Limit * Window
    <2>1. PICK e \in Int : e = SlidingCount(z, p, c)
      BY <1>12, <1>13 DEF SlidingCount
    <2>2. PICK f \in Nat : f = Limit * Window
      BY <1>13, ProductNat
    <2>3. ~(e < f) \/ e = f
      BY <1>1, <1>15, <2>1, <2>2 DEF Outcomes
    <2> QED
      BY <2>1, <2>2, <2>3
  <1>17. Limit <= p + c
    <2>1. p * (Window - z) + c * Window >= Limit * Window
      BY <1>16 DEF SlidingCount
    <2>2. z >= -Drift /\ z <= Window
      BY <1>11, <1>12, <1>13, <1>14
    <2> QED
      BY <1>12, <1>13, <2>1, <2>2, DenialFills
  <1>18. PICK len \in Nat : len = Len(h)
    BY <1>4, LenProperties
  <1>19. c + p <= len
    BY <1>14, <1>18 DEF Windows
  <1>20. PICK i \in Nat : i = len - c - p
    <2>1. len - c - p \in Nat
      BY <1>18, <1>19
    <2> QED
      BY <2>1
  <1>21. PICK x \in Int, y \in Int : x = v - 2 * Window - Blur + 1 /\ y = v + 1
    <2>1. v - 2 * Window - Blur + 1 \in Int /\ v + 1 \in Int
      BY <1>13
    <2> QED
      BY <2>1
  <1>22. ASSUME NEW j \in 1..len, i < j /\ j <= i + (c + p) PROVE x <= h[j] /\ h[j] < y
    <2>1. h[j] \in Nat /\ h[j] <= v
      BY <1>4, <1>11, <1>18, ElementOfSeq
    <2>2. j > len - c - p
      BY <1>20, <1>22
    <2>3. h[j] >= w - Window - 2 * Drift
      BY <1>14, <1>18, <2>2 DEF Windows
    <2>4. v < w + Drift + Window
      BY <1>13, <1>14
    <2> QED
      BY <1>13, <1>21, <2>1, <2>3, <2>4
  <1>23. CountedIn(x, y) >= c + p
    <2>1. i + (c + p) <= len /\ c + p \in Nat
      BY <1>18, <1>19, <1>20
    <2>2. c + p <= CountedIn(x, y)
      BY <1>2, <1>4, <1>18, <1>22, <2>1, CountAtLeast
    <2> QED
      BY <2>2
  <1>24. CountedIn(x, y) \in Nat
    BY <1>2, <1>4, CountedInNat
  <1>25. CountedIn(x, y) >= Limit
    BY <1>13, <1>17, <1>23, <1>24
  <1> QED
    BY <1>2, <1>11, <1>21, <1>25

(* Calls that come one after the other, much faster than a window, are     *)
(* denied only when two windows hold Limit calls (sliding_window.go:81-132). *)
THEOREM DenialsAreJust == Spec => DeniedOnlyWhenFull
  <1> DEFINE A == \A t \in Threads :
                    (Undisturbed /\ Prompt /\ Limit * Drift < Window /\ Denied(t))
                    => CountedIn(loc[t].now - 2 * Window - Blur + 1, loc[t].now + 1) >= Limit
  <1>1. ASSUME IInv, SInv, [Next]_vars PROVE [A]_vars
    <2> SUFFICES ASSUME NEW t \in Threads, Orderly, Limit * Drift < Window, Denied(t)
                 PROVE  CountedIn(loc[t].now - 2 * Window - Blur + 1, loc[t].now + 1) >= Limit
      BY DEF Orderly
    <2>1. ASSUME NEW u \in Threads, Allow(u) \/ Step(u) PROVE GetCurr(t)
      BY <1>1, <2>1, DenialIsDecision
    <2>2. ~(Tick \/ UNCHANGED vars)
      BY DEF Denied, Tick, vars
    <2>3. GetCurr(t)
      BY <1>1, <2>1, <2>2 DEF Next
    <2> QED
      BY <1>1, <2>3, DenialFinds DEF SInv
  <1>2. Spec => [][A]_vars
    BY <1>1, OrderlyInvariant, PTL DEF Spec
  <1> QED
    BY <1>2 DEF DeniedOnlyWhenFull
=============================================================================
