------------------------- MODULE LeakyBucketProofs -------------------------
(***************************************************************************)
(* Proofs about LeakyBucket for any goroutines, limits, windows, stalls,   *)
(* precisions of float64, and quotients that round down or not.            *)
(*                                                                         *)
(* IInv ties what the last result announced to the two keys in the store:  *)
(* until the bucket is announced to leak or to be empty, time since the    *)
(* stored leak, times the limit, is too little.  RInv is about the rate:   *)
(* at every point of a call the level and the time of the last leak pay    *)
(* for what was admitted since each earlier grant.                         *)
(***************************************************************************)
EXTENDS LeakyBucket, SequenceTheorems, TLAPS

WaterCells == [value : 0..Limit, expiresAt : Nat]
LeakCells  == [value : Nat, expiresAt : Nat]
Decisions  == [made : BOOLEAN, allowed : BOOLEAN, retryAt : Nat, emptyAt : Nat]
Grants     == [at : Nat, failures : Nat]

(* What the decision d announced is kept by the decision of a call with    *)
(* the locals l.                                                           *)
KeptBy(l, d) ==
    d.made =>
        /\ (~l.allowed /\ ~d.allowed) => l.now <= d.retryAt
        /\ l.now > d.emptyAt + Late + Err => l.allowed /\ l.water = 1

(* The locals l of a call at p, with the level and the leak time wc and lv *)
(* in the store and the last decision d.                                   *)
LocalOK(p, l, wc, lv, d) ==
    /\ p \in PCs /\ l \in Local
    /\ p = "getLeak" => l.water \in {0, wc}
    /\ p \in {"setWater", "setLeak"} =>
         KeptBy(l, d) /\ (~l.allowed => l.lastLeak = lv) /\ l.water > 0
    /\ p = "setLeak" => l.water = wc

(* A time after which a bucket of level w that last leaked at v is empty. *)
EmptyAfter(e, w, v) == (e + 1 - v) * Limit > w * Window

LeakOK(c, d) ==
    /\ c \in LeakCells /\ d \in Decisions
    /\ c.value % Grain = 0
    /\ (d.made /\ ~d.allowed) => EmptyAfter(d.retryAt, 1, c.value)

(* The calls outside the critical section. *)
Outside == {"idle", "lock"}

Counters ==
    /\ now \in Nat /\ calls \in Nat /\ failures \in Nat
    /\ metrics \in [allow : Nat, deny : Nat]
    /\ grants \in Seq(Grants)

IInv ==
    /\ cfg \in Configs
    /\ mu \in Threads \union {Nobody}
    /\ pc \in [Threads -> PCs] /\ loc \in [Threads -> Local]
    /\ waterCell \in WaterCells
    /\ LeakOK(leakCell, last)
    /\ \A t \in Threads :
         /\ pc[t] \notin Outside => mu = t
         /\ LocalOK(pc[t], loc[t], waterCell.value, leakCell.value, last)
    /\ (last.made /\ \A t \in Threads : pc[t] # "setLeak") =>
         EmptyAfter(last.emptyAt + Late + Err, waterCell.value, leakCell.value)
    /\ Counters

-----------------------------------------------------------------------------
(* Arithmetic. *)

LEMMA DivBounds ==
  ASSUME NEW a \in Nat, NEW w \in Nat \ {0}
  PROVE  /\ a \div w \in Nat /\ a % w \in 0..(w - 1)
         /\ (a \div w) * w \in Nat /\ a = (a \div w) * w + (a % w)
         /\ (a \div w + 1) * w = (a \div w) * w + w
  OBVIOUS

LEMMA DivInt ==
  ASSUME NEW a \in Int, NEW w \in Nat \ {0}
  PROVE  a \div w \in Int /\ a % w \in 0..(w - 1)
  OBVIOUS

LEMMA Multiple ==
  ASSUME NEW q \in Nat, NEW w \in Nat \ {0}
  PROVE  (q * w) \div w = q /\ (q * w) % w = 0
  OBVIOUS

LEMMA ProductNat ==
  ASSUME NEW a \in Nat, NEW b \in Nat
  PROVE  a * b \in Nat
  OBVIOUS

LEMMA ProductInt ==
  ASSUME NEW a \in Int, NEW b \in Int
  PROVE  a * b \in Int
  OBVIOUS

LEMMA ProductMonotone ==
  ASSUME NEW a \in Int, NEW b \in Int, a <= b, NEW w \in Nat
  PROVE  a * w <= b * w /\ a * w \in Int /\ b * w \in Int
  OBVIOUS

LEMMA ProductStrict ==
  ASSUME NEW a \in Int, NEW b \in Int, NEW w \in Nat \ {0}
  PROVE  a * w > b * w => a > b
  OBVIOUS

LEMMA Chosen ==
  ASSUME cfg \in Configs
  PROVE  /\ Limit \in Nat \ {0} /\ Window \in Nat \ {0} /\ Grain \in Nat \ {0}
         /\ Err \in Nat /\ Inexact \in BOOLEAN
  <1>1. Limit \in Nat \ {0} /\ Window \in Nat \ {0} /\ Grain \in Nat \ {0} /\ Inexact \in BOOLEAN
    BY ConfigsAssumption, EnvironmentAssumption DEF Limit, Window, Grain, Inexact
  <1>2. Grain \div 2 \in Nat
    BY <1>1
  <1> QED
    BY <1>1, <1>2 DEF Err

(* A stored time is a multiple of the grain, half of it too late at most,  *)
(* and stored again it stays what it is.                                   *)
LEMMA Stored ==
  ASSUME NEW x \in Nat, NEW g \in Nat \ {0}, NEW y, y = Float64(x, g)
  PROVE  /\ y \in Nat /\ y % g = 0 /\ y <= x + g \div 2
         /\ x % g = 0 => y = x
  <1>1. PICK q \in Nat, r \in 0..(g - 1) :
           /\ q = x \div g /\ r = x % g
           /\ q * g \in Nat /\ x = q * g + r /\ (q + 1) * g = q * g + g
    BY DivBounds
  <1>2. (q * g) % g = 0 /\ ((q + 1) * g) % g = 0
    <2>1. q + 1 \in Nat
      OBVIOUS
    <2> QED
      BY <2>1, Multiple
  <1>3. CASE 2 * r < g \/ (2 * r = g /\ q % 2 = 0)
    <2>1. y = q * g
      BY <1>1, <1>3 DEF Float64
    <2>2. g \div 2 \in Nat
      OBVIOUS
    <2> QED
      BY <1>1, <1>2, <2>1, <2>2
  <1>4. CASE ~(2 * r < g \/ (2 * r = g /\ q % 2 = 0))
    <2>1. y = (q + 1) * g
      BY <1>1, <1>4 DEF Float64
    <2>2. g - r <= g \div 2 /\ g \div 2 \in Nat /\ r # 0
      BY <1>1, <1>4
    <2> QED
      BY <1>1, <1>2, <2>1, <2>2
  <1> QED
    BY <1>3, <1>4

(* A quotient that is more than k is at least k as it rounds. *)
LEMMA FloorsEnough ==
  ASSUME NEW a \in Nat, NEW b \in Nat \ {0}, NEW k \in Nat, a > k * b, NEW n \in Floors(a, b)
  PROVE  n \in Int /\ n >= k
  <1>1. PICK q \in Nat, r \in 0..(b - 1) :
           /\ q = a \div b /\ r = a % b /\ q * b \in Nat /\ a = q * b + r
           /\ (q + 1) * b = q * b + b
    BY DivBounds
  <1>2. k * b \in Nat
    BY ProductNat
  <1>3. q >= k
    <2>1. (q + 1) * b > k * b
      BY <1>1, <1>2
    <2>2. q + 1 \in Int /\ q + 1 > k
      BY <2>1, ProductStrict
    <2> QED
      BY <2>2
  <1>4. n = q \/ (n = q - 1 /\ r = 0)
    BY <1>1 DEF Floors
  <1>5. r = 0 => q # k
    BY <1>1, <1>2
  <1> QED
    BY <1>3, <1>4, <1>5

(* After what ToDuration makes of it, and a unit more, the time is over. *)
LEMMA DurationEnough ==
  ASSUME NEW b \in Nat \ {0}, NEW s \in Int, NEW m \in Nat, NEW x, x = ToDuration(m - b * s, b)
  PROVE  x \in Nat /\ (s + x + 1) * b > m
  <1>1. PICK a \in Int : a = m - b * s /\ b * s \in Int
    BY ProductInt
  <1>2. CASE a < 0
    <2>1. x = 0
      BY <1>1, <1>2 DEF ToDuration
    <2>2. (s + 0 + 1) * b = b * s + b
      OBVIOUS
    <2> QED
      BY <1>1, <1>2, <2>1, <2>2
  <1>3. CASE a >= 0
    <2>1. PICK q \in Nat, r \in 0..(b - 1) :
             q = a \div b /\ r = a % b /\ q * b \in Nat /\ a = q * b + r
      <3>1. a \in Nat
        BY <1>1, <1>3
      <3>2. /\ a \div b \in Nat /\ a % b \in 0..(b - 1)
            /\ (a \div b) * b \in Nat /\ a = (a \div b) * b + (a % b)
        BY <3>1, DivBounds
      <3> QED
        BY <3>2
    <2>2. x = q
      BY <1>1, <1>3, <2>1 DEF ToDuration
    <2>3. (s + q + 1) * b = b * s + q * b + b
      OBVIOUS
    <2> QED
      BY <1>1, <2>1, <2>2, <2>3
  <1> QED
    BY <1>1, <1>2, <1>3

(* What the level and the last leak are before a call is counted. *)
LEMMA LeakDecision ==
  ASSUME cfg \in Configs, NEW t0 \in Nat, NEW w \in 0..Limit, NEW v \in Nat, NEW l \in Leaked(t0, w, v)
  PROVE  /\ l.water \in 0..w /\ l.lastLeak \in Nat
         /\ l.water >= Limit => v # 0 /\ l.lastLeak = v
         /\ (t0 - v) * Limit > w * Window => l.water = 0
         /\ (t0 - v) * Limit > 1 * Window => l.water < Limit
  <1>1. Limit \in Nat \ {0} /\ Window \in Nat \ {0} /\ Inexact \in BOOLEAN
    BY Chosen
  <1>2. CASE v = 0
    <2>1. l.water = 0 /\ l.lastLeak = t0
      BY <1>2 DEF Leaked
    <2> QED
      BY <1>1, <2>1
  <1>3. CASE v # 0
    <2>1. PICK e \in Int : e = t0 - v
      OBVIOUS
    <2>2. PICK x \in Int : x = e * Limit
      BY <1>1, ProductInt
    <2>3. PICK n \in Leaks(e) :
            l \in (IF n > 0
                   THEN { [water |-> Drained(w, n), lastLeak |-> v + a] : a \in Advances(n) }
                   ELSE { [water |-> w, lastLeak |-> v] })
      BY <1>3, <2>1 DEF Leaked
    <2>4. n \in Floors(x, Window)
      BY <2>2, <2>3 DEF Leaks
    <2>5. n \in Int
      <3>1. x \div Window \in Int
        BY <1>1, DivInt
      <3> QED
        BY <2>4, <3>1 DEF Floors
    <2>6. CASE n > 0
      <3>1. PICK a \in Advances(n) : l = [water |-> Drained(w, n), lastLeak |-> v + a]
        BY <2>3, <2>6
      <3>2. a \in Nat
        <4>1. PICK b \in Nat : b = n * Window
          BY <1>1, <2>5, <2>6, ProductNat
        <4>2. PICK q \in Nat, r \in 0..(Limit - 1) :
                 q = b \div Limit /\ r = b % Limit /\ q * Limit \in Nat /\ b = q * Limit + r
          <5>1. /\ b \div Limit \in Nat /\ b % Limit \in 0..(Limit - 1)
                /\ (b \div Limit) * Limit \in Nat /\ b = (b \div Limit) * Limit + (b % Limit)
            BY <1>1, DivBounds
          <5> QED
            BY <5>1
        <4>3. a = q \/ (a = q - 1 /\ r = 0 /\ b > 0)
          BY <4>1, <4>2 DEF Advances, Floors
        <4>4. (r = 0 /\ b > 0) => q # 0
          BY <1>1, <4>2
        <4> QED
          BY <4>2, <4>3, <4>4
      <3>3. Drained(w, n) \in 0..w /\ Drained(w, n) < Limit /\ (n >= w => Drained(w, n) = 0)
        BY <1>1, <2>5, <2>6 DEF Drained
      <3>4. l.water = Drained(w, n) /\ l.lastLeak = v + a
        BY <3>1
      <3>5. (t0 - v) * Limit > w * Window => n >= w
        <4>1. ASSUME x > w * Window PROVE n >= w
          <5>1. w * Window \in Nat
            BY <1>1, ProductNat
          <5>2. x \in Nat
            BY <4>1, <5>1
          <5> QED
            BY <1>1, <2>4, <4>1, <5>2, FloorsEnough
        <4> QED
          BY <2>1, <2>2, <4>1
      <3> QED
        BY <1>1, <3>2, <3>3, <3>4, <3>5
    <2>7. CASE ~(n > 0)
      <3>1. l.water = w /\ l.lastLeak = v
        BY <2>3, <2>7
      <3>2. ASSUME NEW k \in Nat, x > k * Window PROVE k = 0
        <4>1. k * Window \in Nat
          BY <1>1, ProductNat
        <4>2. x \in Nat
          BY <3>2, <4>1
        <4>3. n >= k
          BY <1>1, <2>4, <3>2, <4>2, FloorsEnough
        <4> QED
          BY <2>5, <2>7, <4>3
      <3>3. PICK k \in Nat : k = 1
        OBVIOUS
      <3>4. ~(x > 1 * Window)
        BY <3>2, <3>3
      <3>5. x > w * Window => w = 0
        BY <3>2
      <3> QED
        BY <1>1, <1>3, <2>1, <2>2, <3>1, <3>4, <3>5
    <2> QED
      BY <2>6, <2>7
  <1> QED
    BY <1>2, <1>3

(* A clock reading past the announced time meets the condition. *)
LEMMA PastAnnouncement ==
  ASSUME cfg \in Configs, NEW e \in Nat, NEW w \in Nat, NEW v \in Nat, EmptyAfter(e, w, v),
         NEW t0 \in Nat, t0 > e
  PROVE  (t0 - v) * Limit > w * Window
  <1>1. Limit \in Nat \ {0} /\ Window \in Nat \ {0}
    BY Chosen
  <1>2. PICK a \in Int, b \in Int : a = e + 1 - v /\ b = t0 - v /\ a <= b
    OBVIOUS
  <1>3. a * Limit <= b * Limit /\ a * Limit \in Int /\ b * Limit \in Int
    BY <1>1, <1>2, ProductMonotone
  <1>4. a * Limit > w * Window /\ w * Window \in Nat
    BY <1>1, <1>2, ProductNat DEF EmptyAfter
  <1> QED
    BY <1>2, <1>3, <1>4

(* A level that is lower, and a later time. *)
LEMMA EmptyEarlier ==
  ASSUME cfg \in Configs, NEW e \in Nat, NEW w \in Nat, NEW v \in Nat, EmptyAfter(e, w, v),
         NEW y \in Nat, NEW f \in Nat, f - y >= e - v
  PROVE  EmptyAfter(f, w, y)
  <1>1. Limit \in Nat \ {0} /\ Window \in Nat \ {0}
    BY Chosen
  <1>2. PICK a \in Int, b \in Int : a = e + 1 - v /\ b = f + 1 - y /\ a <= b
    OBVIOUS
  <1>3. a * Limit <= b * Limit /\ a * Limit \in Int /\ b * Limit \in Int
    BY <1>1, <1>2, ProductMonotone
  <1>4. a * Limit > w * Window /\ w * Window \in Nat
    BY <1>1, <1>2, ProductNat DEF EmptyAfter
  <1> QED
    BY <1>2, <1>3, <1>4 DEF EmptyAfter

(* What a result announces.  Reset may be one short of the exact delay q.  *)
LEMMA AnnouncedEnough ==
  ASSUME cfg \in Configs, NEW t0 \in Nat, NEW v \in Nat, NEW w \in 0..Limit, NEW y \in Reset(w, t0 - v)
  PROVE  /\ t0 + NextLeak(t0 - v) \in Nat /\ EmptyAfter(t0 + NextLeak(t0 - v), 1, v)
         /\ t0 + y \in Nat /\ t0 + y + Late \in Nat
         /\ w > 0 => EmptyAfter(t0 + y + Late, w, v)
  <1>1. PICK b \in Nat \ {0}, u \in Nat \ {0} : b = Limit /\ u = Window
    BY Chosen
  <1>2. PICK s \in Int : s = t0 - v
    OBVIOUS
  <1>3. PICK x : x = NextLeak(s)
    OBVIOUS
  <1>4. x \in Nat /\ (s + x + 1) * b > u
    <2>1. x = ToDuration(u - b * s, b)
      BY <1>1, <1>3 DEF NextLeak
    <2> QED
      BY <1>2, <2>1, DurationEnough
  <1>12. PICK m \in Nat, left \in Int : m = w * u /\ left = m - b * s
    <2>1. w * u \in Nat /\ b * s \in Int
      BY <1>1, ProductNat, ProductInt
    <2> QED
      BY <2>1
  <1>13. PICK q : q = ToDuration(left, b)
    OBVIOUS
  <1>5. m = w * u /\ left = m - b * s /\ q = ToDuration(left, b)
    BY <1>12, <1>13
  <1>6. q \in Nat /\ (s + q + 1) * b > m
    BY <1>5, DurationEnough
  <1>7. PICK a \in 0..1 : a = Late
    BY DEF Late
  <1>8. y \in Nat /\ (w > 0 => q <= y + a)
    <2>1. left = w * Window - Limit * s
      BY <1>1, <1>5
    <2>2. CASE w = 0 \/ left < 0
      <3>1. y = 0
        BY <1>2, <2>1, <2>2 DEF Reset
      <3>2. left < 0 => q = 0
        BY <1>5 DEF ToDuration
      <3> QED
        BY <1>7, <2>2, <3>1, <3>2
    <2>3. CASE ~(w = 0 \/ left < 0)
      <3>1. q = left \div b
        BY <1>5, <2>3 DEF ToDuration
      <3>2. y \in (IF Window % Limit = 0 THEN {left \div Limit} ELSE Floors(left, Limit))
        BY <1>2, <2>1, <2>3 DEF Reset
      <3>3. CASE y = q
        BY <1>6, <1>7, <3>3
      <3>4. CASE y # q
        <4>1. Window % Limit # 0 /\ Inexact /\ left % b = 0 /\ left > 0 /\ y = q - 1
          BY <1>1, <3>1, <3>2, <3>4 DEF Floors
        <4>2. a = 1
          BY <1>7, <4>1 DEF Late
        <4>3. q # 0
          <5>1. left \in Nat
            BY <4>1
          <5>2. (left \div b) * b \in Nat /\ left = (left \div b) * b + (left % b)
            BY <5>1, DivBounds
          <5>3. left = q * b
            BY <3>1, <4>1, <5>2
          <5> QED
            BY <4>1, <5>3
        <4> QED
          BY <1>6, <4>1, <4>2, <4>3
      <3> QED
        BY <3>3, <3>4
    <2> QED
      BY <2>2, <2>3
  <1>9. w > 0 => (s + (y + a) + 1) * b > m
    <2>1. ASSUME w > 0 PROVE (s + (y + a) + 1) * b > m
      <3>1. PICK c \in Int, d \in Int : c = s + q + 1 /\ d = s + (y + a) + 1 /\ c <= d
        BY <1>6, <1>7, <1>8, <2>1
      <3>2. c * b <= d * b /\ c * b \in Int /\ d * b \in Int
        BY <3>1, ProductMonotone
      <3> QED
        BY <1>5, <1>6, <3>1, <3>2
    <2> QED
      BY <2>1
  <1>10. /\ s + x + 1 = (t0 + x) + 1 - v /\ s + (y + a) + 1 = (t0 + y + a) + 1 - v
         /\ t0 + x \in Nat /\ t0 + y \in Nat /\ t0 + y + a \in Nat
    BY <1>2, <1>4, <1>7, <1>8
  <1>11. 1 * u = u
    OBVIOUS
  <1> QED
    BY <1>1, <1>2, <1>3, <1>4, <1>5, <1>7, <1>9, <1>10, <1>11 DEF EmptyAfter

-----------------------------------------------------------------------------
LEMMA SameConfiguration ==
  ASSUME UNCHANGED cfg
  PROVE  /\ Limit' = Limit /\ Window' = Window /\ Grain' = Grain /\ Err' = Err /\ Late' = Late
         /\ Local' = Local /\ WaterCells' = WaterCells
  BY DEF Limit, Window, Grain, Err, Late, Inexact, Local, WaterCells

LEMMA Facts ==
  ASSUME IInv
  PROVE  /\ cfg \in Configs /\ now \in Nat
         /\ Limit \in Nat \ {0} /\ Window \in Nat \ {0} /\ Grain \in Nat \ {0} /\ Err \in Nat
         /\ waterCell \in WaterCells /\ waterCell.value \in 0..Limit
         /\ leakCell \in LeakCells /\ leakCell.value \in Nat /\ leakCell.value % Grain = 0
         /\ LeakOK(leakCell, last) /\ Counters
         /\ last \in Decisions /\ last.made \in BOOLEAN /\ last.allowed \in BOOLEAN
         /\ last.retryAt \in Nat /\ last.emptyAt \in Nat
         /\ \A t \in Threads :
              /\ LocalOK(pc[t], loc[t], waterCell.value, leakCell.value, last)
              /\ pc[t] \notin Outside => mu = t
              /\ loc[t] \in Local /\ loc[t].now \in Nat /\ loc[t].water \in 0..Limit
              /\ loc[t].lastLeak \in Nat /\ loc[t].allowed \in BOOLEAN
  <1>1. /\ cfg \in Configs /\ now \in Nat /\ waterCell \in WaterCells /\ LeakOK(leakCell, last) /\ Counters
    BY DEF IInv, Counters
  <1>2. waterCell.value \in 0..Limit
    BY <1>1 DEF WaterCells
  <1>3. leakCell \in LeakCells /\ leakCell.value % Grain = 0 /\ last \in Decisions
    BY <1>1 DEF LeakOK
  <1>4. /\ leakCell.value \in Nat /\ last.made \in BOOLEAN /\ last.allowed \in BOOLEAN
        /\ last.retryAt \in Nat /\ last.emptyAt \in Nat
    BY <1>3 DEF LeakCells, Decisions
  <1>5. \A t \in Threads :
           /\ LocalOK(pc[t], loc[t], waterCell.value, leakCell.value, last)
           /\ pc[t] \notin Outside => mu = t
           /\ loc[t] \in Local
    BY DEF IInv
  <1>6. \A t \in Threads : /\ loc[t].now \in Nat /\ loc[t].water \in 0..Limit
                           /\ loc[t].lastLeak \in Nat /\ loc[t].allowed \in BOOLEAN
    BY <1>5 DEF Local
  <1> QED
    BY <1>1, <1>2, <1>3, <1>4, <1>5, <1>6, Chosen

(* The other goroutines are outside the critical section. *)
Alone(t) == \A u \in Threads \ {t} : pc[u] \in Outside

LEMMA HolderAlone ==
  ASSUME IInv, NEW t \in Threads, pc[t] \notin Outside \/ mu = Nobody
  PROVE  Alone(t)
  BY EnvironmentAssumption DEF IInv, Alone

(* The invariant after a step of one goroutine. *)
LEMMA Moved ==
  ASSUME IInv, NEW t \in Threads, UNCHANGED cfg,
         NEW p, NEW l, pc' = [pc EXCEPT ![t] = p], loc' = [loc EXCEPT ![t] = l],
         Alone(t) \/ UNCHANGED <<waterCell, leakCell, last, mu>>,
         mu' \in Threads \union {Nobody}, p \notin Outside => mu' = t,
         NEW wc, NEW lc, NEW d, wc = waterCell', lc = leakCell', d = last',
         wc \in WaterCells, LeakOK(lc, d),
         LocalOK(p, l, wc.value, lc.value, d),
         (d.made /\ p # "setLeak" /\ \A u \in Threads \ {t} : pc[u] # "setLeak") =>
             EmptyAfter(d.emptyAt + Late + Err, wc.value, lc.value),
         Counters'
  PROVE  IInv'
  <1>1. /\ cfg \in Configs /\ pc \in [Threads -> PCs] /\ loc \in [Threads -> Local]
    BY DEF IInv
  <1>2. p \in PCs /\ l \in Local
    BY DEF LocalOK
  <1>3. /\ pc' \in [Threads -> PCs] /\ loc' \in [Threads -> Local]
        /\ pc'[t] = p /\ loc'[t] = l
        /\ \A u \in Threads \ {t} : pc'[u] = pc[u] /\ loc'[u] = loc[u]
    BY <1>1, <1>2
  <1>4. ASSUME NEW u \in Threads
        PROVE  /\ LocalOK(pc'[u], loc'[u], wc.value, lc.value, d)
               /\ pc'[u] \notin Outside => mu' = u
    <2>1. CASE u = t
      BY <1>3, <2>1
    <2>2. CASE u # t /\ Alone(t)
      <3>1. pc'[u] \in {"idle", "lock"} /\ loc'[u] \in Local /\ pc'[u] \in PCs
        BY <1>3, <2>2 DEF Alone, Outside
      <3> QED
        BY <3>1 DEF LocalOK, Outside
    <2>3. CASE u # t /\ UNCHANGED <<waterCell, leakCell, last, mu>>
      BY <1>3, <2>3, Facts
    <2> QED
      BY <2>1, <2>2, <2>3
  <1>5. \A u \in Threads : LocalOK(pc[u], loc[u], waterCell.value, leakCell.value, last)'
    BY <1>4, SameConfiguration DEF LocalOK, KeptBy
  <1>6. LeakOK(leakCell, last)'
    BY SameConfiguration DEF LeakOK, EmptyAfter
  <1>7. ((last.made /\ \A u \in Threads : pc[u] # "setLeak") =>
           EmptyAfter(last.emptyAt + Late + Err, waterCell.value, leakCell.value))'
    BY <1>3, SameConfiguration DEF EmptyAfter
  <1>8. waterCell' \in WaterCells'
    BY SameConfiguration
  <1> QED
    BY <1>1, <1>3, <1>4, <1>5, <1>6, <1>7, <1>8, SameConfiguration DEF IInv

(* A step that leaves the store alone. *)
LEMMA MovedOn ==
  ASSUME IInv, NEW t \in Threads, UNCHANGED <<cfg, waterCell, leakCell, last>>,
         NEW p, NEW l, pc' = [pc EXCEPT ![t] = p], loc' = [loc EXCEPT ![t] = l],
         Alone(t) \/ UNCHANGED mu, mu' \in Threads \union {Nobody}, p \notin Outside => mu' = t,
         pc[t] # "setLeak", LocalOK(p, l, waterCell.value, leakCell.value, last),
         Counters'
  PROVE  IInv'
  <1>1. PICK wc, lc, d : wc = waterCell /\ lc = leakCell /\ d = last
    OBVIOUS
  <1>2. wc \in WaterCells /\ LeakOK(lc, d) /\ LocalOK(p, l, wc.value, lc.value, d)
    BY <1>1, Facts
  <1>3. (d.made /\ p # "setLeak" /\ \A u \in Threads \ {t} : pc[u] # "setLeak") =>
             EmptyAfter(d.emptyAt + Late + Err, wc.value, lc.value)
    BY <1>1 DEF IInv
  <1> QED
    BY <1>1, <1>2, <1>3, Moved

LEMMA Entering ==
  ASSUME IInv, NEW t \in Threads, Allow(t) \/ Lock(t)
  PROVE  IInv'
  <1>1. UNCHANGED <<cfg, now, waterCell, leakCell, metrics, failures, grants, last>> /\ pc[t] # "setLeak"
    BY DEF Allow, Lock
  <1>2. Counters'
    <2>1. Counters
      BY Facts
    <2>2. calls \in Nat => calls' \in Nat
      BY DEF Allow, Lock
    <2> QED
      BY <1>1, <2>1, <2>2 DEF Counters
  <1>3. CASE Allow(t)
    <2>1. PICK p, l : p = "lock" /\ l = loc[t] /\ pc' = [pc EXCEPT ![t] = p] /\ loc' = [loc EXCEPT ![t] = l]
      BY <1>3 DEF Allow, Goto, IInv
    <2>2. LocalOK(p, l, waterCell.value, leakCell.value, last)
      BY <2>1, Facts DEF LocalOK, PCs
    <2>3. mu' = mu /\ mu \in Threads \union {Nobody} /\ p \in Outside
      BY <1>3, <2>1 DEF Allow, IInv, Outside
    <2> QED
      BY <1>1, <1>2, <2>1, <2>2, <2>3, MovedOn
  <1>4. CASE Lock(t)
    <2>1. PICK l : l = [loc[t] EXCEPT !.now = now]
      OBVIOUS
    <2>2. loc' = [loc EXCEPT ![t] = l] /\ mu = Nobody /\ mu' = t
      BY <1>4, <2>1 DEF Lock
    <2>3. l \in Local
      BY <2>1, Facts DEF Local
    <2>4. PICK p : p = "getWater" /\ pc' = [pc EXCEPT ![t] = p]
      BY <1>4 DEF Lock, Goto
    <2>5. LocalOK(p, l, waterCell.value, leakCell.value, last)
      BY <2>3, <2>4 DEF LocalOK, PCs
    <2>6. Alone(t)
      BY <2>2, HolderAlone
    <2> QED
      BY <1>1, <1>2, <2>2, <2>4, <2>5, <2>6, MovedOn
  <1> QED
    BY <1>3, <1>4

LEMMA ReadingWater ==
  ASSUME IInv, NEW t \in Threads, GetWater(t)
  PROVE  IInv'
  <1>1. /\ UNCHANGED <<cfg, now, waterCell, leakCell, mu, calls, metrics, failures, grants, last>>
        /\ pc[t] = "getWater" /\ pc' = [pc EXCEPT ![t] = "getLeak"]
    BY DEF GetWater, Goto
  <1>2. Counters'
    BY <1>1, Facts DEF Counters
  <1>3. PICK w : w = Read(waterCell, now)
    OBVIOUS
  <1>4. w \in {0, waterCell.value} /\ w \in 0..Limit
    BY <1>3, Facts DEF Read
  <1>5. PICK l : l = [loc[t] EXCEPT !.water = w]
    OBVIOUS
  <1>6. loc' = [loc EXCEPT ![t] = l]
    BY <1>3, <1>5 DEF GetWater
  <1>7. l \in Local /\ l.water = w
    BY <1>4, <1>5, Facts DEF Local
  <1>8. PICK p : p = "getLeak"
    OBVIOUS
  <1>9. LocalOK(p, l, waterCell.value, leakCell.value, last)
    BY <1>4, <1>7, <1>8 DEF LocalOK, PCs
  <1>10. mu' = t /\ UNCHANGED mu
    BY <1>1, Facts DEF Outside
  <1> QED
    BY <1>1, <1>2, <1>6, <1>8, <1>9, <1>10, MovedOn

(* The decision keeps what the last one announced. *)
LEMMA DecisionKeeps ==
  ASSUME IInv, NEW t \in Threads, pc[t] = "getLeak", NEW v, v = Read(leakCell, now),
         NEW l \in Leaked(loc[t].now, loc[t].water, v), NEW a \in BOOLEAN, a <=> l.water < Limit,
         NEW m \in Local, m.now = loc[t].now, m.lastLeak = l.lastLeak, m.allowed = a,
         m.water = IF a THEN l.water + 1 ELSE l.water
  PROVE  KeptBy(m, last) /\ (~m.allowed => m.lastLeak = leakCell.value)
  <1>1. v \in {0, leakCell.value} /\ v \in Nat
    BY Facts DEF Read
  <1>2. PICK t0 \in Nat, w \in 0..Limit : t0 = loc[t].now /\ w = loc[t].water
    BY Facts
  <1>3. w \in {0, waterCell.value}
    BY <1>2, Facts DEF LocalOK
  <1>4. /\ l.water \in 0..w
        /\ l.water >= Limit => v # 0 /\ l.lastLeak = v
        /\ (t0 - v) * Limit > w * Window => l.water = 0
        /\ (t0 - v) * Limit > 1 * Window => l.water < Limit
    BY <1>1, <1>2, Facts, LeakDecision
  <1>5. Limit \in Nat \ {0} /\ Window \in Nat \ {0} /\ Err \in Nat /\ Late \in Nat
    BY Facts DEF Late
  <1>6. ~a => v = leakCell.value /\ l.lastLeak = v
    BY <1>1, <1>2, <1>4, <1>5
  <1>7. ASSUME last.made, ~a, ~last.allowed PROVE t0 <= last.retryAt
    <2>1. EmptyAfter(last.retryAt, 1, v)
      BY <1>6, <1>7, Facts DEF LeakOK
    <2>2. ASSUME t0 > last.retryAt PROVE FALSE
      <3>1. (t0 - v) * Limit > 1 * Window
        BY <1>1, <2>1, <2>2, Facts, PastAnnouncement
      <3> QED
        BY <1>4, <1>7, <3>1
    <2> QED
      BY <1>5, <2>2, Facts
  <1>8. ASSUME last.made, t0 > last.emptyAt + Late + Err PROVE l.water = 0
    <2>1. CASE v = 0
      BY <1>2, <1>8, <2>1 DEF Leaked
    <2>2. CASE w = 0
      BY <1>4, <2>2
    <2>3. CASE v = leakCell.value /\ w = waterCell.value
      <3>1. \A u \in Threads : pc[u] # "setLeak"
        BY HolderAlone DEF Alone, Outside
      <3>2. EmptyAfter(last.emptyAt + Late + Err, w, v)
        BY <1>8, <2>3, <3>1 DEF IInv
      <3>3. last.emptyAt + Late + Err \in Nat /\ w \in Nat
        BY <1>2, <1>5, Facts
      <3>4. (t0 - v) * Limit > w * Window
        BY <1>1, <1>8, <3>2, <3>3, Facts, PastAnnouncement
      <3> QED
        BY <1>4, <3>4
    <2> QED
      BY <1>1, <1>3, <2>1, <2>2, <2>3
  <1>9. l.water = 0 => a /\ m.water = 1
    BY <1>5
  <1> QED
    BY <1>2, <1>6, <1>7, <1>8, <1>9 DEF KeptBy

LEMMA Deciding ==
  ASSUME IInv, NEW t \in Threads, GetLeak(t)
  PROVE  IInv'
  <1>1. /\ UNCHANGED <<cfg, now, waterCell, leakCell, mu, calls, metrics, failures, grants, last>>
        /\ pc[t] = "getLeak" /\ pc' = [pc EXCEPT ![t] = "setWater"]
    BY DEF GetLeak, Goto
  <1>2. Counters'
    BY <1>1, Facts DEF Counters
  <1>3. PICK v : v = Read(leakCell, now)
    OBVIOUS
  <1>4. PICK l \in Leaked(loc[t].now, loc[t].water, v) :
          loc' = [loc EXCEPT ![t].water = IF l.water < Limit THEN l.water + 1 ELSE l.water,
                             ![t].lastLeak = l.lastLeak,
                             ![t].allowed = (l.water < Limit)]
    BY <1>3 DEF GetLeak
  <1>5. PICK a : a = (l.water < Limit) /\ a \in BOOLEAN
    <2>1. (l.water < Limit) \in BOOLEAN
      OBVIOUS
    <2> QED
      BY <2>1
  <1>6. PICK w : w = IF a THEN l.water + 1 ELSE l.water
    OBVIOUS
  <1>7. PICK m1 : m1 = [loc[t] EXCEPT !.water = w]
    OBVIOUS
  <1>8. PICK m2 : m2 = [m1 EXCEPT !.lastLeak = l.lastLeak]
    OBVIOUS
  <1>9. PICK m : m = [m2 EXCEPT !.allowed = a]
    OBVIOUS
  <1>10. loc' = [loc EXCEPT ![t] = m]
    <2>1. loc' = [loc EXCEPT ![t].water = w, ![t].lastLeak = l.lastLeak, ![t].allowed = a]
      BY <1>4, <1>5, <1>6
    <2> QED
      BY <1>7, <1>8, <1>9, <2>1 DEF IInv
  <1>11. v \in Nat
    BY <1>3, Facts DEF Read
  <1>12. l.water \in 0..Limit /\ l.lastLeak \in Nat
    <2>1. PICK t0 \in Nat, w0 \in 0..Limit : t0 = loc[t].now /\ w0 = loc[t].water
      BY Facts
    <2>2. l.water \in 0..w0 /\ l.lastLeak \in Nat
      BY <1>11, <2>1, Facts, LeakDecision
    <2> QED
      BY <2>1, <2>2, Facts
  <1>13. a <=> l.water < Limit
    BY <1>5
  <1>14. w \in 0..Limit
    BY <1>6, <1>12, <1>13, Facts
  <1>15. /\ m \in Local /\ m.now = loc[t].now /\ m.lastLeak = l.lastLeak /\ m.allowed = a
         /\ m.water = w
    <2>1. m1 \in Local /\ m1.now = loc[t].now /\ m1.water = w
      BY <1>7, <1>14, Facts DEF Local
    <2>2. m2 \in Local /\ m2.now = loc[t].now /\ m2.water = w /\ m2.lastLeak = l.lastLeak
      BY <1>8, <1>12, <2>1 DEF Local
    <2>3. a \in BOOLEAN
      BY <1>5
    <2> QED
      BY <1>9, <2>2, <2>3 DEF Local
  <1>16. KeptBy(m, last) /\ (~m.allowed => m.lastLeak = leakCell.value)
    <2>1. a \in BOOLEAN
      BY <1>5
    <2>2. l \in Leaked(loc[t].now, loc[t].water, v)
      BY <1>4
    <2>3. pc[t] = "getLeak"
      BY <1>1
    <2> QED
      BY <1>3, <1>6, <1>13, <1>15, <2>1, <2>2, <2>3, DecisionKeeps
  <1>17. PICK p : p = "setWater"
    OBVIOUS
  <1>18. LocalOK(p, m, waterCell.value, leakCell.value, last)
    <2>1. w > 0
      BY <1>6, <1>12, <1>13, Facts
    <2> QED
      BY <1>15, <1>16, <1>17, <2>1 DEF LocalOK, PCs
  <1>19. mu' = t /\ UNCHANGED mu
    BY <1>1, Facts DEF Outside
  <1> QED
    BY <1>1, <1>2, <1>10, <1>17, <1>18, <1>19, MovedOn

LEMMA WrittenCells ==
  ASSUME IInv, NEW t \in Threads
  PROVE  /\ WriteWater(t) \in WaterCells /\ WriteWater(t).value = loc[t].water
         /\ WriteLeak(t) \in LeakCells /\ WriteLeak(t).value % Grain = 0
         /\ WriteLeak(t).value <= loc[t].lastLeak + Err
         /\ loc[t].lastLeak % Grain = 0 => WriteLeak(t).value = loc[t].lastLeak
  <1>1. PICK y : y = Float64(loc[t].lastLeak, Grain)
    OBVIOUS
  <1>2. /\ y \in Nat /\ y % Grain = 0 /\ y <= loc[t].lastLeak + Err
        /\ loc[t].lastLeak % Grain = 0 => y = loc[t].lastLeak
    <2>1. PICK g \in Nat \ {0}, x \in Nat : g = Grain /\ x = loc[t].lastLeak
      BY Facts
    <2>2. y \in Nat /\ y % g = 0 /\ y <= x + g \div 2 /\ (x % g = 0 => y = x)
      BY <1>1, <2>1, Stored
    <2> QED
      BY <2>1, <2>2 DEF Err
  <1>3. PICK e \in Nat : e = now + Window
    BY Facts
  <1>4. /\ WriteWater(t) = [value |-> loc[t].water, expiresAt |-> e]
        /\ WriteLeak(t) = [value |-> y, expiresAt |-> e]
    BY <1>1, <1>3 DEF WriteWater, WriteLeak, Written
  <1> QED
    BY <1>2, <1>4, Facts DEF WaterCells, LeakCells

LEMMA WritingWater ==
  ASSUME IInv, NEW t \in Threads, SetWater(t)
  PROVE  IInv'
  <1>1. /\ UNCHANGED <<cfg, now, leakCell, mu, loc, calls, metrics, failures, grants, last>>
        /\ pc[t] = "setWater"
    BY DEF SetWater
  <1>2. Counters'
    BY <1>1, Facts DEF Counters
  <1>3. PICK p, l : p = "setLeak" /\ l = loc[t] /\ pc' = [pc EXCEPT ![t] = p] /\ loc' = [loc EXCEPT ![t] = l]
    BY <1>1 DEF SetWater, Goto, IInv
  <1>4. PICK wc, lc, d : wc = waterCell' /\ lc = leakCell' /\ d = last'
    OBVIOUS
  <1>5. wc \in WaterCells /\ wc.value = l.water /\ LeakOK(lc, d)
    <2>1. wc = WriteWater(t)
      BY <1>4 DEF SetWater
    <2> QED
      BY <1>1, <1>3, <1>4, <2>1, WrittenCells, Facts
  <1>6. LocalOK(p, l, wc.value, lc.value, d)
    <2>1. KeptBy(l, d) /\ (~l.allowed => l.lastLeak = lc.value) /\ l \in Local /\ l.water > 0
      BY <1>1, <1>3, <1>4, Facts DEF LocalOK
    <2> QED
      BY <1>3, <1>5, <2>1 DEF LocalOK, PCs
  <1>7. Alone(t) /\ mu' = t
    BY <1>1, HolderAlone, Facts DEF Outside
  <1> QED
    BY <1>1, <1>2, <1>3, <1>4, <1>5, <1>6, <1>7, Moved

(* The end of a call, with what it has left in the store. *)
LEMMA Returning ==
  ASSUME IInv, NEW t \in Threads, pc[t] \notin Outside, UNCHANGED cfg, Return(t), Counters',
         NEW wc, NEW lc, NEW d, wc = waterCell', lc = leakCell', d = last',
         wc \in WaterCells, LeakOK(lc, d),
         d.made => EmptyAfter(d.emptyAt + Late + Err, wc.value, lc.value)
  PROVE  IInv'
  <1>1. PICK p, l : p = "idle" /\ l = IdleLocal /\ pc' = [pc EXCEPT ![t] = p] /\ loc' = [loc EXCEPT ![t] = l]
    BY DEF Return, Goto
  <1>2. l \in Local
    <2>1. 0 \in 0..Limit
      BY Facts
    <2> QED
      BY <1>1, <2>1 DEF IdleLocal, Local
  <1>3. LocalOK(p, l, wc.value, lc.value, d)
    BY <1>1, <1>2 DEF LocalOK, PCs
  <1>4. Alone(t) /\ mu' = Nobody /\ p \in Outside
    BY <1>1, HolderAlone DEF Return, Outside
  <1> QED
    BY <1>1, <1>3, <1>4, Moved

LEMMA Completing ==
  ASSUME IInv, NEW t \in Threads, SetLeak(t)
  PROVE  IInv'
  <1>1. /\ UNCHANGED <<cfg, now, waterCell, calls, failures>> /\ pc[t] = "setLeak" /\ Return(t)
    BY DEF SetLeak
  <1>2. PICK l : l = loc[t]
    OBVIOUS
  <1>3. /\ l \in Local /\ l.now \in Nat /\ l.water \in 0..Limit /\ l.lastLeak \in Nat
        /\ l.allowed \in BOOLEAN /\ l.water = waterCell.value
        /\ ~l.allowed => l.lastLeak = leakCell.value
        /\ l.water > 0
    <2>1. LocalOK(pc[t], l, waterCell.value, leakCell.value, last)
      BY <1>2, Facts
    <2>2. l.water > 0
      BY <1>1, <1>2, <2>1, Facts DEF LocalOK
    <2> QED
      BY <1>1, <1>2, <2>1, <2>2, Facts DEF LocalOK
  <1>16. PICK reset \in Reset(l.water, l.now - l.lastLeak) :
           last' = [made |-> TRUE, allowed |-> l.allowed,
                    retryAt |-> IF l.allowed THEN 0
                                ELSE RetryAt(l.now + NextLeak(l.now - l.lastLeak)),
                    emptyAt |-> l.now + reset]
    BY <1>2 DEF SetLeak
  <1>4. PICK f \in Nat, e \in Nat :
          /\ f = l.now + NextLeak(l.now - l.lastLeak) /\ e = l.now + reset /\ e + Late \in Nat
          /\ EmptyAfter(f, 1, l.lastLeak) /\ EmptyAfter(e + Late, l.water, l.lastLeak)
    <2>1. PICK t0 \in Nat, v \in Nat, w \in 0..Limit : t0 = l.now /\ v = l.lastLeak /\ w = l.water
      BY <1>3
    <2>2. /\ t0 + NextLeak(t0 - v) \in Nat /\ EmptyAfter(t0 + NextLeak(t0 - v), 1, v)
          /\ t0 + reset \in Nat /\ t0 + reset + Late \in Nat
          /\ w > 0 => EmptyAfter(t0 + reset + Late, w, v)
      BY <1>16, <2>1, Facts, AnnouncedEnough
    <2> QED
      BY <1>3, <2>1, <2>2
  <1>5. PICK a \in BOOLEAN, y \in BOOLEAN : a = l.allowed /\ y = TRUE
    BY <1>3
  <1>6. PICK r \in Nat : r = IF a THEN 0 ELSE RetryAt(f)
    BY Facts DEF RetryAt
  <1>7. PICK wc, lc, d : wc = waterCell' /\ lc = leakCell' /\ d = last'
    OBVIOUS
  <1>8. d = [made |-> y, allowed |-> a, retryAt |-> r, emptyAt |-> e]
    BY <1>4, <1>5, <1>6, <1>7, <1>16
  <1>9. d \in Decisions /\ d.allowed = a /\ d.retryAt = r /\ d.emptyAt = e
    BY <1>8 DEF Decisions
  <1>10. /\ lc \in LeakCells /\ lc.value \in Nat /\ lc.value % Grain = 0
         /\ lc.value <= l.lastLeak + Err
         /\ l.lastLeak % Grain = 0 => lc.value = l.lastLeak
    <2>1. lc = WriteLeak(t)
      BY <1>7 DEF SetLeak
    <2> QED
      BY <1>2, <2>1, WrittenCells DEF LeakCells
  <1>11. ~a => EmptyAfter(r, 1, lc.value)
    <2>1. ASSUME ~a PROVE lc.value = leakCell.value /\ l.lastLeak = leakCell.value
      BY <1>3, <1>5, <1>10, <2>1, Facts
    <2>2. ASSUME ~a, r = last.retryAt, last.made, ~last.allowed PROVE EmptyAfter(r, 1, lc.value)
      BY <2>1, <2>2, Facts DEF LeakOK
    <2>3. ASSUME ~a, r = f PROVE EmptyAfter(r, 1, lc.value)
      BY <1>4, <2>1, <2>3
    <2> QED
      BY <1>6, <2>2, <2>3 DEF RetryAt
  <1>12. LeakOK(lc, d)
    BY <1>9, <1>10, <1>11 DEF LeakOK
  <1>13. EmptyAfter(d.emptyAt + Late + Err, wc.value, lc.value)
    <2>1. PICK k \in Nat, x \in Nat, z \in Nat, n \in Nat :
             k = e + Late + Err /\ x = l.lastLeak /\ z = lc.value /\ n = l.water
             /\ k - z >= (e + Late) - x
      <3>1. PICK h \in Nat, x \in Nat, z \in Nat, n \in Nat :
               h = Err /\ x = l.lastLeak /\ z = lc.value /\ n = l.water /\ z <= x + h
        BY <1>3, <1>10, Facts
      <3>2. PICK b \in Nat : b = e + Late
        BY <1>4
      <3>3. b + h \in Nat /\ (b + h) - z >= b - x
        BY <3>1
      <3> QED
        BY <3>1, <3>2, <3>3
    <2>2. EmptyAfter(k, n, z)
      BY <1>4, <2>1, Facts, EmptyEarlier
    <2> QED
      BY <1>1, <1>3, <1>7, <1>9, <2>1, <2>2
  <1>14. Counters'
    <2>1. PICK g : g = [at |-> l.now, failures |-> failures]
      OBVIOUS
    <2>2. g \in Grants /\ grants \in Seq(Grants) /\ metrics \in [allow : Nat, deny : Nat]
      BY <1>3, <2>1, Facts DEF Grants, Counters
    <2>3. Append(grants, g) \in Seq(Grants)
      BY <2>2, AppendProperties
    <2>4. grants' = Append(grants, g) \/ grants' = grants
      BY <1>2, <2>1 DEF SetLeak
    <2>5. metrics' \in {[metrics EXCEPT !.allow = @ + 1], [metrics EXCEPT !.deny = @ + 1]}
      BY DEF SetLeak
    <2>6. metrics' \in [allow : Nat, deny : Nat]
      BY <2>2, <2>5
    <2> QED
      BY <1>1, <2>2, <2>3, <2>4, <2>6, Facts DEF Counters
  <1>15. wc \in WaterCells /\ pc[t] \notin Outside
    BY <1>1, <1>7, Facts DEF Outside
  <1> QED
    BY <1>1, <1>7, <1>12, <1>13, <1>14, <1>15, Returning

LEMMA Failing ==
  ASSUME IInv, NEW t \in Threads, StoreError(t)
  PROVE  IInv'
  <1>1. /\ pc[t] \notin Outside /\ UNCHANGED <<cfg, now, calls, grants>> /\ Return(t)
        /\ failures' = failures + 1 /\ last' = NoDecision
        /\ waterCell' \in {waterCell, WriteWater(t)} /\ leakCell' \in {leakCell, WriteLeak(t)}
    BY DEF StoreError, Outside
  <1>2. Counters'
    <2>1. metrics \in [allow : Nat, deny : Nat]
      BY Facts DEF Counters
    <2>2. metrics' \in {[metrics EXCEPT !.allow = @ + 1], metrics}
      BY DEF StoreError
    <2>3. metrics' \in [allow : Nat, deny : Nat]
      BY <2>1, <2>2
    <2>4. Counters
      BY Facts
    <2> QED
      BY <1>1, <2>3, <2>4 DEF Counters
  <1>3. PICK wc, lc, d : wc = waterCell' /\ lc = leakCell' /\ d = last'
    OBVIOUS
  <1>4. wc \in WaterCells /\ lc \in LeakCells /\ lc.value % Grain = 0
    BY <1>1, <1>3, Facts, WrittenCells
  <1>5. d \in Decisions /\ ~d.made
    BY <1>1, <1>3 DEF NoDecision, Decisions
  <1>6. LeakOK(lc, d)
    BY <1>4, <1>5 DEF LeakOK
  <1> QED
    BY <1>1, <1>2, <1>3, <1>4, <1>5, <1>6, Returning

LEMMA Passing ==
  ASSUME IInv, UNCHANGED <<cfg, waterCell, leakCell, mu, pc, loc, last>>, Counters'
  PROVE  IInv'
  <1>1. \A u \in Threads : LocalOK(pc[u], loc[u], waterCell.value, leakCell.value, last)'
    BY Facts, SameConfiguration DEF LocalOK, KeptBy
  <1>2. LeakOK(leakCell, last)'
    BY Facts, SameConfiguration DEF LeakOK, EmptyAfter
  <1>3. ((last.made /\ \A u \in Threads : pc[u] # "setLeak") =>
           EmptyAfter(last.emptyAt + Late + Err, waterCell.value, leakCell.value))'
    BY SameConfiguration DEF IInv, EmptyAfter
  <1> QED
    BY <1>1, <1>2, <1>3, SameConfiguration DEF IInv

LEMMA InitHolds == Init => IInv
  <1> SUFFICES ASSUME Init PROVE IInv
    OBVIOUS
  <1>1. cfg \in Configs
    BY DEF Init
  <1>2. Limit \in Nat \ {0} /\ Grain \in Nat \ {0}
    BY <1>1, Chosen
  <1>3. PICK l : l = IdleLocal /\ loc = [t \in Threads |-> l]
    BY DEF Init
  <1>4. l \in Local
    BY <1>2, <1>3 DEF IdleLocal, Local
  <1>5. PICK c : c = EmptyCell
    OBVIOUS
  <1>6. c \in WaterCells /\ c \in LeakCells /\ c.value % Grain = 0
    <2>1. c.value = 0 /\ c \in LeakCells
      BY <1>5 DEF EmptyCell, LeakCells
    <2>2. 0 % Grain = 0 /\ 0 \in 0..Limit
      BY <1>2
    <2> QED
      BY <1>5, <2>1, <2>2 DEF EmptyCell, WaterCells
  <1>7. PICK d : d = NoDecision
    OBVIOUS
  <1>8. d \in Decisions /\ ~d.made
    BY <1>7 DEF NoDecision, Decisions
  <1>9. waterCell = c /\ leakCell = c /\ last = d
    BY <1>5, <1>7 DEF Init
  <1>10. LeakOK(leakCell, last)
    BY <1>6, <1>8, <1>9 DEF LeakOK
  <1>11. /\ pc \in [Threads -> PCs] /\ loc \in [Threads -> Local] /\ mu = Nobody
        /\ \A t \in Threads : pc[t] = "idle" /\ loc[t] \in Local
    BY <1>3, <1>4 DEF Init, PCs
  <1>12. \A t \in Threads : /\ pc[t] \in Outside
                            /\ LocalOK(pc[t], loc[t], waterCell.value, leakCell.value, last)
    BY <1>11 DEF Outside, LocalOK, PCs
  <1>13. Counters
    BY <1>2 DEF Init, Counters
  <1> QED
    BY <1>1, <1>6, <1>8, <1>9, <1>10, <1>11, <1>12, <1>13 DEF IInv

LEMMA StepKeeps == IInv /\ [Next]_vars => IInv'
  <1> SUFFICES ASSUME IInv, [Next]_vars PROVE IInv'
    OBVIOUS
  <1>1. ASSUME NEW t \in Threads, Allow(t) \/ Step(t) PROVE IInv'
    BY <1>1, Entering, ReadingWater, Deciding, WritingWater, Completing, Failing DEF Step
  <1>2. CASE Tick
    <2>1. Counters'
      BY <1>2, Facts DEF Tick, Counters
    <2> QED
      BY <1>2, <2>1, Passing DEF Tick
  <1>3. CASE UNCHANGED vars
    <2>1. Counters'
      BY <1>3, Facts DEF vars, Counters
    <2> QED
      BY <1>3, <2>1, Passing DEF vars
  <1> QED
    BY <1>1, <1>2, <1>3 DEF Next

-----------------------------------------------------------------------------
(* Whatever the two keys hold when the mutex is free, the bucket is empty, *)
(* and leaks, when the last result said it does (leaky_bucket.go:62-124).  *)
THEOREM InductiveInvariant == Spec => []IInv
  BY InitHolds, StepKeeps, PTL DEF Spec

(* The level stays between nothing and Limit, and the last leak and the    *)
(* announced delays are never negative, whichever way quotients round      *)
(* (leaky_bucket.go:75-124).                                               *)
THEOREM TypeCorrect == Spec => []TypeOK
  <1>1. IInv => TypeOK
    BY DEF IInv, TypeOK, LeakOK, WaterCells, LeakCells, Decisions, Grants, Counters
  <1> QED
    BY <1>1, InductiveInvariant, PTL

(* For any limit, window, precision, rounding and interleaving: one unit   *)
(* after RetryAfter of any denied call, and with no admission since, no    *)
(* call is denied; and one unit after Reset, or two where its product can  *)
(* come out short, and half a grain, a call finds an empty bucket          *)
(* (leaky_bucket.go:75-99, 106, 124).                                      *)
THEOREM DelaysAreNearlyKept == Spec => DelaysNearlyKept
  <1> DEFINE A == \A t \in Threads : LET l == loc[t] IN Decided(t) =>
                    /\ (~l.allowed /\ ~last.allowed) => l.now <= last.retryAt
                    /\ l.now > last.emptyAt + Late + Err => l.allowed /\ l.water = 1
  <1>1. ASSUME IInv PROVE A
    <2> SUFFICES ASSUME NEW t \in Threads, Decided(t)
                 PROVE  /\ (~loc[t].allowed /\ ~last.allowed) => loc[t].now <= last.retryAt
                        /\ loc[t].now > last.emptyAt + Late + Err => loc[t].allowed /\ loc[t].water = 1
      OBVIOUS
    <2>1. pc[t] = "setLeak" /\ last.made
      BY DEF Decided
    <2>2. KeptBy(loc[t], last)
      BY <1>1, <2>1, Facts DEF LocalOK
    <2> QED
      BY <2>1, <2>2 DEF KeptBy
  <1>2. Spec => [][A]_vars
    BY <1>1, InductiveInvariant, PTL DEF Spec
  <1> QED
    BY <1>2 DEF DelaysNearlyKept

-----------------------------------------------------------------------------
(* The rate.  Each request that leaks moves the last leak by LeakInterval  *)
(* at least, so the calls admitted since a grant are those in the bucket   *)
(* and those that the time up to the last leak has paid for, and what an   *)
(* expiry lends or a failed call gives back.                               *)

(* The least that has leaked after a time e. *)
Least(e) == (e * Limit - (IF Inexact THEN 1 ELSE 0)) \div Window

(* What the level w stands for at t, when the last leak was at r: what has *)
(* leaked since then can be used once only.                                *)
Due(w, r, t) == IF w >= Least(t - r) THEN w ELSE Least(t - r)

(* Of n admitted calls those but w are paid for by the time to r, as it    *)
(* may have been before it was rounded, and by c; and by the time to t.    *)
Covers(n, w, r, t, c) ==
    /\ (n - w) * LeakInterval <= r + Err + c
    /\ (n - w) * LeakInterval <= t + c

(* What there is from the grant g on beyond the time that has passed, when *)
(* f calls have failed and keys have expired x times in the middle of one. *)
Cost == GivenBack * LeakInterval
Credit(g, f, x) == Unused - g.at + (f - g.failures) * Cost + x * Lent

(* The store at the time s, when the key of the last leak has expired ...  *)
Gone(g, n, f, lc, t, s, x) ==
    lc.expiresAt < s /\ n * LeakInterval <= t + Credit(g, f, x)

(* ... and when neither key need have.  An expiry lends anew a Window      *)
(* after the last one, or has nothing to lend.                             *)
Stands(g, n, f, wc, lc, t, x) ==
    /\ lc.value > 0
    /\ x * Window + Window + g.at <= wc.expiresAt
    /\ lc.value + Window <= wc.expiresAt + Err
    /\ lc.value + Window <= lc.expiresAt + Err
    /\ Covers(n, Due(wc.value, lc.value, t), lc.value, t, Credit(g, f, x))
    /\ \/ x * Window + Window + g.at <= lc.expiresAt
       \/ n * LeakInterval <= t + Credit(g, f, x)

(* The n calls admitted from the grant g on are paid for, as a call finds  *)
(* that reads the clock at t and the two keys at s.                        *)
Paid(g, n, f, wc, lc, t, s) ==
    \E x \in Nat : /\ x * Window + g.at <= s
                   /\ Gone(g, n, f, lc, t, s, x) \/ Stands(g, n, f, wc, lc, t, x)

(* And when a call with the locals l has written both keys, by s. *)
Writes(g, n, f, l, s) ==
    \E x \in Nat :
        /\ x * Window + g.at <= s /\ x * Window + g.at <= l.now + MaxStall
        /\ Covers(IF l.allowed THEN n + 1 ELSE n, l.water, Float64(l.lastLeak, Grain), l.now,
                  Credit(g, f, x))

(* For all the grants h. *)
Owing(h, f, wc, lc, t, s) ==
    \A i \in 1..Len(h) : h[i].failures <= f /\ Paid(h[i], Len(h) - i + 1, f, wc, lc, t, s)
Writing(h, f, l, s) ==
    \A i \in 1..Len(h) : h[i].failures <= f /\ Writes(h[i], Len(h) - i + 1, f, l, s)

(* The decision that a call with the locals l has taken. *)
Ready(l) ==
    /\ l.lastLeak >= Grain /\ l.now <= l.lastLeak + Unused
    /\ Float64(l.lastLeak, Grain) <= l.now + Err

(* A call at p, at the time s. *)
CallPays(p, l, h, f, wc, lc, s) ==
    /\ Grain <= l.now /\ l.now <= s /\ lc.value <= l.now + Err
    /\ p \in {"getWater", "getLeak"} => s <= l.now + MaxStall
    /\ p = "getLeak" => l.water = wc.value \/ (l.water = 0 /\ wc.expiresAt < s)
    /\ p # "setLeak" => Owing(h, f, wc, lc, l.now, s)
    /\ p \in {"setWater", "setLeak"} => Ready(l)
    /\ p = "setWater" =>
         Owing(h, f + 1, Written(l.water, s, Window), lc, l.now, s) /\ Writing(h, f, l, s)
    /\ p = "setLeak" =>
         /\ Owing(h, f + 1, wc, lc, l.now, s)
         /\ Writing(h, f, l, wc.expiresAt - Window)
         /\ l.now + Window <= wc.expiresAt /\ wc.expiresAt <= s + Window

(* The store between calls. *)
StorePays(h, f, wc, lc, s) == lc.value <= s + Err /\ Owing(h, f, wc, lc, s, s)

(* The n calls up to the grant b, since the grant a. *)
Within(n, a, b) ==
    (n - Limit - (b.failures - a.failures) * GivenBack) * LeakInterval
        <= (b.at - a.at) + Unused + (((b.at - a.at) + MaxStall) \div Window) * Lent
Rate(h) == \A i, j \in 1..Len(h) : i <= j => Within(j - i + 1, h[i], h[j])

RBody ==
    /\ Grain <= now
    /\ Rate(grants)
    /\ (\A t \in Threads : pc[t] \in Outside) =>
         StorePays(grants, failures, waterCell, leakCell, now)
    /\ \A t \in Threads : pc[t] \notin Outside =>
         CallPays(pc[t], loc[t], grants, failures, waterCell, leakCell, now)

RInv == LeakInterval > 0 => RBody

LEMMA QuotientBound ==
  ASSUME NEW a \in Int, NEW w \in Nat \ {0}
  PROVE  /\ a \div w \in Int /\ (a \div w) * w \in Int
         /\ (a \div w) * w <= a /\ a < (a \div w) * w + w
  OBVIOUS

LEMMA QuotientLeast ==
  ASSUME NEW a \in Int, NEW w \in Nat \ {0}, NEW k \in Int, k * w <= a
  PROVE  k <= a \div w
  <1>1. PICK q \in Int : q = a \div w /\ q * w \in Int /\ a < q * w + w
    BY QuotientBound
  <1>2. (q + 1) * w = q * w + w /\ k * w \in Int
    OBVIOUS
  <1>3. (q + 1) * w > k * w
    BY <1>1, <1>2
  <1>4. q + 1 > k
    BY <1>3, ProductStrict
  <1> QED
    BY <1>1, <1>4

LEMMA QuotientMost ==
  ASSUME NEW a \in Int, NEW w \in Nat \ {0}, NEW k \in Int, a < k * w + w
  PROVE  a \div w <= k
  <1>1. PICK q \in Int : q = a \div w /\ q * w \in Int /\ q * w <= a
    BY QuotientBound
  <1>2. (k + 1) * w = k * w + w /\ k * w \in Int
    OBVIOUS
  <1>3. (k + 1) * w > q * w
    BY <1>1, <1>2
  <1>4. k + 1 > q
    BY <1>3, ProductStrict
  <1> QED
    BY <1>1, <1>4

(* What a condition that may hold or not is worth. *)
One(b) == IF b THEN 1 ELSE 0

LEMMA Rates ==
  ASSUME cfg \in Configs, LeakInterval > 0
  PROVE  /\ Limit \in Nat \ {0} /\ Window \in Nat \ {0} /\ Grain \in Nat \ {0}
         /\ Err \in Nat /\ MaxStall \in Nat /\ One(Inexact) \in {0, 1} /\ Inexact \in BOOLEAN
         /\ LeakInterval \in Nat \ {0} /\ GivenBack \in Nat /\ Lent \in Nat /\ Cost \in Nat
         /\ (LeakInterval + Err) * Limit \in Nat
         /\ (LeakInterval + Err) * Limit <= Window
         /\ Window \div Limit \in Nat
         /\ LeakInterval + Err <= Window \div Limit
         /\ Limit - 1 + One(Inexact) <= 2 * GivenBack + 1
         /\ (Inexact \/ MaxStall + Err > 1) => Lent = Window \div Limit + 1 + MaxStall
         /\ Unused \in Nat
  <1>1. /\ Limit \in Nat \ {0} /\ Window \in Nat \ {0} /\ Grain \in Nat \ {0}
        /\ Err \in Nat /\ Inexact \in BOOLEAN
    BY Chosen
  <1>2. MaxStall \in Nat
    BY EnvironmentAssumption DEF MaxStall
  <1>3. One(Inexact) \in {0, 1}
    BY DEF One
  <1>4. PICK q \in Int : q = Window \div Limit /\ q * Limit \in Int /\ q * Limit <= Window
    BY <1>1, QuotientBound
  <1>5. LeakInterval \in Int /\ LeakInterval + Err <= q
    <2>1. LeakInterval = q - (IF Inexact /\ Window % Limit = 0 THEN 1 ELSE 0) - Err
      BY <1>4 DEF LeakInterval
    <2>2. CASE Inexact /\ Window % Limit = 0
      BY <1>1, <2>1, <2>2
    <2>3. CASE ~(Inexact /\ Window % Limit = 0)
      BY <1>1, <2>1, <2>3
    <2> QED
      BY <2>2, <2>3
  <1>6. LeakInterval \in Nat \ {0} /\ q \in Nat /\ q >= 1
    BY <1>1, <1>5
  <1>7. (LeakInterval + Err) * Limit \in Nat /\ (LeakInterval + Err) * Limit <= Window
    <2>1. PICK s \in Nat : s = LeakInterval + Err
      BY <1>1, <1>6
    <2>2. s * Limit <= q * Limit /\ s * Limit \in Nat
      BY <1>1, <1>4, <1>5, <2>1, ProductMonotone, ProductNat
    <2> QED
      BY <1>1, <1>4, <2>1, <2>2
  <1>8. GivenBack \in Nat /\ Limit - 1 + One(Inexact) <= 2 * GivenBack + 1
    <2>1. PICK m \in Nat : m = IF Inexact THEN Limit ELSE Limit - 1
      BY <1>1
    <2>2. m \div 2 \in Nat /\ m <= 2 * (m \div 2) + 1
      OBVIOUS
    <2>3. GivenBack = m \div 2
      BY <2>1 DEF GivenBack
    <2>4. Limit - 1 + One(Inexact) <= m
      BY <1>1, <2>1 DEF One
    <2> QED
      BY <1>1, <1>3, <2>2, <2>3, <2>4
  <1>9. Lent \in Nat /\ ((Inexact \/ MaxStall + Err > 1) => Lent = Window \div Limit + 1 + MaxStall)
    BY <1>2, <1>4, <1>6 DEF Lent
  <1>10. Cost \in Nat
    BY <1>6, <1>8, ProductNat DEF Cost
  <1>11. Unused \in Nat
    BY <1>4, <1>6 DEF Unused
  <1> QED
    BY <1>1, <1>2, <1>3, <1>4, <1>5, <1>6, <1>7, <1>8, <1>9, <1>10, <1>11

LEMMA LeastBounds ==
  ASSUME cfg \in Configs, LeakInterval > 0, NEW e \in Int
  PROVE  /\ Least(e) \in Int /\ e * Limit \in Int /\ Least(e) * Window \in Int
         /\ Least(e) * Window <= e * Limit - One(Inexact)
         /\ e * Limit - One(Inexact) < Least(e) * Window + Window
  <1>1. Limit \in Nat \ {0} /\ Window \in Nat \ {0} /\ One(Inexact) \in {0, 1}
    BY Rates
  <1>2. PICK x \in Int : x = e * Limit
    BY <1>1, ProductInt
  <1>3. PICK y \in Int : y = x - One(Inexact)
    BY <1>1
  <1>4. Least(e) = y \div Window
    BY <1>2, <1>3 DEF Least, One
  <1> QED
    BY <1>1, <1>2, <1>3, <1>4, QuotientBound

LEMMA LeastMonotone ==
  ASSUME cfg \in Configs, LeakInterval > 0, NEW e \in Int, NEW f \in Int, e <= f
  PROVE  Least(e) <= Least(f)
  <1>1. Limit \in Nat \ {0} /\ Window \in Nat \ {0} /\ One(Inexact) \in {0, 1}
    BY Rates
  <1>2. PICK x \in Int, y \in Int : x = e * Limit /\ y = f * Limit /\ x <= y
    BY <1>1, ProductMonotone
  <1>3. PICK k \in Int : k = Least(e) /\ k * Window <= x - One(Inexact) /\ k * Window \in Int
    BY <1>2, LeastBounds
  <1>4. PICK z \in Int : z = y - One(Inexact)
    BY <1>1
  <1>5. k * Window <= z
    BY <1>1, <1>2, <1>3, <1>4
  <1>6. k <= z \div Window
    BY <1>1, <1>5, QuotientLeast
  <1> QED
    BY <1>2, <1>3, <1>4, <1>6 DEF Least, One

(* How many requests leak. *)
LEMMA LeakedAmount ==
  ASSUME cfg \in Configs, LeakInterval > 0, NEW e \in Int, NEW n \in Leaks(e)
  PROVE  /\ n \in Int /\ Least(e) <= n /\ n <= Least(e) + One(Inexact)
         /\ n * Window \in Int /\ n * Window <= e * Limit
  <1>1. Limit \in Nat \ {0} /\ Window \in Nat \ {0} /\ One(Inexact) \in {0, 1} /\ Inexact \in BOOLEAN
    BY Rates
  <1>2. PICK x \in Int : x = e * Limit
    BY <1>1, ProductInt
  <1>3. PICK q \in Int : q = x \div Window /\ q * Window \in Int /\ q * Window <= x /\ x < q * Window + Window
    BY <1>1, QuotientBound
  <1>4. PICK k \in Int : /\ k = Least(e) /\ k * Window \in Int
                         /\ k * Window <= x - One(Inexact) /\ x - One(Inexact) < k * Window + Window
    BY <1>2, LeastBounds
  <1>5. k <= q /\ q <= k + One(Inexact)
    <2>1. k * Window <= x
      BY <1>1, <1>4
    <2>2. k <= q
      BY <1>1, <1>3, <2>1, QuotientLeast
    <2>3. CASE Inexact
      <3>1. (k + 1) * Window = k * Window + Window
        BY <1>1
      <3>2. x < (k + 1) * Window + Window
        BY <1>1, <1>4, <2>3, <3>1 DEF One
      <3>3. q <= k + 1
        BY <1>1, <1>3, <3>2, QuotientMost
      <3> QED
        BY <2>2, <2>3, <3>3 DEF One
    <2>4. CASE ~Inexact
      <3>1. x < k * Window + Window
        BY <1>4, <2>4 DEF One
      <3>2. q <= k
        BY <1>1, <1>3, <3>1, QuotientMost
      <3> QED
        BY <2>2, <2>4, <3>2 DEF One
    <2> QED
      BY <1>1, <2>3, <2>4
  <1>6. n = q \/ (n = q - 1 /\ Inexact /\ x % Window = 0)
    BY <1>2, <1>3 DEF Leaks, Floors
  <1>7. CASE n = q
    BY <1>2, <1>3, <1>4, <1>5, <1>7
  <1>8. CASE n = q - 1 /\ Inexact /\ x % Window = 0
    <2>1. (q - 1) * Window = q * Window - Window
      BY <1>1
    <2>2. q * Window = x
      BY <1>1, <1>3, <1>8
    <2>3. k <= q - 1
      <3>1. (k + 1) * Window = k * Window + Window /\ q * Window \in Int
        BY <1>1, <1>3
      <3>2. ASSUME k = q PROVE FALSE
        BY <1>4, <1>8, <2>2, <3>2 DEF One
      <3> QED
        BY <1>5, <3>2
    <2> QED
      <3>1. PICK o \in {0, 1} : o = One(Inexact)
        BY <1>1
      <3>2. q <= k + o /\ n = q - 1
        BY <1>5, <1>8, <3>1
      <3>3. n \in Int /\ k <= n /\ n <= k + o
        BY <2>3, <3>2
      <3>4. n * Window = q * Window - Window
        BY <1>8, <2>1
      <3>5. n * Window \in Int /\ n * Window <= x
        BY <1>1, <1>3, <3>4
      <3> QED
        BY <1>2, <1>4, <3>1, <3>3, <3>5
  <1> QED
    BY <1>6, <1>7, <1>8

(* How far the last leak moves for n leaked requests. *)
LEMMA Advance ==
  ASSUME cfg \in Configs, LeakInterval > 0, NEW n \in Nat \ {0}, NEW a \in Advances(n)
  PROVE  /\ a \in Nat /\ n * LeakInterval \in Nat /\ a >= n * LeakInterval + Err
         /\ n * Window \in Nat /\ a * Limit \in Nat /\ a * Limit <= n * Window
         /\ n * Window - a * Limit < Limit + One(Inexact)
         /\ (~Inexact /\ Window % Limit = 0) => a * Limit = n * Window
  <1>1. /\ Limit \in Nat \ {0} /\ Window \in Nat \ {0} /\ One(Inexact) \in {0, 1} /\ Inexact \in BOOLEAN
        /\ LeakInterval \in Nat \ {0} /\ Err \in Nat
    BY Rates
  <1>2. PICK b \in Nat : b = n * Window
    BY <1>1, ProductNat
  <1>20. PICK q \in Nat, r \in 0..(Limit - 1) :
           q = b \div Limit /\ r = b % Limit /\ q * Limit \in Nat /\ b = q * Limit + r
    <2>1. /\ b \div Limit \in Nat /\ b % Limit \in 0..(Limit - 1)
          /\ (b \div Limit) * Limit \in Nat /\ b = (b \div Limit) * Limit + (b % Limit)
      BY <1>1, DivBounds
    <2> QED
      BY <2>1
  <1>3. q \in Nat /\ r \in 0..(Limit - 1) /\ q * Limit \in Nat /\ b = q * Limit + r
    BY <1>20
  <1>4. a = q \/ (a = q - 1 /\ Inexact /\ r = 0 /\ b > 0)
    BY <1>2, <1>20 DEF Advances, Floors
  <1>21. PICK w \in Nat, o \in 0..(Limit - 1) :
           /\ w = Window \div Limit /\ o = Window % Limit
           /\ w * Limit \in Nat /\ Window = w * Limit + o
    <2>1. /\ Window \div Limit \in Nat /\ Window % Limit \in 0..(Limit - 1)
          /\ (Window \div Limit) * Limit \in Nat
          /\ Window = (Window \div Limit) * Limit + (Window % Limit)
      BY <1>1, DivBounds
    <2> QED
      BY <2>1
  <1>5. w \in Nat /\ o \in 0..(Limit - 1) /\ w * Limit \in Nat /\ Window = w * Limit + o
    BY <1>21
  <1>6. LeakInterval + Err = IF Inexact /\ o = 0 THEN w - 1 ELSE w
    BY <1>1, <1>21 DEF LeakInterval
  <1>7. PICK m \in Nat, i \in Nat : m = n * w /\ i = n * o
    BY <1>5, ProductNat
  <1>8. b = m * Limit + i /\ m * Limit \in Nat
    <2>1. n * (w * Limit + o) = (n * w) * Limit + n * o
      BY <1>1, <1>5
    <2> QED
      BY <1>1, <1>2, <1>5, <1>7, <2>1, ProductNat
  <1>9. o = 0 => i = 0
    BY <1>7
  <1>10. o > 0 => i > 0
    <2>1. ASSUME o > 0 PROVE i > 0
      <3>1. 1 * o <= n * o
        BY <1>5, ProductMonotone
      <3> QED
        BY <1>5, <1>7, <2>1, <3>1
    <2> QED
      BY <2>1
  <1>11. m <= q
    BY <1>1, <1>20, <1>8, QuotientLeast
  <1>12. a \in Int /\ a >= (IF Inexact /\ o = 0 THEN m - 1 ELSE m)
    <2>1. CASE a = q
      BY <1>3, <1>7, <1>11, <2>1
    <2>2. CASE a = q - 1 /\ Inexact /\ r = 0 /\ b > 0
      <3>1. CASE o = 0
        <4>1. a = q - 1 /\ Inexact /\ m <= q /\ m \in Nat /\ q \in Nat
          BY <1>3, <1>7, <1>11, <2>2
        <4> QED
          BY <3>1, <4>1
      <3>2. CASE o > 0
        <4>1. r = 0 /\ i > 0 /\ a = q - 1 /\ m <= q /\ m \in Nat /\ q \in Nat /\ i \in Nat
          BY <1>3, <1>7, <1>10, <1>11, <2>2, <3>2
        <4>2. ASSUME m = q PROVE FALSE
          BY <1>3, <1>8, <4>1, <4>2
        <4> QED
          BY <3>2, <4>1, <4>2
      <3> QED
        BY <1>5, <3>1, <3>2
    <2> QED
      BY <1>4, <2>1, <2>2
  <1>13. PICK s \in Nat, d \in Nat, e \in Nat :
           s = LeakInterval + Err /\ d = n * LeakInterval /\ e = n * Err
    BY <1>1, ProductNat
  <1>14. n * s = d + e /\ e >= Err
    <2>1. n * (LeakInterval + Err) = n * LeakInterval + n * Err
      BY <1>1
    <2>2. 1 * Err <= n * Err
      BY <1>1, ProductMonotone
    <2> QED
      BY <1>1, <1>13, <2>1, <2>2
  <1>15. n * s <= a
    <2>1. CASE Inexact /\ o = 0
      <3>1. n * (w - 1) = n * w - n
        BY <1>5
      <3>2. s = w - 1
        BY <1>6, <1>13, <2>1
      <3>3. n * s = m - n
        BY <1>7, <3>1, <3>2
      <3> QED
        BY <1>7, <1>12, <2>1, <3>3
    <2>2. CASE ~(Inexact /\ o = 0)
      BY <1>6, <1>7, <1>12, <1>13, <2>2
    <2> QED
      BY <2>1, <2>2
  <1>16. a \in Nat /\ a >= d + Err
    BY <1>1, <1>12, <1>13, <1>14, <1>15
  <1>17. /\ a * Limit \in Nat /\ a * Limit <= b /\ b - a * Limit < Limit + One(Inexact)
         /\ (~Inexact /\ o = 0) => a * Limit = b
    <2>1. CASE a = q
      <3>1. (~Inexact /\ o = 0) => r = 0
        <4>1. ASSUME o = 0 PROVE r = 0
          <5>1. b = m * Limit /\ b % Limit = 0
            BY <1>1, <1>7, <1>8, <1>9, <4>1, Multiple
          <5> QED
            BY <1>20, <5>1
        <4> QED
          BY <4>1
      <3> QED
        BY <1>1, <1>3, <2>1, <3>1
    <2>2. CASE a = q - 1 /\ Inexact /\ r = 0 /\ b > 0
      <3>1. (q - 1) * Limit = q * Limit - Limit
        BY <1>1, <1>3
      <3>2. a * Limit = b - Limit
        <4>1. a = q - 1 /\ r = 0
          BY <2>2
        <4> QED
          BY <1>1, <1>3, <3>1, <4>1
      <3>3. a * Limit \in Nat
        BY <1>1, <1>16, ProductNat
      <3> QED
        BY <1>1, <2>2, <3>2, <3>3 DEF One
    <2> QED
      BY <1>4, <2>1, <2>2
  <1> QED
    BY <1>2, <1>21, <1>13, <1>16, <1>17

(* A last leak that moves does not move past the clock reading, and what   *)
(* it leaves behind is less than a request, and what rounding adds.        *)
LEMMA LeftBehind ==
  ASSUME cfg \in Configs, LeakInterval > 0, NEW e \in Int, NEW n \in Leaks(e)
  PROVE  /\ n > 0 => \A a \in Advances(n) : a <= e /\ e - a <= Unused
         /\ ~(n > 0) => e <= Unused
  <1>1. /\ Limit \in Nat \ {0} /\ Window \in Nat \ {0} /\ One(Inexact) \in {0, 1} /\ Inexact \in BOOLEAN
        /\ Window \div Limit \in Nat
    BY Rates
  <1>2. PICK x \in Int, k \in Int :
           /\ x = e * Limit /\ k = Least(e) /\ k * Window \in Int
           /\ x - One(Inexact) < k * Window + Window
    BY <1>1, ProductInt, LeastBounds
  <1>3. n \in Int /\ k <= n /\ n * Window \in Int /\ n * Window <= x /\ k * Window <= n * Window
    <2>1. n \in Int /\ k <= n /\ n * Window \in Int /\ n * Window <= x
      BY <1>2, LeakedAmount
    <2> QED
      BY <1>1, <1>2, <2>1, ProductMonotone
  <1>4. PICK w \in Nat, o \in 0..(Limit - 1) :
           /\ w = Window \div Limit /\ o = Window % Limit
           /\ w * Limit \in Nat /\ Window = w * Limit + o
    <2>1. /\ Window \div Limit \in Nat /\ Window % Limit \in 0..(Limit - 1)
          /\ (Window \div Limit) * Limit \in Nat
          /\ Window = (Window \div Limit) * Limit + (Window % Limit)
      BY <1>1, DivBounds
    <2> QED
      BY <2>1
  <1>5. Unused = IF Inexact \/ o # 0 THEN w + 1 ELSE w - 1
    BY <1>4 DEF Unused
  <1>6. ASSUME NEW f \in Int, NEW y \in Int, y = f * Limit,
               y < Window + Limit + 2 * One(Inexact) - 1,
               (~Inexact /\ o = 0) => y < Window
        PROVE  f <= Unused
    <2>1. CASE Inexact \/ o # 0
      <3>1. (w + 2) * Limit = w * Limit + 2 * Limit
        BY <1>1, <1>4
      <3>2. y < (w + 2) * Limit
        BY <1>1, <1>4, <1>6, <2>1, <3>1 DEF One
      <3>3. f < w + 2
        BY <1>1, <1>6, <3>2, ProductStrict
      <3> QED
        BY <1>5, <2>1, <3>3
    <2>2. CASE ~(Inexact \/ o # 0)
      <3>1. f * Limit < w * Limit
        BY <1>4, <1>6, <2>2
      <3>2. f < w
        BY <1>1, <3>1, ProductStrict
      <3> QED
        BY <1>5, <2>2, <3>2
    <2> QED
      BY <2>1, <2>2
  <1>7. ASSUME n > 0, NEW a \in Advances(n) PROVE a <= e /\ e - a <= Unused
    <2>1. PICK y \in Nat : /\ y = a * Limit /\ a \in Nat /\ y <= n * Window
                           /\ n * Window - y < Limit + One(Inexact)
                           /\ (~Inexact /\ o = 0) => y = n * Window
      <3>1. n \in Nat \ {0}
        BY <1>3, <1>7
      <3> QED
        BY <1>4, <1>7, <3>1, Advance
    <2>2. a <= e
      <3>1. (e + 1) * Limit = x + Limit
        BY <1>1, <1>2
      <3>2. (e + 1) * Limit > a * Limit
        BY <1>1, <1>2, <1>3, <2>1, <3>1
      <3>3. e + 1 > a
        BY <1>1, <2>1, <3>2, ProductStrict
      <3> QED
        BY <2>1, <3>3
    <2>3. (e - a) * Limit = x - y
      BY <1>1, <1>2, <2>1
    <2>4. x - y < Window + Limit + 2 * One(Inexact) - 1 /\ ((~Inexact /\ o = 0) => x - y < Window)
      BY <1>1, <1>2, <1>3, <2>1 DEF One
    <2>5. PICK f \in Int, z \in Int : f = e - a /\ z = x - y
      BY <1>2, <2>1
    <2> QED
      BY <1>6, <2>2, <2>3, <2>4, <2>5
  <1>8. ASSUME ~(n > 0) PROVE e <= Unused
    <2>1. k * Window <= 0
      <3>1. k * Window <= 0 * Window /\ 0 * Window = 0
        BY <1>1, <1>2, <1>3, <1>8, ProductMonotone
      <3> QED
        BY <3>1
    <2>2. x < Window + Limit + 2 * One(Inexact) - 1 /\ ((~Inexact /\ o = 0) => x < Window)
      BY <1>1, <1>2, <2>1 DEF One
    <2> QED
      BY <1>2, <1>6, <2>2
  <1> QED
    BY <1>7, <1>8

-----------------------------------------------------------------------------
(* What admitted calls are paid with. *)

LEMMA StoredNear ==
  ASSUME NEW x \in Nat, NEW g \in Nat \ {0}, NEW y, y = Float64(x, g)
  PROVE  y \in Nat /\ y <= x + g \div 2 /\ x <= y + g \div 2 /\ (x >= g => y >= g) /\ g \div 2 \in Nat
  <1>1. PICK q \in Nat, r \in 0..(g - 1) :
           /\ q = x \div g /\ r = x % g
           /\ q * g \in Nat /\ x = q * g + r /\ (q + 1) * g = q * g + g
    BY DivBounds
  <1>2. y \in Nat /\ y <= x + g \div 2
    BY Stored
  <1>3. g \div 2 \in Nat
    OBVIOUS
  <1>4. x >= g => q * g >= g
    <2>1. ASSUME x >= g PROVE q * g >= g
      <3>1. q # 0
        BY <1>1, <2>1
      <3>2. q >= 1 /\ 1 * g <= q * g
        BY <1>1, <3>1, ProductMonotone
      <3> QED
        BY <3>2
    <2> QED
      BY <2>1
  <1>5. CASE 2 * r < g \/ (2 * r = g /\ q % 2 = 0)
    <2>1. y = q * g
      BY <1>1, <1>5 DEF Float64
    <2>2. r <= g \div 2
      BY <1>1, <1>5
    <2> QED
      BY <1>1, <1>2, <1>3, <1>4, <2>1, <2>2
  <1>6. CASE ~(2 * r < g \/ (2 * r = g /\ q % 2 = 0))
    <2>1. y = (q + 1) * g
      BY <1>1, <1>6 DEF Float64
    <2>2. y = q * g + g /\ y >= x
      BY <1>1, <2>1
    <2> QED
      BY <1>1, <1>2, <1>3, <1>4, <2>2
  <1> QED
    BY <1>5, <1>6

LEMMA DueBounds ==
  ASSUME cfg \in Configs, LeakInterval > 0, NEW w \in Nat, NEW r \in Int, NEW t \in Int
  PROVE  /\ Due(w, r, t) \in Nat /\ Least(t - r) \in Int
         /\ w <= Due(w, r, t) /\ Least(t - r) <= Due(w, r, t)
         /\ Due(w, r, t) = w \/ Due(w, r, t) = Least(t - r)
  <1>1. PICK e \in Int : e = t - r
    OBVIOUS
  <1>2. PICK k \in Int : k = Least(t - r)
    BY <1>1, LeastBounds
  <1> QED
    BY <1>2 DEF Due

(* More time, less that is owed. *)
LEMMA CoversMore ==
  ASSUME cfg \in Configs, LeakInterval > 0, NEW n \in Int, NEW w \in Int, NEW r \in Int, NEW t \in Int,
         NEW c \in Int, Covers(n, w, r, t, c),
         NEW v \in Int, w <= v, NEW s \in Int, t <= s, NEW d \in Int, c <= d
  PROVE  Covers(n, v, r, s, d)
  <1>1. LeakInterval \in Nat /\ Err \in Nat
    BY Rates
  <1>2. (n - v) * LeakInterval <= (n - w) * LeakInterval
    <2>1. n - v \in Int /\ n - w \in Int /\ n - v <= n - w
      OBVIOUS
    <2> QED
      BY <1>1, <2>1, ProductMonotone
  <1>3. (n - v) * LeakInterval \in Int /\ (n - w) * LeakInterval \in Int
    BY <1>1, ProductInt
  <1> QED
    BY <1>1, <1>2, <1>3 DEF Covers

(* Time passes. *)
LEMMA CoversLater ==
  ASSUME cfg \in Configs, LeakInterval > 0, NEW n \in Int, NEW w \in Nat, NEW r \in Int, NEW t \in Int,
         NEW c \in Int, Covers(n, Due(w, r, t), r, t, c),
         NEW s \in Int, t <= s, NEW d \in Int, c <= d
  PROVE  Covers(n, Due(w, r, s), r, s, d)
  <1>1. /\ Due(w, r, t) \in Nat /\ Due(w, r, s) \in Nat
        /\ Due(w, r, t) = w \/ Due(w, r, t) = Least(t - r)
        /\ w <= Due(w, r, s) /\ Least(s - r) <= Due(w, r, s)
        /\ Least(s - r) \in Int /\ Least(t - r) \in Int
    BY DueBounds
  <1>2. Least(t - r) <= Least(s - r)
    <2>1. t - r \in Int /\ s - r \in Int /\ t - r <= s - r
      OBVIOUS
    <2> QED
      BY <2>1, LeastMonotone
  <1>3. PICK u \in Nat, v \in Nat : u = Due(w, r, t) /\ v = Due(w, r, s) /\ u <= v
    BY <1>1, <1>2
  <1>4. Covers(n, u, r, t, c)
    BY <1>3
  <1>5. Covers(n, v, r, s, d)
    <2>1. u \in Int /\ v \in Int /\ u <= v
      BY <1>3
    <2> QED
      BY <1>4, <2>1, CoversMore
  <1> QED
    BY <1>3, <1>5

(* The two cases of a leak. *)
LEMMA LeakedAs ==
  ASSUME NEW t, NEW w, NEW r, r # 0, NEW l \in Leaked(t, w, r)
  PROVE  \E n \in Leaks(t - r) :
            \/ n > 0 /\ \E a \in Advances(n) : l = [water |-> Drained(w, n), lastLeak |-> r + a]
            \/ ~(n > 0) /\ l = [water |-> w, lastLeak |-> r]
  <1>1. PICK n \in Leaks(t - r) :
          l \in (IF n > 0
                 THEN { [water |-> Drained(w, n), lastLeak |-> r + a] : a \in Advances(n) }
                 ELSE { [water |-> w, lastLeak |-> r] })
    BY DEF Leaked
  <1>2. CASE n > 0
    <2>1. PICK a \in Advances(n) : l = [water |-> Drained(w, n), lastLeak |-> r + a]
      BY <1>1, <1>2
    <2> QED
      BY <1>2, <2>1
  <1>3. CASE ~(n > 0)
    <2>1. l = [water |-> w, lastLeak |-> r]
      BY <1>1, <1>3
    <2> QED
      BY <1>3, <2>1
  <1> QED
    BY <1>2, <1>3

(* Where a leak leaves the last leak. *)
LEMMA LastLeakNear ==
  ASSUME cfg \in Configs, LeakInterval > 0, NEW t \in Nat, NEW w \in 0..Limit, NEW r \in Nat,
         NEW l \in Leaked(t, w, r)
  PROVE  /\ l.lastLeak \in Nat /\ l.lastLeak >= r /\ t <= l.lastLeak + Unused
         /\ l.lastLeak <= t \/ (r # 0 /\ l.lastLeak = r)
         /\ r = 0 => l.water = 0 /\ l.lastLeak = t
  <1>1. Unused \in Nat
    BY Rates
  <1>2. CASE r = 0
    <2>1. l = [water |-> 0, lastLeak |-> t]
      BY <1>2 DEF Leaked
    <2> QED
      BY <1>1, <1>2, <2>1
  <1>3. CASE r # 0
    <2>1. PICK n \in Leaks(t - r) :
            \/ n > 0 /\ \E a \in Advances(n) : l = [water |-> Drained(w, n), lastLeak |-> r + a]
            \/ ~(n > 0) /\ l = [water |-> w, lastLeak |-> r]
      BY <1>3, LeakedAs
    <2>2. PICK e \in Int : e = t - r
      OBVIOUS
    <2>3. n \in Int /\ (n > 0 => \A a \in Advances(n) : a <= e /\ e - a <= Unused) /\ (~(n > 0) => e <= Unused)
      BY <2>2, LeakedAmount, LeftBehind
    <2>4. CASE n > 0
      <3>1. PICK a \in Advances(n) : l = [water |-> Drained(w, n), lastLeak |-> r + a]
        BY <2>1, <2>4
      <3>2. a \in Nat
        <4>1. n \in Nat \ {0}
          BY <2>3, <2>4
        <4> QED
          BY <4>1, Advance
      <3>3. a <= e /\ e - a <= Unused
        BY <2>3, <2>4
      <3>4. l.lastLeak = r + a
        BY <3>1
      <3> QED
        BY <1>1, <1>3, <2>2, <3>2, <3>3, <3>4
    <2>5. CASE ~(n > 0)
      <3>1. l.lastLeak = r
        BY <2>1, <2>5
      <3>2. e <= Unused
        BY <2>3, <2>5
      <3> QED
        BY <1>1, <1>3, <2>2, <3>1, <3>2
    <2> QED
      BY <2>4, <2>5
  <1> QED
    BY <1>2, <1>3

(* What leaks is paid for by the time that the last leak moves. *)
LEMMA LeakKeeps ==
  ASSUME cfg \in Configs, LeakInterval > 0, NEW n \in Int, NEW t \in Nat, NEW w \in 0..Limit,
         NEW r \in Nat \ {0}, r % Grain = 0, NEW c \in Int, Covers(n, Due(w, r, t), r, t, c),
         NEW l \in Leaked(t, w, r)
  PROVE  Covers(n, l.water, Float64(l.lastLeak, Grain), t, c)
  <1>1. /\ Limit \in Nat \ {0} /\ Grain \in Nat \ {0} /\ Err \in Nat
        /\ LeakInterval \in Nat \ {0} /\ One(Inexact) \in {0, 1}
    BY Rates
  <1>2. PICK m \in Leaks(t - r) :
          \/ m > 0 /\ \E a \in Advances(m) : l = [water |-> Drained(w, m), lastLeak |-> r + a]
          \/ ~(m > 0) /\ l = [water |-> w, lastLeak |-> r]
    BY LeakedAs
  <1>3. m \in Int /\ Least(t - r) <= m /\ Least(t - r) \in Int
    <2>1. PICK e \in Int : e = t - r
      OBVIOUS
    <2> QED
      BY <2>1, LeakedAmount, LeastBounds
  <1>4. PICK u \in Nat : /\ u = Due(w, r, t) /\ w <= u /\ (u = w \/ u = Least(t - r))
                         /\ Covers(n, u, r, t, c)
    <2>1. w \in Nat
      BY <1>1
    <2>2. /\ Due(w, r, t) \in Nat /\ w <= Due(w, r, t)
          /\ Due(w, r, t) = w \/ Due(w, r, t) = Least(t - r)
      BY <2>1, DueBounds
    <2> QED
      BY <2>2
  <1>5. PICK z \in Int : z = (n - u) * LeakInterval /\ z <= r + Err + c /\ z <= t + c
    BY <1>1, <1>4, ProductInt DEF Covers
  <1>6. CASE m > 0
    <2>1. PICK a \in Advances(m) : l = [water |-> Drained(w, m), lastLeak |-> r + a]
      BY <1>2, <1>6
    <2>2. PICK v \in Nat : v = Drained(w, m) /\ u <= v + m
      <3>1. u <= w \/ u <= m
        BY <1>1, <1>3, <1>4
      <3>2. Drained(w, m) \in Nat /\ w <= Drained(w, m) + m
        BY <1>1, <1>3, <1>6 DEF Drained
      <3> QED
        BY <1>3, <1>4, <3>1, <3>2
    <2>3. PICK d \in Nat : d = m * LeakInterval /\ a \in Nat /\ a >= d + Err
      <3>1. m \in Nat \ {0}
        BY <1>3, <1>6
      <3> QED
        BY <3>1, Advance
    <2>4. a <= t - r
      <3>1. PICK e \in Int : e = t - r
        OBVIOUS
      <3> QED
        BY <1>6, <3>1, LeftBehind
    <2>5. PICK k \in Int : k = (n - v) * LeakInterval /\ k <= z + d
      <3>1. n - v <= (n - u) + m /\ n - v \in Int /\ (n - u) + m \in Int
        BY <1>3, <1>4, <2>2
      <3>2. (n - v) * LeakInterval <= ((n - u) + m) * LeakInterval /\ (n - v) * LeakInterval \in Int
        BY <1>1, <3>1, ProductMonotone
      <3>3. ((n - u) + m) * LeakInterval = (n - u) * LeakInterval + m * LeakInterval
        BY <1>1, <1>3, <1>4
      <3> QED
        BY <1>5, <2>3, <3>2, <3>3
    <2>6. PICK y \in Nat : y = Float64(r + a, Grain) /\ r + a <= y + Err
      <3>1. PICK x \in Nat : x = r + a
        BY <2>3
      <3>2. Float64(x, Grain) \in Nat /\ x <= Float64(x, Grain) + Grain \div 2
        BY <1>1, StoredNear
      <3> QED
        BY <3>1, <3>2 DEF Err
    <2>7. k <= y + Err + c /\ k <= t + c
      BY <1>1, <1>5, <2>3, <2>4, <2>5, <2>6
    <2>8. l.water = v /\ l.lastLeak = r + a
      BY <2>1, <2>2
    <2> QED
      BY <2>5, <2>6, <2>7, <2>8 DEF Covers
  <1>7. CASE ~(m > 0)
    <2>1. u = w
      BY <1>1, <1>3, <1>4, <1>7
    <2>2. Float64(r, Grain) = r
      BY <1>1, Stored
    <2> QED
      BY <1>2, <1>4, <1>7, <2>1, <2>2
  <1> QED
    BY <1>6, <1>7

(* What has leaked takes no more time than has passed. *)
LEMMA LeastPaid ==
  ASSUME cfg \in Configs, LeakInterval > 0, NEW e \in Int, NEW k \in Int, k = Least(e), k > 0
  PROVE  k * LeakInterval \in Int /\ k * LeakInterval <= e - Err
  <1>1. /\ Limit \in Nat \ {0} /\ Window \in Nat \ {0} /\ One(Inexact) \in {0, 1}
        /\ LeakInterval \in Nat \ {0} /\ Err \in Nat
    BY Rates
  <1>2. PICK s \in Nat : s = LeakInterval + Err /\ s * Limit \in Nat /\ s * Limit <= Window
    BY Rates
  <1>3. PICK x \in Int : x = e * Limit /\ k * Window \in Int /\ k * Window <= x
    <2>1. /\ Least(e) \in Int /\ e * Limit \in Int /\ Least(e) * Window \in Int
          /\ Least(e) * Window <= e * Limit - One(Inexact)
      BY LeastBounds
    <2> QED
      BY <1>1, <2>1
  <1>4. PICK b \in Nat : b = k * s
    BY <1>2, ProductNat
  <1>5. b * Limit <= x
    <2>1. (s * Limit) * k <= Window * k /\ (s * Limit) * k \in Int
      BY <1>1, <1>2, ProductMonotone
    <2>2. (s * Limit) * k = (k * s) * Limit /\ Window * k = k * Window
      BY <1>1, <1>2
    <2> QED
      BY <1>3, <1>4, <2>1, <2>2
  <1>6. b <= e
    <2>1. (e + 1) * Limit = x + Limit /\ b * Limit \in Int
      BY <1>1, <1>3, <1>4
    <2>2. (e + 1) * Limit > b * Limit
      BY <1>1, <1>3, <1>5, <2>1
    <2>3. e + 1 > b
      BY <1>1, <1>4, <2>2, ProductStrict
    <2> QED
      BY <1>4, <2>3
  <1>7. PICK d \in Int, f \in Int : d = k * LeakInterval /\ f = k * Err /\ b = d + f
    <2>1. k * (LeakInterval + Err) = k * LeakInterval + k * Err
      BY <1>1
    <2> QED
      BY <1>1, <1>2, <1>4, <2>1, ProductInt
  <1>8. f >= Err
    <2>1. 1 * Err <= k * Err
      BY <1>1, ProductMonotone
    <2> QED
      BY <1>1, <1>7, <2>1
  <1> QED
    BY <1>1, <1>6, <1>7, <1>8

(* A last leak that its key has lived longer than, as a call that may have *)
(* stalled sees it. *)
Aged(r, t) == r + Window + 1 <= t + MaxStall + Err

(* When the key of the last leak has expired, what was owed is paid but    *)
(* for what the expiry lends.                                              *)
LEMMA LeakGone ==
  ASSUME cfg \in Configs, LeakInterval > 0, NEW n \in Int, NEW w \in 0..Limit, NEW r \in Nat, NEW t \in Nat,
         NEW c \in Int, Covers(n, Due(w, r, t), r, t, c), Aged(r, t)
  PROVE  n * LeakInterval \in Int /\ n * LeakInterval <= t + c + Lent
  <1>1. /\ Limit \in Nat \ {0} /\ Window \in Nat \ {0} /\ LeakInterval \in Nat \ {0} /\ Err \in Nat
        /\ MaxStall \in Nat /\ Lent \in Nat
    BY Rates
  <1>2. PICK u \in Nat : u = Due(w, r, t) /\ (u = w \/ u = Least(t - r)) /\ w <= u
    <2>1. w \in Nat
      BY <1>1
    <2>2. /\ Due(w, r, t) \in Nat /\ w <= Due(w, r, t)
          /\ Due(w, r, t) = w \/ Due(w, r, t) = Least(t - r)
      BY <2>1, DueBounds
    <2> QED
      BY <2>2
  <1>3. PICK z \in Int : z = (n - u) * LeakInterval /\ z <= r + Err + c /\ z <= t + c
    BY <1>1, <1>2, ProductInt DEF Covers
  <1>4. PICK d \in Nat : d = u * LeakInterval
    BY <1>1, <1>2, ProductNat
  <1>5. n * LeakInterval \in Int /\ n * LeakInterval = z + d
    <2>1. (n - u) * LeakInterval = n * LeakInterval - u * LeakInterval
      BY <1>1, <1>2
    <2> QED
      BY <1>1, <1>3, <1>4, <2>1, ProductInt
  <1>6. CASE u = 0
    BY <1>1, <1>3, <1>4, <1>5, <1>6
  <1>7. CASE u > 0 /\ u = Least(t - r)
    <2>1. PICK e \in Int : e = t - r
      OBVIOUS
    <2>2. u * LeakInterval <= e - Err
      BY <1>2, <1>7, <2>1, LeastPaid
    <2> QED
      BY <1>1, <1>3, <1>4, <1>5, <2>1, <2>2
  <1>8. CASE u > 0 /\ u = w
    <2>1. d + Err <= Window
      <3>1. PICK s \in Nat : s = LeakInterval + Err /\ s * Limit <= Window /\ s * Limit \in Nat
        BY Rates
      <3>2. u * s <= Limit * s /\ u * s \in Int
        <4>1. u <= Limit /\ u \in Int /\ Limit \in Int
          BY <1>1, <1>8
        <4> QED
          BY <3>1, <4>1, ProductMonotone
      <3>3. u * (LeakInterval + Err) = u * LeakInterval + u * Err /\ Limit * s = s * Limit
        BY <1>1, <1>2, <3>1
      <3>4. 1 * Err <= u * Err /\ u * Err \in Int
        BY <1>1, <1>2, <1>8, ProductMonotone
      <3> QED
        BY <1>1, <1>4, <3>1, <3>2, <3>3, <3>4
    <2>2. CASE MaxStall + Err <= 1
      BY <1>1, <1>3, <1>4, <1>5, <2>1, <2>2 DEF Aged
    <2>3. CASE MaxStall + Err > 1
      <3>1. PICK q \in Nat : Lent = q + 1 + MaxStall /\ LeakInterval + Err <= q
        BY <2>3, Rates
      <3> QED
        BY <1>1, <1>3, <1>4, <1>5, <2>1, <3>1 DEF Aged
    <2> QED
      BY <1>1, <2>2, <2>3
  <1> QED
    BY <1>2, <1>6, <1>7, <1>8

(* And when the key of the level has. *)
LEMMA WaterGone ==
  ASSUME cfg \in Configs, LeakInterval > 0, NEW n \in Int, NEW w \in 0..Limit, NEW r \in Nat, NEW t \in Nat,
         NEW c \in Int, Covers(n, Due(w, r, t), r, t, c), Aged(r, t)
  PROVE  Covers(n, Due(0, r, t), r, t, c + Lent)
  <1>1. /\ Limit \in Nat \ {0} /\ Window \in Nat \ {0} /\ LeakInterval \in Nat \ {0} /\ Err \in Nat
        /\ MaxStall \in Nat /\ Lent \in Nat /\ One(Inexact) \in {0, 1} /\ Inexact \in BOOLEAN
    BY Rates
  <1>2. PICK u \in Nat : u = Due(w, r, t) /\ (u = w \/ u = Least(t - r)) /\ w <= u
    <2>1. w \in Nat
      BY <1>1
    <2>2. /\ Due(w, r, t) \in Nat /\ w <= Due(w, r, t)
          /\ Due(w, r, t) = w \/ Due(w, r, t) = Least(t - r)
      BY <2>1, DueBounds
    <2> QED
      BY <2>2
  <1>3. PICK v \in Nat, k \in Int : v = Due(0, r, t) /\ k = Least(t - r) /\ k <= v
    <2>1. Due(0, r, t) \in Nat /\ Least(t - r) \in Int /\ Least(t - r) <= Due(0, r, t)
      BY DueBounds
    <2> QED
      BY <2>1
  <1>4. Covers(n, u, r, t, c)
    BY <1>2
  <1>5. CASE u <= v
    <2>1. PICK d \in Int : d = c + Lent /\ c <= d
      BY <1>1
    <2>2. u \in Int /\ v \in Int /\ r \in Int /\ t \in Int /\ t <= t
      OBVIOUS
    <2>3. Covers(n, v, r, t, d)
      BY <1>4, <1>5, <2>1, <2>2, CoversMore
    <2> QED
      BY <1>3, <2>1, <2>3
  <1>6. CASE u > v
    <2>1. u <= Limit
      BY <1>1, <1>2, <1>3, <1>6
    <2>2. PICK h \in Int : h = Limit - k /\ u - v <= h /\ h > 0
      BY <1>1, <1>2, <1>3, <1>6, <2>1
    <2>3. PICK a \in Int : a = MaxStall + Err - 1
      BY <1>1
    <2>4. (h - 1) * Window <= a * Limit /\ a * Limit \in Int /\ (h - 1) * Window \in Int
          /\ (a <= 0 => ((h - 1) * Window < One(Inexact)))
      <3>1. PICK e \in Int : e = t - r /\ Window - a <= e
        BY <1>1, <2>3 DEF Aged
      <3>2. e * Limit - One(Inexact) < k * Window + Window /\ k * Window \in Int /\ e * Limit \in Int
        BY <1>3, <3>1, LeastBounds
      <3>3. (Window - a) * Limit <= e * Limit
        BY <1>1, <2>3, <3>1, ProductMonotone
      <3>4. (Window - a) * Limit = Window * Limit - a * Limit /\ (h - 1) * Window = Window * Limit - k * Window - Window
        BY <1>1, <1>3, <2>2, <2>3
      <3>5. Window * Limit \in Int /\ a * Limit \in Int /\ (h - 1) * Window \in Int
        BY <1>1, <2>2, <2>3, ProductInt
      <3>6. (h - 1) * Window < a * Limit + One(Inexact)
        BY <1>1, <3>2, <3>3, <3>4, <3>5
      <3>7. a <= 0 => a * Limit <= 0
        <4>1. ASSUME a <= 0 PROVE a * Limit <= 0
          <5>1. a * Limit <= 0 * Limit /\ 0 * Limit = 0
            BY <1>1, <4>1, ProductMonotone
          <5> QED
            BY <5>1
        <4> QED
          BY <4>1
      <3> QED
        BY <1>1, <3>5, <3>6, <3>7
    <2>5. (h - 1) * Window >= 0
      <3>1. h - 1 \in Nat
        BY <2>2
      <3> QED
        BY <1>1, <3>1, ProductNat
    <2>6. Lent = Window \div Limit + 1 + MaxStall
      <3>1. CASE Inexact
        BY <3>1, Rates
      <3>2. CASE ~Inexact
        <4>1. ~(a <= 0)
          BY <2>4, <2>5, <3>2 DEF One
        <4>2. MaxStall + Err > 1
          BY <1>1, <2>3, <4>1
        <4> QED
          BY <4>2, Rates
      <3> QED
        BY <3>1, <3>2
    <2>7. PICK s \in Nat, q \in Nat : /\ s = LeakInterval + Err /\ s * Limit \in Nat /\ s * Limit <= Window
                                      /\ q = Window \div Limit /\ s <= q
      <3>1. /\ (LeakInterval + Err) * Limit \in Nat /\ (LeakInterval + Err) * Limit <= Window
            /\ Window \div Limit \in Nat /\ LeakInterval + Err <= Window \div Limit
        BY Rates
      <3> QED
        BY <1>1, <3>1
    <2>8. PICK y \in Nat, x \in Nat : y = (h - 1) * s /\ x = (h - 1) * LeakInterval /\ x <= y
      <3>1. PICK j \in Nat : j = h - 1
        BY <2>2
      <3>2. LeakInterval * j <= s * j /\ LeakInterval * j = j * LeakInterval /\ s * j = j * s
        BY <1>1, <2>7, <3>1, ProductMonotone
      <3> QED
        BY <1>1, <2>7, <3>1, <3>2, ProductNat
    <2>9. y <= a
      <3>1. PICK j \in Nat : j = h - 1
        BY <2>2
      <3>2. (s * Limit) * j <= Window * j /\ (s * Limit) * j \in Int
        BY <1>1, <2>7, <3>1, ProductMonotone
      <3>3. (s * Limit) * j = (j * s) * Limit /\ Window * j = j * Window
        BY <1>1, <2>7, <3>1
      <3>4. y * Limit <= a * Limit
        BY <2>4, <2>8, <3>1, <3>2, <3>3
      <3>5. (a + 1) * Limit = a * Limit + Limit /\ y * Limit \in Int
        BY <1>1, <2>3, <2>8
      <3>6. (a + 1) * Limit > y * Limit
        BY <1>1, <2>4, <3>4, <3>5
      <3>7. a + 1 > y
        BY <1>1, <2>3, <2>8, <3>6, ProductStrict
      <3> QED
        BY <2>3, <2>8, <3>7
    <2>10. PICK f \in Int, g \in Int : /\ f = (n - u) * LeakInterval /\ g = (n - v) * LeakInterval
                                       /\ f <= r + Err + c /\ f <= t + c
      BY <1>1, <1>2, <1>3, <1>4, ProductInt DEF Covers
    <2>11. g <= f + x + LeakInterval
      <3>1. n - v <= (n - u) + ((h - 1) + 1) /\ n - v \in Int /\ (n - u) + ((h - 1) + 1) \in Int
        BY <1>2, <1>3, <2>2
      <3>2. (n - v) * LeakInterval <= ((n - u) + ((h - 1) + 1)) * LeakInterval
        BY <1>1, <3>1, ProductMonotone
      <3>3. ((n - u) + ((h - 1) + 1)) * LeakInterval
              = (n - u) * LeakInterval + ((h - 1) * LeakInterval + LeakInterval)
        BY <1>1, <1>2, <2>2
      <3> QED
        BY <1>1, <2>8, <2>10, <3>2, <3>3
    <2>12. g <= r + Err + (c + Lent) /\ g <= t + (c + Lent)
      BY <1>1, <2>3, <2>6, <2>7, <2>8, <2>9, <2>10, <2>11
    <2>13. Covers(n, v, r, t, c + Lent)
      BY <2>10, <2>12 DEF Covers
    <2> QED
      BY <1>3, <2>13
  <1> QED
    BY <1>2, <1>3, <1>5, <1>6

(* What a failed call gives back that has written the level and not the    *)
(* last leak.                                                              *)
LEMMA HalfWritten ==
  ASSUME cfg \in Configs, LeakInterval > 0, NEW n \in Int, NEW w \in 0..Limit, NEW r \in Nat \ {0},
         NEW t \in Nat, NEW c \in Int, Covers(n, Due(w, r, t), r, t, c),
         NEW l \in Leaked(t, w, r), NEW v \in Nat, v = IF l.water < Limit THEN l.water + 1 ELSE l.water
  PROVE  Covers(n, Due(v, r, t), r, t, c + Cost)
  <1>1. /\ Limit \in Nat \ {0} /\ LeakInterval \in Nat \ {0} /\ Err \in Nat /\ Cost \in Nat
        /\ GivenBack \in Nat /\ One(Inexact) \in {0, 1} /\ Limit - 1 + One(Inexact) <= 2 * GivenBack + 1
    BY Rates
  <1>2. PICK m \in Leaks(t - r) :
          \/ m > 0 /\ \E a \in Advances(m) : l = [water |-> Drained(w, m), lastLeak |-> r + a]
          \/ ~(m > 0) /\ l = [water |-> w, lastLeak |-> r]
    BY LeakedAs
  <1>3. PICK k \in Int : k = Least(t - r) /\ m \in Int /\ k <= m /\ m <= k + One(Inexact)
    <2>1. PICK e \in Int : e = t - r
      OBVIOUS
    <2>2. m \in Int /\ Least(e) <= m /\ m <= Least(e) + One(Inexact) /\ Least(e) \in Int
      BY <2>1, LeakedAmount, LeastBounds
    <2> QED
      BY <2>1, <2>2
  <1>4. PICK x \in Nat, y \in Nat : /\ x = Due(w, r, t) /\ (x = w \/ x = k) /\ w <= x /\ k <= x
                                    /\ y = Due(v, r, t) /\ v <= y /\ k <= y
    <2>1. w \in Nat /\ r \in Int /\ t \in Int
      BY <1>1
    <2>2. /\ Due(w, r, t) \in Nat /\ w <= Due(w, r, t) /\ Least(t - r) <= Due(w, r, t)
          /\ Due(w, r, t) = w \/ Due(w, r, t) = Least(t - r)
      BY <2>1, DueBounds
    <2>3. /\ Due(v, r, t) \in Nat /\ v <= Due(v, r, t) /\ Least(t - r) <= Due(v, r, t)
      BY <2>1, DueBounds
    <2> QED
      BY <1>3, <2>2, <2>3
  <1>5. x <= y + GivenBack
    <2>1. CASE m > 0
      <3>1. l.water = Drained(w, m)
        BY <1>2, <2>1
      <3>2. Drained(w, m) \in Nat /\ Drained(w, m) < Limit /\ (m <= w => Drained(w, m) = w - m)
        BY <1>1, <1>3, <2>1 DEF Drained
      <3>3. m <= w => v = w - m + 1
        BY <3>1, <3>2
      <3>4. CASE x <= y
        BY <1>1, <1>4, <3>4
      <3>5. CASE x > y
        <4>1. x = w /\ k < w
          BY <1>4, <3>5
        <4>2. m <= w
          BY <1>1, <1>3, <4>1
        <4>3. v = w - m + 1
          BY <3>3, <4>2
        <4>4. x - y <= m - 1 /\ x - y <= w - m + One(Inexact)
          BY <1>1, <1>3, <1>4, <4>1, <4>3
        <4>5. 2 * (x - y) <= Limit - 1 + One(Inexact)
          BY <1>1, <1>3, <1>4, <4>4
        <4> QED
          BY <1>1, <1>4, <4>5
      <3> QED
        BY <1>4, <3>4, <3>5
    <2>2. CASE ~(m > 0)
      <3>1. w <= v
        BY <1>1, <1>2, <2>2
      <3> QED
        BY <1>1, <1>3, <1>4, <2>2, <3>1
    <2> QED
      BY <2>1, <2>2
  <1>6. PICK f \in Int, g \in Int : /\ f = (n - x) * LeakInterval /\ g = (n - y) * LeakInterval
                                    /\ f <= r + Err + c /\ f <= t + c
    BY <1>1, <1>4, ProductInt DEF Covers
  <1>7. g <= f + Cost
    <2>1. n - y <= (n - x) + GivenBack /\ n - y \in Int /\ (n - x) + GivenBack \in Int
      BY <1>1, <1>4, <1>5
    <2>2. (n - y) * LeakInterval <= ((n - x) + GivenBack) * LeakInterval
      BY <1>1, <2>1, ProductMonotone
    <2>3. ((n - x) + GivenBack) * LeakInterval = (n - x) * LeakInterval + GivenBack * LeakInterval
      BY <1>1, <1>4
    <2> QED
      BY <1>6, <2>2, <2>3 DEF Cost
  <1>8. g <= r + Err + (c + Cost) /\ g <= t + (c + Cost)
    BY <1>1, <1>6, <1>7
  <1>9. Covers(n, y, r, t, c + Cost)
    BY <1>6, <1>8 DEF Covers
  <1> QED
    BY <1>4, <1>9

-----------------------------------------------------------------------------
(* What is paid stays paid. *)

LEMMA CreditBounds ==
  ASSUME cfg \in Configs, LeakInterval > 0, NEW g \in Grants, NEW f \in Nat, g.failures <= f, NEW x \in Nat
  PROVE  /\ Credit(g, f, x) \in Int /\ g.at \in Nat
         /\ \A y \in Nat : y = x + 1 => Credit(g, f, y) = Credit(g, f, x) + Lent
         /\ \A k \in Nat : k = f + 1 => Credit(g, k, x) = Credit(g, f, x) + Cost
         /\ \A k \in Nat : k \in {f, f + 1} => Credit(g, k, x) \in Int /\ Credit(g, f, x) <= Credit(g, k, x)
  <1>1. Unused \in Nat /\ Cost \in Nat /\ Lent \in Nat
    BY Rates
  <1>2. PICK a \in Nat, b \in Nat : a = g.at /\ b = g.failures /\ b <= f
    BY DEF Grants
  <1>3. PICK p \in Int, q \in Int : p = (f - b) * Cost /\ q = x * Lent
    BY <1>1, <1>2, ProductInt
  <1>4. Credit(g, f, x) = Unused - a + p + q
    BY <1>2, <1>3 DEF Credit
  <1>5. ASSUME NEW y \in Nat, y = x + 1 PROVE Credit(g, f, y) = Credit(g, f, x) + Lent
    <2>1. (x + 1) * Lent = x * Lent + Lent
      BY <1>1
    <2>2. Credit(g, f, y) = Unused - a + p + (q + Lent)
      BY <1>2, <1>3, <1>5, <2>1 DEF Credit
    <2> QED
      BY <1>1, <1>2, <1>3, <1>4, <2>2
  <1>6. ASSUME NEW k \in Nat, k = f + 1 PROVE Credit(g, k, x) = Credit(g, f, x) + Cost
    <2>1. ((f - b) + 1) * Cost = (f - b) * Cost + Cost /\ k - b = (f - b) + 1
      BY <1>1, <1>2, <1>6
    <2>2. Credit(g, k, x) = Unused - a + (p + Cost) + q
      BY <1>2, <1>3, <2>1 DEF Credit
    <2> QED
      BY <1>1, <1>2, <1>3, <1>4, <2>2
  <1>7. Credit(g, f, x) \in Int
    BY <1>1, <1>2, <1>3, <1>4
  <1>8. ASSUME NEW k \in Nat, k \in {f, f + 1}
        PROVE  Credit(g, k, x) \in Int /\ Credit(g, f, x) <= Credit(g, k, x)
    BY <1>1, <1>6, <1>7, <1>8
  <1> QED
    BY <1>2, <1>5, <1>6, <1>7, <1>8

(* Time passes, calls fail, and the level is written again. *)
LEMMA PaidLater ==
  ASSUME cfg \in Configs, LeakInterval > 0, NEW g \in Grants, NEW n \in Nat, NEW f \in Nat, g.failures <= f,
         NEW wc \in WaterCells, NEW lc \in LeakCells, NEW t \in Nat, NEW s \in Nat,
         Paid(g, n, f, wc, lc, t, s),
         NEW k \in {f, f + 1}, NEW xc \in WaterCells, xc.value = wc.value, wc.expiresAt <= xc.expiresAt,
         NEW u \in Nat, t <= u, NEW v \in Nat, s <= v
  PROVE  Paid(g, n, k, xc, lc, u, v)
  <1>1. LeakInterval \in Nat /\ Window \in Nat \ {0} /\ Err \in Nat /\ Limit \in Nat
    BY Rates
  <1>2. PICK x \in Nat : /\ x * Window + g.at <= s
                         /\ Gone(g, n, f, lc, t, s, x) \/ Stands(g, n, f, wc, lc, t, x)
    BY DEF Paid
  <1>3. PICK c \in Int, d \in Int : c = Credit(g, f, x) /\ d = Credit(g, k, x) /\ c <= d
    <2>1. k \in Nat
      OBVIOUS
    <2>2. Credit(g, f, x) \in Int /\ Credit(g, k, x) \in Int /\ Credit(g, f, x) <= Credit(g, k, x)
      BY <2>1, CreditBounds
    <2> QED
      BY <2>2
  <1>4. PICK a \in Nat, y \in Nat, z \in Nat : a = g.at /\ y = x * Window /\ z = n * LeakInterval
    BY <1>1, CreditBounds, ProductNat
  <1>5. PICK w \in Nat, we \in Nat, xe \in Nat, r \in Nat, le \in Nat :
          /\ w = wc.value /\ w = xc.value /\ we = wc.expiresAt /\ xe = xc.expiresAt /\ we <= xe
          /\ r = lc.value /\ le = lc.expiresAt
    BY <1>1 DEF WaterCells, LeakCells
  <1>6. z <= t + c => z <= u + d
    BY <1>3, <1>4
  <1>7. CASE Gone(g, n, f, lc, t, s, x)
    <2>1. le < v /\ z <= u + d
      BY <1>3, <1>4, <1>5, <1>6, <1>7 DEF Gone
    <2>2. Gone(g, n, k, lc, u, v, x)
      BY <1>3, <1>4, <1>5, <2>1 DEF Gone
    <2>3. y + a <= v
      BY <1>2, <1>4
    <2> QED
      BY <1>4, <2>2, <2>3 DEF Paid
  <1>8. CASE Stands(g, n, f, wc, lc, t, x)
    <2>1. /\ r > 0 /\ y + Window + a <= we /\ r + Window <= we + Err /\ r + Window <= le + Err
          /\ Covers(n, Due(w, r, t), r, t, c)
          /\ (y + Window + a <= le \/ z <= t + c)
      BY <1>3, <1>4, <1>5, <1>8 DEF Stands
    <2>2. Covers(n, Due(w, r, u), r, u, d)
      <3>1. Covers(n, Due(w, r, t), r, t, c) /\ n \in Int /\ r \in Int /\ t \in Int /\ u \in Int
        BY <2>1
      <3> QED
        BY <1>3, <3>1, CoversLater
    <2>3. y + Window + a <= xe /\ r + Window <= xe + Err /\ (y + Window + a <= le \/ z <= u + d)
      BY <1>1, <1>4, <1>5, <1>6, <2>1
    <2>4. Stands(g, n, k, xc, lc, u, x)
      BY <1>3, <1>4, <1>5, <2>1, <2>2, <2>3 DEF Stands
    <2>5. y + a <= v
      BY <1>2, <1>4
    <2> QED
      BY <1>4, <2>4, <2>5 DEF Paid
  <1> QED
    BY <1>2, <1>7, <1>8

(* The decision counts the call that it admits. *)
LEMMA CoversDecision ==
  ASSUME cfg \in Configs, NEW n \in Nat, NEW w \in Nat, NEW y \in Int, NEW t \in Int, NEW c \in Int,
         Covers(n, w, y, t, c), NEW a \in BOOLEAN, NEW v \in Nat, v = IF a THEN w + 1 ELSE w
  PROVE  Covers(IF a THEN n + 1 ELSE n, v, y, t, c)
  <1>1. PICK m \in Nat : m = IF a THEN n + 1 ELSE n
    OBVIOUS
  <1>2. m - v = n - w
    BY <1>1
  <1>3. Covers(m, v, y, t, c)
    BY <1>2 DEF Covers
  <1> QED
    BY <1>1, <1>3

(* What a call finds when the key of the last leak has expired. *)
LEMMA FoundGone ==
  ASSUME cfg \in Configs, LeakInterval > 0, NEW g \in Grants, NEW n \in Nat, NEW f \in Nat, g.failures <= f,
         NEW wc \in WaterCells, NEW lc \in LeakCells, NEW t \in Nat, NEW s \in Nat,
         s <= t + MaxStall, lc.expiresAt < s, Paid(g, n, f, wc, lc, t, s)
  PROVE  \E x \in Nat : x * Window + g.at <= s /\ n * LeakInterval <= t + Credit(g, f, x)
  <1>1. /\ LeakInterval \in Nat /\ Window \in Nat \ {0} /\ Err \in Nat /\ Limit \in Nat \ {0}
        /\ MaxStall \in Nat /\ Lent \in Nat
    BY Rates
  <1>2. PICK x \in Nat : /\ x * Window + g.at <= s
                         /\ Gone(g, n, f, lc, t, s, x) \/ Stands(g, n, f, wc, lc, t, x)
    BY DEF Paid
  <1>3. CASE Gone(g, n, f, lc, t, s, x) \/ n * LeakInterval <= t + Credit(g, f, x)
    BY <1>2, <1>3 DEF Gone
  <1>4. CASE ~(Gone(g, n, f, lc, t, s, x) \/ n * LeakInterval <= t + Credit(g, f, x))
    <2>1. Stands(g, n, f, wc, lc, t, x)
      BY <1>2, <1>4
    <2>2. PICK w \in 0..Limit, r \in Nat, le \in Nat, c \in Int, a \in Nat :
            /\ w = wc.value /\ r = lc.value /\ le = lc.expiresAt /\ c = Credit(g, f, x) /\ a = g.at
      BY CreditBounds DEF WaterCells, LeakCells
    <2>3. PICK y \in Nat, j \in Nat : y = x * Window /\ j = x + 1 /\ j * Window = y + Window
      <3>1. (x + 1) * Window = x * Window + Window /\ x * Window \in Nat
        BY <1>1, ProductNat
      <3> QED
        BY <3>1
    <2>4. /\ y + Window + a <= le /\ r + Window <= le + Err /\ Covers(n, Due(w, r, t), r, t, c)
      BY <1>4, <2>1, <2>2, <2>3 DEF Stands
    <2>5. Aged(r, t)
      BY <1>1, <2>2, <2>4 DEF Aged
    <2>6. n * LeakInterval <= t + c + Lent
      <3>1. n \in Int
        OBVIOUS
      <3> QED
        BY <2>2, <2>4, <2>5, <3>1, LeakGone
    <2>7. Credit(g, f, j) = c + Lent
      BY <2>2, <2>3, CreditBounds
    <2>8. j * Window + a <= s
      BY <1>1, <2>2, <2>3, <2>4
    <2>9. n * LeakInterval <= t + Credit(g, f, j)
      <3>1. t + c + Lent = t + (c + Lent)
        BY <1>1, <2>2
      <3> QED
        BY <2>6, <2>7, <3>1
    <2> QED
      BY <2>2, <2>8, <2>9
  <1> QED
    BY <1>3, <1>4

(* And when it has not, whether the key of the level has or not. *)
LEMMA FoundLive ==
  ASSUME cfg \in Configs, LeakInterval > 0, NEW g \in Grants, NEW n \in Nat, NEW f \in Nat, g.failures <= f,
         NEW wc \in WaterCells, NEW lc \in LeakCells, NEW t \in Nat, NEW s \in Nat,
         s <= t + MaxStall, ~(lc.expiresAt < s), Paid(g, n, f, wc, lc, t, s),
         NEW w \in 0..Limit, w = wc.value \/ (w = 0 /\ wc.expiresAt < s),
         NEW r, r = lc.value
  PROVE  \E x \in Nat :
            /\ x * Window + g.at <= s /\ r \in Nat \ {0} /\ r + Window <= lc.expiresAt + Err
            /\ Covers(n, Due(w, r, t), r, t, Credit(g, f, x))
            /\ x * Window + Window + g.at <= lc.expiresAt \/ n * LeakInterval <= t + Credit(g, f, x)
  <1>1. /\ LeakInterval \in Nat /\ Window \in Nat \ {0} /\ Err \in Nat /\ Limit \in Nat \ {0}
        /\ MaxStall \in Nat /\ Lent \in Nat
    BY Rates
  <1>2. PICK x \in Nat : x * Window + g.at <= s /\ Stands(g, n, f, wc, lc, t, x)
    BY DEF Paid, Gone
  <1>3. r \in Nat \ {0} /\ r + Window <= lc.expiresAt + Err
    <2>1. r \in Nat
      BY DEF LeakCells
    <2> QED
      BY <1>2, <2>1 DEF Stands
  <1>4. CASE w = wc.value
    <2>1. /\ Covers(n, Due(w, r, t), r, t, Credit(g, f, x))
          /\ x * Window + Window + g.at <= lc.expiresAt \/ n * LeakInterval <= t + Credit(g, f, x)
      BY <1>2, <1>4 DEF Stands
    <2> QED
      BY <1>2, <1>3, <2>1
  <1>5. CASE w = 0 /\ wc.expiresAt < s
    <2>1. PICK v \in 0..Limit, we \in Nat, c \in Int, a \in Nat :
            /\ v = wc.value /\ we = wc.expiresAt /\ c = Credit(g, f, x) /\ a = g.at
      BY CreditBounds DEF WaterCells
    <2>2. PICK y \in Nat, j \in Nat : y = x * Window /\ j = x + 1 /\ j * Window = y + Window
      <3>1. (x + 1) * Window = x * Window + Window /\ x * Window \in Nat
        BY <1>1, ProductNat
      <3> QED
        BY <3>1
    <2>3. y + Window + a <= we /\ r + Window <= we + Err /\ Covers(n, Due(v, r, t), r, t, c)
      BY <1>2, <2>1, <2>2 DEF Stands
    <2>4. Aged(r, t)
      BY <1>1, <1>3, <1>5, <2>1, <2>3 DEF Aged
    <2>5. n \in Int /\ r \in Nat
      BY <1>3
    <2>6. n * LeakInterval <= t + c + Lent
      BY <2>1, <2>3, <2>4, <2>5, LeakGone
    <2>7. Covers(n, Due(0, r, t), r, t, c + Lent)
      BY <2>1, <2>3, <2>4, <2>5, WaterGone
    <2>8. Credit(g, f, j) = c + Lent
      BY <2>1, <2>2, CreditBounds
    <2>9. j * Window + a <= s
      BY <1>1, <1>5, <2>1, <2>2, <2>3
    <2>10. n * LeakInterval <= t + Credit(g, f, j)
      <3>1. t + c + Lent = t + (c + Lent)
        BY <1>1, <2>1
      <3> QED
        BY <2>6, <2>8, <3>1
    <2>11. Covers(n, Due(w, r, t), r, t, Credit(g, f, j))
      BY <1>5, <2>7, <2>8
    <2> QED
      BY <1>3, <2>1, <2>9, <2>10, <2>11
  <1> QED
    BY <1>4, <1>5

(* A decision is paid for, and so is half of its writing when it fails. *)
LEMMA DecisionPays ==
  ASSUME cfg \in Configs, LeakInterval > 0, NEW g \in Grants, NEW n \in Nat, NEW f \in Nat, g.failures <= f,
         NEW wc \in WaterCells, NEW lc \in LeakCells, lc.value % Grain = 0,
         NEW t \in Nat, lc.value <= t + Err, NEW s \in Nat, t <= s, s <= t + MaxStall,
         Paid(g, n, f, wc, lc, t, s),
         NEW w \in 0..Limit, w = wc.value \/ (w = 0 /\ wc.expiresAt < s),
         NEW l \in Leaked(t, w, Read(lc, s)),
         NEW m \in Local, m.now = t, m.lastLeak = l.lastLeak, m.allowed <=> l.water < Limit,
         m.water = IF l.water < Limit THEN l.water + 1 ELSE l.water,
         NEW k \in Nat, k = f + 1
  PROVE  Writes(g, n, f, m, s) /\ Paid(g, n, k, Written(m.water, s, Window), lc, t, s)
  <1>1. /\ LeakInterval \in Nat /\ Window \in Nat \ {0} /\ Err \in Nat /\ Limit \in Nat \ {0}
        /\ MaxStall \in Nat /\ Lent \in Nat /\ Cost \in Nat /\ Grain \in Nat \ {0}
    BY Rates
  <1>2. PICK v \in 0..Limit, b \in BOOLEAN, q \in Nat : v = m.water /\ b = m.allowed /\ q = m.lastLeak
    BY DEF Local
  <1>3. PICK r \in Nat, le \in Nat, a \in Nat : r = lc.value /\ le = lc.expiresAt /\ a = g.at
    BY CreditBounds DEF LeakCells
  <1>4. PICK u \in Nat : u = l.water
    <2>1. PICK z \in Nat : z = Read(lc, s)
      BY <1>3 DEF Read
    <2>2. l.water \in 0..w
      BY <2>1, LeakDecision
    <2> QED
      BY <1>1, <2>2
  <1>5. v = (IF b THEN u + 1 ELSE u) /\ v \in Nat
    BY <1>1, <1>2, <1>4
  <1>6. PICK y \in Nat : y = Float64(q, Grain) /\ q <= y + Err
    <2>1. Float64(q, Grain) \in Nat /\ q <= Float64(q, Grain) + Grain \div 2
      BY <1>1, StoredNear
    <2> QED
      BY <2>1 DEF Err
  <1>11. PICK xc : xc = Written(v, s, Window)
    OBVIOUS
  <1>7. xc = Written(v, s, Window) /\ xc.value = v /\ xc.expiresAt = s + Window
    BY <1>11 DEF Written
  <1>8. ASSUME NEW x \in Nat, x * Window + a <= s, NEW c \in Int, c = Credit(g, f, x), Covers(n, u, y, t, c)
        PROVE  Writes(g, n, f, m, s)
    <2>1. Covers(IF b THEN n + 1 ELSE n, v, y, t, c)
      <3>1. y \in Int /\ t \in Int
        OBVIOUS
      <3> QED
        BY <1>5, <1>8, <3>1, CoversDecision
    <2>2. x * Window + a <= t + MaxStall
      <3>1. x * Window \in Nat
        BY <1>1, ProductNat
      <3> QED
        BY <1>1, <1>3, <1>8, <3>1
    <2> QED
      BY <1>2, <1>3, <1>6, <1>8, <2>1, <2>2 DEF Writes
  <1>9. CASE le < s
    <2>1. PICK x \in Nat : x * Window + a <= s /\ n * LeakInterval <= t + Credit(g, f, x)
      BY <1>3, <1>9, FoundGone
    <2>2. PICK c \in Int, d \in Int, z \in Nat :
            /\ c = Credit(g, f, x) /\ d = Credit(g, k, x) /\ c <= d /\ z = n * LeakInterval /\ z <= t + c
      <3>1. Credit(g, f, x) \in Int /\ Credit(g, k, x) \in Int /\ Credit(g, f, x) <= Credit(g, k, x)
        BY CreditBounds
      <3> QED
        BY <1>1, <2>1, <3>1, ProductNat
    <2>3. u = 0 /\ q = t
      <3>1. Read(lc, s) = 0
        BY <1>3, <1>9 DEF Read, Live
      <3>2. l \in Leaked(t, w, 0)
        BY <3>1
      <3>3. l.water = 0 /\ l.lastLeak = t
        BY <3>2 DEF Leaked
      <3> QED
        BY <1>2, <1>4, <3>3
    <2>4. Covers(n, u, y, t, c)
      <3>1. n - u = n
        BY <2>3
      <3> QED
        BY <1>1, <1>6, <2>2, <2>3, <3>1 DEF Covers
    <2>5. Writes(g, n, f, m, s)
      BY <1>8, <2>1, <2>2, <2>4
    <2>6. Gone(g, n, k, lc, t, s, x)
      BY <1>3, <1>9, <2>2 DEF Gone
    <2> QED
      BY <1>2, <1>3, <2>1, <2>5, <2>6 DEF Paid
  <1>10. CASE ~(le < s)
    <2>1. PICK x \in Nat :
            /\ x * Window + a <= s /\ r \in Nat \ {0} /\ r + Window <= le + Err
            /\ Covers(n, Due(w, r, t), r, t, Credit(g, f, x))
            /\ x * Window + Window + a <= le \/ n * LeakInterval <= t + Credit(g, f, x)
      <3>1. \E x \in Nat :
              /\ x * Window + g.at <= s /\ r \in Nat \ {0} /\ r + Window <= lc.expiresAt + Err
              /\ Covers(n, Due(w, r, t), r, t, Credit(g, f, x))
              /\ x * Window + Window + g.at <= lc.expiresAt \/ n * LeakInterval <= t + Credit(g, f, x)
        BY <1>3, <1>10, FoundLive
      <3> QED
        BY <1>3, <3>1
    <2>2. PICK c \in Int, d \in Int :
            c = Credit(g, f, x) /\ d = Credit(g, k, x) /\ c <= d /\ d = c + Cost
      <3>1. /\ Credit(g, f, x) \in Int /\ Credit(g, k, x) \in Int /\ Credit(g, f, x) <= Credit(g, k, x)
            /\ Credit(g, k, x) = Credit(g, f, x) + Cost
        BY CreditBounds
      <3> QED
        BY <3>1
    <2>3. Read(lc, s) = r
      BY <1>3, <1>10 DEF Read, Live
    <2>4. l \in Leaked(t, w, r) /\ Covers(n, Due(w, r, t), r, t, c) /\ n \in Int /\ r % Grain = 0
      BY <1>3, <2>1, <2>2, <2>3
    <2>5. Covers(n, u, y, t, c)
      <3>1. Covers(n, l.water, Float64(l.lastLeak, Grain), t, c)
        BY <2>1, <2>4, LeakKeeps
      <3> QED
        BY <1>2, <1>4, <1>6, <3>1
    <2>6. Writes(g, n, f, m, s)
      BY <1>8, <2>1, <2>2, <2>5
    <2>7. Covers(n, Due(v, r, t), r, t, d)
      <3>1. v = IF l.water < Limit THEN l.water + 1 ELSE l.water
        BY <1>2
      <3>2. Covers(n, Due(v, r, t), r, t, c + Cost)
        BY <1>5, <2>1, <2>4, <3>1, HalfWritten
      <3> QED
        BY <2>2, <3>2
    <2>8. /\ x * Window + Window + a <= xc.expiresAt /\ r + Window <= xc.expiresAt + Err
          /\ x * Window + Window + a <= le \/ n * LeakInterval <= t + d
      <3>1. PICK z \in Nat, i \in Nat : z = x * Window /\ i = n * LeakInterval
        BY <1>1, ProductNat
      <3>2. z + a <= s /\ r <= t + Err /\ xc.expiresAt = s + Window /\ (z + Window + a <= le \/ i <= t + c)
        BY <1>3, <1>7, <2>1, <2>2, <3>1
      <3>3. z + Window + a <= s + Window /\ r + Window <= (s + Window) + Err /\ (i <= t + c => i <= t + d)
        BY <1>1, <2>2, <3>1, <3>2
      <3> QED
        BY <3>1, <3>2, <3>3
    <2>9. Stands(g, n, k, xc, lc, t, x)
      BY <1>3, <1>7, <2>1, <2>2, <2>7, <2>8 DEF Stands
    <2> QED
      BY <1>2, <1>3, <1>7, <2>1, <2>6, <2>9 DEF Paid
  <1> QED
    BY <1>9, <1>10

LEMMA CoversFewer ==
  ASSUME cfg \in Configs, LeakInterval > 0, NEW n \in Int, NEW w \in Int, NEW r \in Int, NEW t \in Int,
         NEW c \in Int, Covers(n, w, r, t, c), NEW m \in Int, m <= n
  PROVE  Covers(m, w, r, t, c)
  <1>1. LeakInterval \in Nat /\ Err \in Nat
    BY Rates
  <1>2. (m - w) * LeakInterval <= (n - w) * LeakInterval
    <2>1. m - w \in Int /\ n - w \in Int /\ m - w <= n - w
      OBVIOUS
    <2> QED
      BY <1>1, <2>1, ProductMonotone
  <1>3. (m - w) * LeakInterval \in Int /\ (n - w) * LeakInterval \in Int
    BY <1>1, ProductInt
  <1> QED
    BY <1>1, <1>2, <1>3 DEF Covers

(* Both keys are written. *)
LEMMA WrittenPays ==
  ASSUME cfg \in Configs, LeakInterval > 0, NEW g \in Grants, NEW n \in Nat, NEW f \in Nat, g.failures <= f,
         NEW l \in Local, Ready(l), NEW s \in Nat,
         NEW wc \in WaterCells, wc.value = l.water,
         l.now + Window <= wc.expiresAt, wc.expiresAt <= s + Window,
         Writes(g, n, f, l, wc.expiresAt - Window),
         NEW lc, lc = Written(Float64(l.lastLeak, Grain), s, Window),
         NEW m \in Nat, m <= IF l.allowed THEN n + 1 ELSE n, NEW k \in {f, f + 1}
  PROVE  Paid(g, m, k, wc, lc, l.now, s)
  <1>1. /\ LeakInterval \in Nat /\ Window \in Nat \ {0} /\ Err \in Nat /\ Limit \in Nat \ {0}
        /\ Grain \in Nat \ {0} /\ MaxStall \in Nat
    BY Rates
  <1>2. PICK v \in Nat, we \in Nat, t \in Nat, q \in Nat, b \in BOOLEAN, a \in Nat :
          /\ v = wc.value /\ v = l.water /\ we = wc.expiresAt /\ t = l.now /\ q = l.lastLeak /\ b = l.allowed
          /\ a = g.at
    <2>1. wc.value \in Nat /\ wc.expiresAt \in Nat
      BY <1>1 DEF WaterCells
    <2>2. l.now \in Nat /\ l.lastLeak \in Nat /\ l.allowed \in BOOLEAN
      BY DEF Local
    <2>3. g.at \in Nat
      BY DEF Grants
    <2> QED
      BY <2>1, <2>2, <2>3
  <1>3. PICK y \in Nat : y = Float64(q, Grain) /\ y > 0 /\ y <= t + Err
    <2>1. Float64(q, Grain) \in Nat /\ (q >= Grain => Float64(q, Grain) >= Grain)
      BY <1>1, StoredNear
    <2> QED
      BY <1>1, <1>2, <2>1 DEF Ready
  <1>4. lc.value = y /\ lc.expiresAt = s + Window
    BY <1>2, <1>3 DEF Written
  <1>5. PICK x \in Nat : /\ x * Window + a <= we - Window
                         /\ Covers(IF b THEN n + 1 ELSE n, v, y, t, Credit(g, f, x))
    BY <1>2, <1>3 DEF Writes
  <1>6. PICK c \in Int, d \in Int : c = Credit(g, f, x) /\ d = Credit(g, k, x) /\ c <= d
    <2>1. k \in Nat
      OBVIOUS
    <2>2. Credit(g, f, x) \in Int /\ Credit(g, k, x) \in Int /\ Credit(g, f, x) <= Credit(g, k, x)
      BY <2>1, CreditBounds
    <2> QED
      BY <2>2
  <1>7. Covers(m, Due(v, y, t), y, t, d)
    <2>1. PICK j \in Int : j = (IF b THEN n + 1 ELSE n) /\ m <= j
      BY <1>2
    <2>2. v \in Int /\ y \in Int /\ t \in Int /\ m \in Int /\ Covers(j, v, y, t, c)
      BY <1>5, <1>6, <2>1
    <2>3. Covers(m, v, y, t, c)
      BY <2>1, <2>2, CoversFewer
    <2>4. PICK u \in Int : u = Due(v, y, t) /\ v <= u
      <3>1. Due(v, y, t) \in Nat /\ v <= Due(v, y, t)
        BY <2>2, DueBounds
      <3> QED
        BY <3>1
    <2>5. t <= t
      OBVIOUS
    <2>6. Covers(m, u, y, t, d)
      BY <1>6, <2>2, <2>3, <2>4, <2>5, CoversMore
    <2> QED
      BY <2>4, <2>6
  <1>8. PICK z \in Nat : z = x * Window
    BY <1>1, ProductNat
  <1>9. /\ z + Window + a <= we /\ y + Window <= we + Err /\ y + Window <= (s + Window) + Err
        /\ z + Window + a <= s + Window /\ z + a <= s
    BY <1>1, <1>2, <1>3, <1>5, <1>8
  <1>10. Stands(g, m, k, wc, lc, t, x)
    BY <1>2, <1>3, <1>4, <1>6, <1>7, <1>8, <1>9 DEF Stands
  <1> QED
    BY <1>2, <1>8, <1>9, <1>10 DEF Paid

(* A call that is admitted pays for itself. *)
LEMMA NewPays ==
  ASSUME cfg \in Configs, LeakInterval > 0, NEW f \in Nat, NEW l \in Local, Ready(l), l.allowed, l.water > 0,
         NEW s \in Nat, l.now <= s, NEW g, g = [at |-> l.now, failures |-> f]
  PROVE  g \in Grants /\ Writes(g, 0, f, l, s)
  <1>1. /\ LeakInterval \in Nat /\ Window \in Nat \ {0} /\ Err \in Nat /\ Limit \in Nat \ {0}
        /\ Grain \in Nat \ {0} /\ MaxStall \in Nat /\ Cost \in Nat /\ Lent \in Nat /\ Unused \in Nat
    BY Rates
  <1>2. PICK v \in Nat, t \in Nat, q \in Nat : v = l.water /\ t = l.now /\ q = l.lastLeak /\ l.allowed = TRUE
    BY <1>1 DEF Local
  <1>3. PICK y \in Nat : y = Float64(q, Grain) /\ q <= y + Err
    <2>1. Float64(q, Grain) \in Nat /\ q <= Float64(q, Grain) + Grain \div 2
      BY <1>1, StoredNear
    <2> QED
      BY <2>1 DEF Err
  <1>4. g \in Grants /\ g.at = t /\ g.failures = f
    BY <1>2 DEF Grants
  <1>5. PICK o \in Nat : o = 0
    OBVIOUS
  <1>6. o * Window = 0 /\ o * Lent = 0 /\ (f - f) * Cost = 0
    BY <1>1, <1>5
  <1>7. Credit(g, f, o) = Unused - t
    BY <1>1, <1>2, <1>4, <1>6 DEF Credit
  <1>8. PICK p \in Int : p = (1 - v) * LeakInterval /\ p <= 0
    <2>1. (1 - v) * LeakInterval <= 0 * LeakInterval /\ 0 * LeakInterval = 0 /\ (1 - v) * LeakInterval \in Int
      <3>1. 1 - v <= 0 /\ 1 - v \in Int
        BY <1>2
      <3> QED
        BY <1>1, <3>1, ProductMonotone
    <2> QED
      BY <2>1
  <1>9. Covers(1, v, y, t, Unused - t)
    <2>1. p <= y + Err + (Unused - t) /\ p <= t + (Unused - t)
      BY <1>1, <1>2, <1>3, <1>8 DEF Ready
    <2> QED
      BY <1>8, <2>1 DEF Covers
  <1>10. Covers(IF l.allowed THEN 0 + 1 ELSE 0, v, y, t, Credit(g, f, o))
    BY <1>2, <1>7, <1>9
  <1>11. o * Window + g.at <= s /\ o * Window + g.at <= t + MaxStall
    BY <1>1, <1>2, <1>4, <1>6
  <1> QED
    BY <1>2, <1>3, <1>4, <1>10, <1>11 DEF Writes

(* What is paid for keeps the rate. *)
LEMMA WritesWithin ==
  ASSUME cfg \in Configs, LeakInterval > 0, NEW g \in Grants, NEW n \in Nat, NEW f \in Nat, g.failures <= f,
         NEW l \in Local, l.allowed, NEW s, Writes(g, n, f, l, s),
         NEW b, b = [at |-> l.now, failures |-> f]
  PROVE  Within(n + 1, g, b)
  <1>1. /\ LeakInterval \in Nat /\ Window \in Nat \ {0} /\ Err \in Nat /\ Limit \in Nat \ {0}
        /\ MaxStall \in Nat /\ Cost \in Nat /\ Lent \in Nat /\ Unused \in Nat /\ GivenBack \in Nat
    BY Rates
  <1>2. PICK v \in 0..Limit, t \in Nat, a \in Nat, e \in Nat :
          v = l.water /\ t = l.now /\ a = g.at /\ e = g.failures /\ e <= f
    <2>1. l.water \in 0..Limit /\ l.now \in Nat
      BY DEF Local
    <2>2. g.at \in Nat /\ g.failures \in Nat /\ g.failures <= f
      BY DEF Grants
    <2> QED
      BY <2>1, <2>2
  <1>3. PICK x \in Nat : /\ x * Window + a <= t + MaxStall
                         /\ Covers(n + 1, v, Float64(l.lastLeak, Grain), t, Credit(g, f, x))
    BY <1>2 DEF Writes
  <1>4. PICK j \in Nat, k \in Nat : j = n + 1 /\ k = f - e
    <2>1. n + 1 \in Nat /\ f - e \in Nat
      <3>1. e \in Nat /\ e <= f
        BY <1>2
      <3> QED
        BY <3>1
    <2> QED
      BY <2>1
  <1>5. PICK p \in Int, i \in Int, z \in Int :
          /\ p = (j - v) * LeakInterval /\ i = k * Cost /\ z = x * Lent
          /\ p <= t + (Unused - a + i + z)
    <2>1. (j - v) * LeakInterval <= t + Credit(g, f, x)
      BY <1>3, <1>4 DEF Covers
    <2>2. Credit(g, f, x) = Unused - a + k * Cost + x * Lent
      BY <1>2, <1>4 DEF Credit
    <2> QED
      BY <1>1, <1>2, <1>4, <2>1, <2>2, ProductInt
  <1>6. PICK d \in Int : d = (t - a) + MaxStall
    BY <1>1
  <1>7. PICK w \in Int : w = d \div Window /\ x <= w
    <2>1. PICK c \in Nat : c = x * Window /\ c <= d
      BY <1>1, <1>2, <1>3, <1>6, ProductNat
    <2>2. x <= d \div Window
      BY <1>1, <2>1, QuotientLeast
    <2>3. d \div Window \in Int
      BY <1>1, DivInt
    <2> QED
      BY <2>2, <2>3
  <1>8. PICK y \in Int : y = w * Lent /\ z <= y
    <2>1. x * Lent <= w * Lent /\ w * Lent \in Int
      BY <1>1, <1>7, ProductMonotone
    <2> QED
      BY <1>5, <2>1
  <1>9. PICK h \in Int : h = (j - Limit - k * GivenBack) * LeakInterval /\ h <= p - i
    <2>1. PICK m \in Nat : m = k * GivenBack
      BY <1>1, ProductNat
    <2>2. (j - Limit - m) * LeakInterval = (j - Limit) * LeakInterval - m * LeakInterval
      BY <1>1, <2>1
    <2>3. m * LeakInterval = k * Cost
      <3>1. (k * GivenBack) * LeakInterval = k * (GivenBack * LeakInterval)
        BY <1>1
      <3> QED
        BY <2>1, <3>1 DEF Cost
    <2>4. (j - Limit) * LeakInterval <= p /\ (j - Limit) * LeakInterval \in Int
      <3>1. j - Limit <= j - v /\ j - Limit \in Int /\ j - v \in Int
        BY <1>1
      <3> QED
        BY <1>1, <1>5, <3>1, ProductMonotone
    <2> QED
      BY <1>5, <2>1, <2>2, <2>3, <2>4
  <1>10. h <= (t - a) + Unused + y
    BY <1>1, <1>5, <1>8, <1>9
  <1>11. b.at = t /\ b.failures = f
    BY <1>2
  <1> QED
    BY <1>2, <1>4, <1>6, <1>7, <1>8, <1>9, <1>10, <1>11 DEF Within

-----------------------------------------------------------------------------
(* What depends on the configuration only, which never changes. *)
LEMMA SameRates ==
  ASSUME UNCHANGED cfg
  PROVE  /\ MaxStall' = MaxStall /\ Inexact' = Inexact /\ LeakInterval' = LeakInterval /\ Unused' = Unused
         /\ Cost' = Cost /\ Lent' = Lent /\ GivenBack' = GivenBack
  <1>1. MaxStall' = MaxStall /\ Inexact' = Inexact
    BY DEF MaxStall, Inexact
  <1>2. LeakInterval' = LeakInterval /\ Unused' = Unused /\ Lent' = Lent /\ GivenBack' = GivenBack
    BY <1>1, SameConfiguration DEF LeakInterval, Unused, Lent, GivenBack
  <1>3. Cost' = Cost
    BY <1>2 DEF Cost
  <1> QED
    BY <1>1, <1>2, <1>3

LEMMA SamePaid ==
  ASSUME UNCHANGED cfg
  PROVE  /\ \A g, n, f, wc, lc, t, s : Paid(g, n, f, wc, lc, t, s) => Paid(g, n, f, wc, lc, t, s)'
         /\ \A g, n, f, l, s : Writes(g, n, f, l, s) => Writes(g, n, f, l, s)'
  <1>1. \A e : Least(e)' = Least(e)
    BY SameConfiguration, SameRates DEF Least
  <1>2. \A w, r, t : Due(w, r, t)' = Due(w, r, t)
    BY <1>1 DEF Due
  <1>3. \A n, w, r, t, c : Covers(n, w, r, t, c) => Covers(n, w, r, t, c)'
    BY SameConfiguration, SameRates DEF Covers
  <1>4. \A g, f, x : Credit(g, f, x)' = Credit(g, f, x)
    BY SameRates DEF Credit
  <1>5. \A g, n, f, lc, t, s, x : Gone(g, n, f, lc, t, s, x) => Gone(g, n, f, lc, t, s, x)'
    BY <1>4, SameRates DEF Gone
  <1>6. \A g, n, f, wc, lc, t, x : Stands(g, n, f, wc, lc, t, x) => Stands(g, n, f, wc, lc, t, x)'
    BY <1>2, <1>3, <1>4, SameConfiguration, SameRates DEF Stands
  <1>7. \A g, n, f, wc, lc, t, s : Paid(g, n, f, wc, lc, t, s) => Paid(g, n, f, wc, lc, t, s)'
    BY <1>5, <1>6, SameConfiguration DEF Paid
  <1>8. \A g, n, f, l, s : Writes(g, n, f, l, s) => Writes(g, n, f, l, s)'
    BY <1>3, <1>4, SameConfiguration, SameRates DEF Writes
  <1> QED
    BY <1>7, <1>8

LEMMA SamePays ==
  ASSUME UNCHANGED cfg, NEW h, NEW f, NEW wc, NEW lc, NEW s
  PROVE  /\ \A p, l : CallPays(p, l, h, f, wc, lc, s) => CallPays(p, l, h, f, wc, lc, s)'
         /\ StorePays(h, f, wc, lc, s) => StorePays(h, f, wc, lc, s)'
         /\ Rate(h) => Rate(h)'
  <1>1. \A k, xc, t : Owing(h, k, xc, lc, t, s) => Owing(h, k, xc, lc, t, s)'
    BY SamePaid DEF Owing
  <1>2. \A l, v : Writing(h, f, l, v) => Writing(h, f, l, v)'
    BY SamePaid DEF Writing
  <1>3. \A l : Ready(l) => Ready(l)'
    BY SameConfiguration, SameRates DEF Ready
  <1>4. \A p, l : CallPays(p, l, h, f, wc, lc, s) => CallPays(p, l, h, f, wc, lc, s)'
    BY <1>1, <1>2, <1>3, SameConfiguration, SameRates DEF CallPays
  <1>5. StorePays(h, f, wc, lc, s) => StorePays(h, f, wc, lc, s)'
    BY <1>1, SameConfiguration DEF StorePays
  <1>6. \A n, a, b : Within(n, a, b) => Within(n, a, b)'
    BY SameConfiguration, SameRates DEF Within
  <1>7. Rate(h) => Rate(h)'
    BY <1>6 DEF Rate
  <1> QED
    BY <1>4, <1>5, <1>7

-----------------------------------------------------------------------------
(* A whole history of grants. *)

LEMMA Since ==
  ASSUME NEW h \in Seq(Grants), NEW i \in 1..Len(h)
  PROVE  h[i] \in Grants /\ Len(h) - i + 1 \in Nat
  OBVIOUS

LEMMA OwingLater ==
  ASSUME cfg \in Configs, LeakInterval > 0, NEW h \in Seq(Grants), NEW f \in Nat,
         NEW wc \in WaterCells, NEW lc \in LeakCells, NEW t \in Nat, NEW s \in Nat,
         Owing(h, f, wc, lc, t, s),
         NEW k \in {f, f + 1}, NEW xc \in WaterCells, xc.value = wc.value, wc.expiresAt <= xc.expiresAt,
         NEW u \in Nat, t <= u, NEW v \in Nat, s <= v
  PROVE  Owing(h, k, xc, lc, u, v)
  <1> SUFFICES ASSUME NEW i \in 1..Len(h)
               PROVE  h[i].failures <= k /\ Paid(h[i], Len(h) - i + 1, k, xc, lc, u, v)
    BY DEF Owing
  <1>1. h[i] \in Grants /\ Len(h) - i + 1 \in Nat
    BY Since
  <1>2. PICK g \in Grants, n \in Nat : g = h[i] /\ n = Len(h) - i + 1
    BY <1>1
  <1>3. g.failures <= f /\ Paid(g, n, f, wc, lc, t, s)
    BY <1>2 DEF Owing
  <1>4. Paid(g, n, k, xc, lc, u, v)
    BY <1>3, PaidLater
  <1>5. g.failures <= k
    <2>1. g.failures \in Nat
      BY DEF Grants
    <2> QED
      BY <1>3, <2>1
  <1> QED
    BY <1>2, <1>4, <1>5

LEMMA WritingLater ==
  ASSUME cfg \in Configs, LeakInterval > 0, NEW h \in Seq(Grants), NEW f, NEW l, NEW s \in Nat, Writing(h, f, l, s),
         NEW v \in Nat, s <= v
  PROVE  Writing(h, f, l, v)
  <1> SUFFICES ASSUME NEW i \in 1..Len(h)
               PROVE  h[i].failures <= f /\ Writes(h[i], Len(h) - i + 1, f, l, v)
    BY DEF Writing
  <1>1. h[i] \in Grants /\ Len(h) - i + 1 \in Nat
    BY Since
  <1>2. PICK g \in Grants, n \in Nat : g = h[i] /\ n = Len(h) - i + 1
    BY <1>1
  <1>3. g.failures <= f /\ Writes(g, n, f, l, s)
    BY <1>2 DEF Writing
  <1>4. PICK x \in Nat :
          /\ x * Window + g.at <= s /\ x * Window + g.at <= l.now + MaxStall
          /\ Covers(IF l.allowed THEN n + 1 ELSE n, l.water, Float64(l.lastLeak, Grain), l.now, Credit(g, f, x))
    BY <1>3 DEF Writes
  <1>5. x * Window + g.at <= v
    <2>1. x * Window \in Nat /\ g.at \in Nat
      BY Rates, ProductNat DEF Grants
    <2> QED
      BY <1>4, <2>1
  <1>6. Writes(g, n, f, l, v)
    BY <1>4, <1>5 DEF Writes
  <1> QED
    BY <1>2, <1>3, <1>6

(* The decision of a call. *)
LEMMA OwingDecision ==
  ASSUME cfg \in Configs, LeakInterval > 0, NEW h \in Seq(Grants), NEW f \in Nat,
         NEW wc \in WaterCells, NEW lc \in LeakCells, lc.value % Grain = 0,
         NEW t \in Nat, lc.value <= t + Err, NEW s \in Nat, t <= s, s <= t + MaxStall,
         Owing(h, f, wc, lc, t, s),
         NEW w \in 0..Limit, w = wc.value \/ (w = 0 /\ wc.expiresAt < s),
         NEW l \in Leaked(t, w, Read(lc, s)),
         NEW m \in Local, m.now = t, m.lastLeak = l.lastLeak, m.allowed <=> l.water < Limit,
         m.water = IF l.water < Limit THEN l.water + 1 ELSE l.water,
         NEW k \in Nat, k = f + 1
  PROVE  Writing(h, f, m, s) /\ Owing(h, k, Written(m.water, s, Window), lc, t, s)
  <1>1. ASSUME NEW i \in 1..Len(h)
        PROVE  /\ h[i].failures <= f /\ h[i].failures <= k
               /\ Writes(h[i], Len(h) - i + 1, f, m, s)
               /\ Paid(h[i], Len(h) - i + 1, k, Written(m.water, s, Window), lc, t, s)
    <2>1. h[i] \in Grants /\ Len(h) - i + 1 \in Nat
      BY Since
    <2>2. PICK g \in Grants, n \in Nat : g = h[i] /\ n = Len(h) - i + 1
      BY <2>1
    <2>3. g.failures <= f /\ Paid(g, n, f, wc, lc, t, s)
      BY <2>2 DEF Owing
    <2>4. Writes(g, n, f, m, s) /\ Paid(g, n, k, Written(m.water, s, Window), lc, t, s)
      BY <2>3, DecisionPays
    <2>5. g.failures <= k
      <3>1. g.failures \in Nat
        BY DEF Grants
      <3> QED
        BY <2>3, <3>1
    <2> QED
      BY <2>2, <2>3, <2>4, <2>5
  <1> QED
    BY <1>1 DEF Writing, Owing

(* Both keys are written, and the call is not admitted or fails. *)
LEMMA OwingWritten ==
  ASSUME cfg \in Configs, LeakInterval > 0, NEW h \in Seq(Grants), NEW f \in Nat,
         NEW l \in Local, Ready(l), NEW s \in Nat,
         NEW wc \in WaterCells, wc.value = l.water,
         l.now + Window <= wc.expiresAt, wc.expiresAt <= s + Window,
         Writing(h, f, l, wc.expiresAt - Window),
         NEW lc, lc = Written(Float64(l.lastLeak, Grain), s, Window),
         NEW k \in {f, f + 1}
  PROVE  Owing(h, k, wc, lc, l.now, s)
  <1> SUFFICES ASSUME NEW i \in 1..Len(h)
               PROVE  h[i].failures <= k /\ Paid(h[i], Len(h) - i + 1, k, wc, lc, l.now, s)
    BY DEF Owing
  <1>1. h[i] \in Grants /\ Len(h) - i + 1 \in Nat
    BY Since
  <1>2. PICK g \in Grants, n \in Nat : g = h[i] /\ n = Len(h) - i + 1
    BY <1>1
  <1>3. g.failures <= f /\ Writes(g, n, f, l, wc.expiresAt - Window)
    BY <1>2 DEF Writing
  <1>4. n <= IF l.allowed THEN n + 1 ELSE n
    OBVIOUS
  <1>5. Paid(g, n, k, wc, lc, l.now, s)
    BY <1>3, <1>4, WrittenPays
  <1>6. g.failures <= k
    <2>1. g.failures \in Nat
      BY DEF Grants
    <2> QED
      BY <1>3, <2>1
  <1> QED
    BY <1>2, <1>5, <1>6

(* Both keys are written, and the call is admitted. *)
LEMMA OwingAdmitted ==
  ASSUME cfg \in Configs, LeakInterval > 0, NEW h \in Seq(Grants), NEW f \in Nat,
         NEW l \in Local, Ready(l), l.allowed, l.water > 0, NEW s \in Nat,
         NEW wc \in WaterCells, wc.value = l.water,
         l.now + Window <= wc.expiresAt, wc.expiresAt <= s + Window,
         Writing(h, f, l, wc.expiresAt - Window),
         NEW lc, lc = Written(Float64(l.lastLeak, Grain), s, Window),
         NEW b, b = [at |-> l.now, failures |-> f]
  PROVE  Owing(Append(h, b), f, wc, lc, l.now, s) /\ (Rate(h) => Rate(Append(h, b)))
  <1>0. PICK j : j = Append(h, b)
    OBVIOUS
  <1>1. PICK o \in Nat, v \in Nat, d \in Nat : o = 0 /\ v = wc.expiresAt - Window /\ l.now <= v /\ d = Len(h)
    <2>1. Window \in Nat /\ wc.expiresAt \in Nat /\ l.now \in Nat /\ Len(h) \in Nat
      BY Rates DEF WaterCells, Local
    <2>2. wc.expiresAt - Window \in Nat /\ l.now <= wc.expiresAt - Window
      BY <2>1
    <2> QED
      BY <2>1, <2>2
  <1>2. b \in Grants /\ Writes(b, o, f, l, v) /\ b.failures <= f
    <2>1. b \in Grants /\ Writes(b, 0, f, l, v)
      BY <1>1, NewPays
    <2> QED
      BY <1>1, <2>1
  <1>3. /\ Len(j) = d + 1 /\ j[d + 1] = b
        /\ \A i \in 1..d : j[i] = h[i]
    BY <1>0, <1>1, <1>2
  <1>4. ASSUME NEW i \in 1..(d + 1)
        PROVE  \E n \in Nat, m \in Nat :
                  /\ m = n + 1 /\ m = (d + 1) - i + 1
                  /\ j[i] \in Grants /\ j[i].failures <= f /\ Writes(j[i], n, f, l, v)
    <2>1. CASE i = d + 1
      <3>1. 1 = o + 1 /\ 1 = (d + 1) - i + 1 /\ 1 \in Nat
        BY <1>1, <2>1
      <3>2. j[i] = b
        BY <1>3, <2>1
      <3> QED
        BY <1>2, <3>1, <3>2
    <2>2. CASE i # d + 1
      <3>1. i \in 1..d /\ i \in 1..Len(h) /\ j[i] = h[i]
        BY <1>1, <1>3, <2>2
      <3>2. h[i] \in Grants /\ Len(h) - i + 1 \in Nat /\ h[i].failures <= f /\ Writes(h[i], Len(h) - i + 1, f, l, v)
        BY <1>1, <3>1, Since DEF Writing
      <3>3. PICK n \in Nat : n = Len(h) - i + 1
        BY <3>2
      <3>4. PICK m \in Nat : m = n + 1
        OBVIOUS
      <3>5. m = (d + 1) - i + 1
        BY <1>1, <3>3, <3>4
      <3> QED
        BY <3>1, <3>2, <3>3, <3>4, <3>5
    <2> QED
      BY <2>1, <2>2
  <1>5. ASSUME NEW i \in 1..(d + 1)
        PROVE  /\ j[i].failures <= f /\ Paid(j[i], (d + 1) - i + 1, f, wc, lc, l.now, s)
               /\ Within((d + 1) - i + 1, j[i], b)
    <2>1. PICK n \in Nat, m \in Nat :
              /\ m = n + 1 /\ m = (d + 1) - i + 1
              /\ j[i] \in Grants /\ j[i].failures <= f /\ Writes(j[i], n, f, l, v)
      BY <1>4
    <2>2. PICK g \in Grants : g = j[i]
      BY <2>1
    <2>3. g.failures <= f /\ Writes(g, n, f, l, v) /\ m <= IF l.allowed THEN n + 1 ELSE n
      <3>1. m <= IF l.allowed THEN n + 1 ELSE n
        <4>1. m = IF l.allowed THEN n + 1 ELSE n
          BY <2>1
        <4> QED
          BY <4>1
      <3> QED
        BY <2>1, <2>2, <3>1
    <2>4. Paid(g, m, f, wc, lc, l.now, s)
      <3>1. f \in {f, f + 1}
        OBVIOUS
      <3>2. Writes(g, n, f, l, wc.expiresAt - Window)
        BY <1>1, <2>3
      <3> QED
        BY <2>3, <3>1, <3>2, WrittenPays
    <2>5. Within(n + 1, g, b)
      BY <2>3, WritesWithin
    <2> QED
      BY <2>1, <2>2, <2>3, <2>4, <2>5
  <1>6. Owing(j, f, wc, lc, l.now, s)
    BY <1>3, <1>5 DEF Owing
  <1>7. ASSUME Rate(h), NEW i \in 1..(d + 1), NEW k \in 1..(d + 1), i <= k
        PROVE  Within(k - i + 1, j[i], j[k])
    <2>1. CASE k = d + 1
      BY <1>3, <1>5, <2>1
    <2>2. CASE k # d + 1
      <3>1. i \in 1..Len(h) /\ k \in 1..Len(h) /\ j[i] = h[i] /\ j[k] = h[k]
        BY <1>1, <1>3, <1>7, <2>2
      <3> QED
        BY <1>7, <3>1 DEF Rate
    <2> QED
      BY <2>1, <2>2
  <1>8. Rate(h) => Rate(j)
    BY <1>3, <1>7 DEF Rate
  <1> QED
    BY <1>0, <1>6, <1>8

-----------------------------------------------------------------------------
(* The steps. *)

LEMMA RateKept ==
  ASSUME UNCHANGED cfg, NEW h, NEW f, NEW wc, NEW lc, NEW s \in Nat,
         h = grants', f = failures', wc = waterCell', lc = leakCell', s = now',
         Grain <= s, Rate(h),
         (\A u \in Threads : pc'[u] \in Outside) => StorePays(h, f, wc, lc, s),
         \A u \in Threads : pc'[u] \notin Outside => CallPays(pc'[u], loc'[u], h, f, wc, lc, s)
  PROVE  RBody'
  <1>1. Grain' <= now'
    BY SameConfiguration
  <1>2. Rate(grants)'
    <2>1. Rate(h)'
      BY SamePays
    <2> QED
      BY <2>1
  <1>3. ASSUME \A u \in Threads : pc'[u] \in Outside
        PROVE  StorePays(grants, failures, waterCell, leakCell, now)'
    <2>1. StorePays(h, f, wc, lc, s)
      BY <1>3
    <2>2. StorePays(h, f, wc, lc, s)'
      BY <2>1, SamePays
    <2> QED
      BY <2>2
  <1>4. ASSUME NEW u \in Threads, pc'[u] \notin Outside
        PROVE  CallPays(pc[u], loc[u], grants, failures, waterCell, leakCell, now)'
    <2>1. PICK p, l : p = pc'[u] /\ l = loc'[u]
      OBVIOUS
    <2>2. CallPays(p, l, h, f, wc, lc, s)
      BY <1>4, <2>1
    <2>3. CallPays(p, l, h, f, wc, lc, s)'
      BY <2>2, SamePays
    <2> QED
      BY <2>1, <2>3
  <1> QED
    BY <1>1, <1>2, <1>3, <1>4 DEF RBody, Outside

(* A step of the goroutine in the critical section. *)
LEMMA RateMoves ==
  ASSUME IInv, NEW t \in Threads, Alone(t), UNCHANGED cfg,
         NEW p, NEW l, pc' = [pc EXCEPT ![t] = p], loc' = [loc EXCEPT ![t] = l],
         NEW h, NEW f, NEW wc, NEW lc, NEW s \in Nat,
         h = grants', f = failures', wc = waterCell', lc = leakCell', s = now',
         Grain <= s, Rate(h),
         p \in Outside => StorePays(h, f, wc, lc, s),
         p \notin Outside => CallPays(p, l, h, f, wc, lc, s)
  PROVE  RBody'
  <1>1. pc'[t] = p /\ loc'[t] = l /\ \A u \in Threads \ {t} : pc'[u] \in Outside
    BY DEF IInv, Alone
  <1>2. (\A u \in Threads : pc'[u] \in Outside) => StorePays(h, f, wc, lc, s)
    BY <1>1
  <1>3. \A u \in Threads : pc'[u] \notin Outside => CallPays(pc'[u], loc'[u], h, f, wc, lc, s)
    BY <1>1
  <1> QED
    BY <1>2, <1>3, RateKept

(* What is known of the call in the critical section. *)
LEMMA CallFacts ==
  ASSUME IInv, RBody, NEW t \in Threads, pc[t] \notin Outside
  PROVE  /\ cfg \in Configs /\ now \in Nat /\ Grain <= now /\ grants \in Seq(Grants) /\ failures \in Nat
         /\ waterCell \in WaterCells /\ leakCell \in LeakCells /\ leakCell.value % Grain = 0
         /\ loc[t] \in Local /\ Rate(grants) /\ Alone(t)
         /\ CallPays(pc[t], loc[t], grants, failures, waterCell, leakCell, now)
         /\ pc[t] \in {"setWater", "setLeak"} => loc[t].water > 0
         /\ pc[t] = "setLeak" => loc[t].water = waterCell.value
  <1>1. LocalOK(pc[t], loc[t], waterCell.value, leakCell.value, last)
    BY Facts
  <1>2. /\ pc[t] \in {"setWater", "setLeak"} => loc[t].water > 0
        /\ pc[t] = "setLeak" => loc[t].water = waterCell.value
    BY <1>1 DEF LocalOK
  <1>3. grants \in Seq(Grants) /\ failures \in Nat
    BY Facts DEF Counters
  <1> QED
    BY <1>2, <1>3, Facts, HolderAlone DEF RBody

(* A call begins, or nothing happens. *)
LEMMA NothingPays ==
  ASSUME IInv, RBody, UNCHANGED <<cfg, now, waterCell, leakCell, loc, failures, grants>>,
         \A u \in Threads : pc'[u] = pc[u] \/ (pc[u] \in Outside /\ pc'[u] \in Outside)
  PROVE  RBody'
  <1>1. PICK h, f, wc, lc, s :
           /\ h = grants' /\ f = failures' /\ wc = waterCell' /\ lc = leakCell' /\ s = now'
           /\ h = grants /\ f = failures /\ wc = waterCell /\ lc = leakCell /\ s = now /\ s \in Nat
    BY Facts
  <1>2. Grain <= s /\ Rate(h)
    BY <1>1 DEF RBody
  <1>3. (\A u \in Threads : pc'[u] \in Outside) => StorePays(h, f, wc, lc, s)
    BY <1>1 DEF RBody
  <1>4. \A u \in Threads : pc'[u] \notin Outside => CallPays(pc'[u], loc'[u], h, f, wc, lc, s)
    BY <1>1 DEF RBody
  <1> QED
    BY <1>1, <1>2, <1>3, <1>4, RateKept

LEMMA LockPays ==
  ASSUME IInv, RBody, NEW t \in Threads, Lock(t)
  PROVE  RBody'
  <1>1. /\ UNCHANGED <<cfg, now, waterCell, leakCell, failures, grants>>
        /\ mu = Nobody /\ pc' = [pc EXCEPT ![t] = "getWater"]
    BY DEF Lock, Goto
  <1>2. PICK l : l = [loc[t] EXCEPT !.now = now]
    OBVIOUS
  <1>3. loc' = [loc EXCEPT ![t] = l] /\ l.now = now
    BY <1>2, Facts DEF Lock, Local
  <1>4. PICK p : p = "getWater"
    OBVIOUS
  <1>5. PICK h, f, wc, lc, s :
           /\ h = grants' /\ f = failures' /\ wc = waterCell' /\ lc = leakCell' /\ s = now'
           /\ h = grants /\ f = failures /\ wc = waterCell /\ lc = leakCell /\ s = now /\ s \in Nat
    BY <1>1, Facts
  <1>6. Alone(t)
    BY <1>1, HolderAlone
  <1>7. StorePays(h, f, wc, lc, s) /\ Grain <= s /\ Rate(h)
    <2>1. \A u \in Threads : pc[u] \in Outside
      BY <1>1, EnvironmentAssumption DEF IInv
    <2> QED
      BY <1>5, <2>1 DEF RBody
  <1>8. MaxStall \in Nat
    BY Facts, EnvironmentAssumption DEF MaxStall
  <1>9. CallPays(p, l, h, f, wc, lc, s)
    BY <1>3, <1>4, <1>5, <1>7, <1>8 DEF CallPays, StorePays
  <1>10. p \notin Outside
    BY <1>4 DEF Outside
  <1> QED
    BY <1>1, <1>3, <1>4, <1>5, <1>6, <1>7, <1>9, <1>10, RateMoves

LEMMA GetWaterPays ==
  ASSUME IInv, RBody, NEW t \in Threads, GetWater(t)
  PROVE  RBody'
  <1>1. /\ UNCHANGED <<cfg, now, waterCell, leakCell, failures, grants>>
        /\ pc[t] = "getWater" /\ pc[t] \notin Outside /\ pc' = [pc EXCEPT ![t] = "getLeak"]
    BY DEF GetWater, Goto, Outside
  <1>2. PICK w : w = Read(waterCell, now)
    OBVIOUS
  <1>3. PICK l : l = [loc[t] EXCEPT !.water = w]
    OBVIOUS
  <1>4. loc' = [loc EXCEPT ![t] = l] /\ l.now = loc[t].now /\ l.water = w
    BY <1>2, <1>3, Facts DEF GetWater, Local
  <1>5. PICK p : p = "getLeak"
    OBVIOUS
  <1>6. PICK h, f, wc, lc, s :
           /\ h = grants' /\ f = failures' /\ wc = waterCell' /\ lc = leakCell' /\ s = now'
           /\ h = grants /\ f = failures /\ wc = waterCell /\ lc = leakCell /\ s = now /\ s \in Nat
    BY <1>1, Facts
  <1>7. Grain <= s /\ Rate(h) /\ Alone(t) /\ CallPays("getWater", loc[t], h, f, wc, lc, s)
    BY <1>1, <1>6, CallFacts
  <1>8. w = wc.value \/ (w = 0 /\ wc.expiresAt < s)
    <2>1. wc.expiresAt \in Nat
      BY <1>6, Facts DEF WaterCells
    <2> QED
      BY <1>2, <1>6, <2>1 DEF Read, Live
  <1>9. CallPays(p, l, h, f, wc, lc, s)
    BY <1>4, <1>5, <1>7, <1>8 DEF CallPays
  <1>10. p \notin Outside
    BY <1>5 DEF Outside
  <1> QED
    BY <1>1, <1>4, <1>5, <1>6, <1>7, <1>9, <1>10, RateMoves

(* A time in the store is zero or a grain at least. *)
LEMMA OneGrain ==
  ASSUME NEW r \in Nat \ {0}, NEW g \in Nat \ {0}, r % g = 0
  PROVE  r >= g
  <1>1. PICK q \in Nat : q * g \in Nat /\ r = q * g
    <2>1. r \div g \in Nat /\ (r \div g) * g \in Nat /\ r = (r \div g) * g + (r % g)
      BY DivBounds
    <2>2. r = (r \div g) * g
      BY <2>1
    <2> QED
      BY <2>1, <2>2
  <1>2. q # 0
    BY <1>1
  <1>3. q * g >= 1 * g
    <2>1. 1 <= q /\ q \in Int /\ 1 \in Int
      BY <1>2
    <2> QED
      BY <2>1, ProductMonotone
  <1> QED
    BY <1>1, <1>3

LEMMA DecisionReady ==
  ASSUME cfg \in Configs, LeakInterval > 0, NEW t \in Nat, Grain <= t, NEW w \in 0..Limit,
         NEW c \in LeakCells, c.value % Grain = 0, c.value <= t + Err,
         NEW r, r = c.value \/ r = 0, NEW l \in Leaked(t, w, r),
         NEW m, m.now = t, m.lastLeak = l.lastLeak
  PROVE  Ready(m)
  <1>1. Grain \in Nat \ {0} /\ Err \in Nat
    BY Rates
  <1>2. r \in Nat /\ r <= t + Err
    BY <1>1 DEF LeakCells
  <1>3. PICK q \in Nat : q = l.lastLeak
    BY <1>2, LastLeakNear
  <1>4. /\ q >= r /\ t <= q + Unused
        /\ q <= t \/ (r # 0 /\ q = r)
        /\ r = 0 => q = t
    BY <1>2, <1>3, LastLeakNear
  <1>5. q >= Grain
    <2>1. CASE r = 0
      BY <1>4, <2>1
    <2>2. CASE r # 0
      <3>1. r >= Grain
        BY <1>1, <1>2, <2>2, OneGrain
      <3> QED
        BY <1>1, <1>2, <1>4, <3>1
    <2> QED
      BY <2>1, <2>2
  <1>6. PICK y \in Nat : y = Float64(q, Grain) /\ y <= q + Err /\ (q % Grain = 0 => y = q)
    <2>1. PICK x : x = Float64(q, Grain)
      OBVIOUS
    <2>2. x \in Nat /\ x <= q + Grain \div 2 /\ (q % Grain = 0 => x = q)
      BY <1>1, <2>1, Stored
    <2> QED
      BY <2>1, <2>2 DEF Err
  <1>7. y <= t + Err
    <2>1. CASE q <= t
      BY <1>1, <1>6, <2>1
    <2>2. CASE ~(q <= t)
      <3>1. q = r /\ r = c.value
        BY <1>4, <2>2
      <3>2. y = r
        BY <1>6, <3>1
      <3> QED
        BY <1>2, <3>2
    <2> QED
      BY <2>1, <2>2
  <1> QED
    BY <1>3, <1>4, <1>5, <1>6, <1>7 DEF Ready

LEMMA GetLeakPays ==
  ASSUME IInv, RBody, LeakInterval > 0, NEW t \in Threads, GetLeak(t)
  PROVE  RBody'
  <1>1. /\ UNCHANGED <<cfg, now, waterCell, leakCell, failures, grants>>
        /\ pc[t] = "getLeak" /\ pc[t] \notin Outside /\ pc' = [pc EXCEPT ![t] = "setWater"]
    BY DEF GetLeak, Goto, Outside
  <1>2. PICK h, f, wc, lc, s :
           /\ h = grants' /\ f = failures' /\ wc = waterCell' /\ lc = leakCell' /\ s = now'
           /\ h = grants /\ f = failures /\ wc = waterCell /\ lc = leakCell /\ s = now /\ s \in Nat /\ f \in Nat
    BY <1>1, CallFacts
  <1>3. PICK t0 \in Nat, w \in 0..Limit : t0 = loc[t].now /\ w = loc[t].water
    BY Facts
  <1>4. PICK l \in Leaked(t0, w, Read(lc, s)) :
          loc' = [loc EXCEPT ![t].water = IF l.water < Limit THEN l.water + 1 ELSE l.water,
                             ![t].lastLeak = l.lastLeak,
                             ![t].allowed = (l.water < Limit)]
    BY <1>2, <1>3 DEF GetLeak
  <1>5. PICK m : /\ m = loc'[t]
                 /\ m = [loc[t] EXCEPT !.water = IF l.water < Limit THEN l.water + 1 ELSE l.water,
                                       !.lastLeak = l.lastLeak,
                                       !.allowed = (l.water < Limit)]
    BY <1>4 DEF IInv
  <1>6. loc' = [loc EXCEPT ![t] = m]
    BY <1>4, <1>5 DEF IInv
  <1>7. m \in Local
    <2>1. IInv'
      BY Deciding
    <2>2. loc'[t] \in Local'
      BY <2>1 DEF IInv
    <2> QED
      BY <1>1, <1>5, <2>2, SameConfiguration
  <1>8. /\ m.now = t0 /\ m.lastLeak = l.lastLeak /\ (m.allowed <=> l.water < Limit)
        /\ m.water = IF l.water < Limit THEN l.water + 1 ELSE l.water
    BY <1>3, <1>5, Facts DEF Local
  <1>9. /\ Grain <= s /\ h \in Seq(Grants) /\ Rate(h) /\ Alone(t) /\ cfg \in Configs
        /\ wc \in WaterCells /\ lc \in LeakCells /\ lc.value % Grain = 0
        /\ CallPays("getLeak", loc[t], h, f, wc, lc, s)
    BY <1>1, <1>2, CallFacts
  <1>10. /\ Grain <= t0 /\ t0 <= s /\ s <= t0 + MaxStall /\ lc.value <= t0 + Err
         /\ w = wc.value \/ (w = 0 /\ wc.expiresAt < s)
         /\ Owing(h, f, wc, lc, t0, s)
    BY <1>3, <1>9 DEF CallPays
  <1>11. PICK k \in Nat : k = f + 1
    BY <1>2
  <1>12. Writing(h, f, m, s) /\ Owing(h, k, Written(m.water, s, Window), lc, t0, s)
    BY <1>2, <1>4, <1>7, <1>8, <1>9, <1>10, <1>11, OwingDecision
  <1>13. Ready(m)
    <2>1. PICK r : r = Read(lc, s)
      OBVIOUS
    <2>2. (r = lc.value \/ r = 0) /\ l \in Leaked(t0, w, r)
      BY <1>4, <2>1 DEF Read
    <2> QED
      BY <1>8, <1>9, <1>10, <2>2, DecisionReady
  <1>14. PICK p : p = "setWater"
    OBVIOUS
  <1>15. CallPays(p, m, h, f, wc, lc, s)
    BY <1>8, <1>10, <1>11, <1>12, <1>13, <1>14 DEF CallPays
  <1>16. p \notin Outside
    BY <1>14 DEF Outside
  <1> QED
    BY <1>1, <1>2, <1>6, <1>9, <1>14, <1>15, <1>16, RateMoves

LEMMA SetWaterPays ==
  ASSUME IInv, RBody, LeakInterval > 0, NEW t \in Threads, SetWater(t)
  PROVE  RBody'
  <1>1. /\ UNCHANGED <<cfg, now, leakCell, loc, failures, grants>> /\ waterCell' = WriteWater(t)
        /\ pc[t] = "setWater" /\ pc[t] \notin Outside
    BY DEF SetWater, Outside
  <1>2. PICK p, l : p = "setLeak" /\ l = loc[t] /\ pc' = [pc EXCEPT ![t] = p] /\ loc' = [loc EXCEPT ![t] = l]
    BY <1>1 DEF SetWater, Goto, IInv
  <1>3. PICK h, f, wc, lc, s :
           /\ h = grants' /\ f = failures' /\ wc = waterCell' /\ lc = leakCell' /\ s = now'
           /\ h = grants /\ f = failures /\ lc = leakCell /\ s = now /\ s \in Nat
    BY <1>1, Facts
  <1>4. /\ Grain <= s /\ Rate(h) /\ Alone(t) /\ l \in Local
        /\ CallPays("setWater", l, h, f, waterCell, lc, s)
    BY <1>1, <1>2, <1>3, CallFacts
  <1>5. wc = Written(l.water, s, Window) /\ wc.expiresAt = s + Window
    BY <1>1, <1>2, <1>3 DEF WriteWater, Written
  <1>6. wc.expiresAt - Window = s /\ l.now + Window <= wc.expiresAt /\ wc.expiresAt <= s + Window
    <2>1. l.now \in Nat /\ l.now <= s /\ Window \in Nat
      BY <1>4, Facts DEF CallPays, Local
    <2> QED
      BY <1>3, <1>5, <2>1
  <1>7. CallPays(p, l, h, f, wc, lc, s)
    <2>1. Owing(h, f + 1, wc, lc, l.now, s) /\ Writing(h, f, l, wc.expiresAt - Window) /\ Ready(l)
      BY <1>4, <1>5, <1>6 DEF CallPays
    <2> QED
      BY <1>2, <1>4, <1>6, <2>1 DEF CallPays
  <1>8. p \notin Outside
    BY <1>2 DEF Outside
  <1> QED
    BY <1>1, <1>2, <1>3, <1>4, <1>7, <1>8, RateMoves

(* The end of a call. *)
LEMMA ReturnPays ==
  ASSUME IInv, NEW t \in Threads, pc[t] \notin Outside, UNCHANGED cfg, Return(t),
         NEW h, NEW f, NEW wc, NEW lc, NEW s \in Nat,
         h = grants', f = failures', wc = waterCell', lc = leakCell', s = now',
         Grain <= s, Rate(h), lc.value <= s + Err, Owing(h, f, wc, lc, s, s)
  PROVE  RBody'
  <1>1. PICK p, l : p = "idle" /\ l = IdleLocal /\ pc' = [pc EXCEPT ![t] = p] /\ loc' = [loc EXCEPT ![t] = l]
    BY DEF Return, Goto
  <1>2. p \in Outside /\ StorePays(h, f, wc, lc, s) /\ Alone(t)
    BY <1>1, HolderAlone DEF Outside, StorePays
  <1> QED
    BY <1>1, <1>2, RateMoves

(* What a call that wrote the level leaves when it writes the last leak. *)
LEMMA LeakWritten ==
  ASSUME IInv, RBody, LeakInterval > 0, NEW t \in Threads, pc[t] = "setLeak",
         NEW lc, lc = WriteLeak(t)
  PROVE  /\ lc \in LeakCells /\ lc.value <= now + Err
         /\ \A k \in {failures, failures + 1} : Owing(grants, k, waterCell, lc, now, now)
         /\ \A h : /\ loc[t].allowed
                   /\ h = Append(grants, [at |-> loc[t].now, failures |-> failures])
                   => h \in Seq(Grants) /\ Rate(h) /\ Owing(h, failures, waterCell, lc, now, now)
  <1>1. PICK l, g, f, wc, s : l = loc[t] /\ g = grants /\ f = failures /\ wc = waterCell /\ s = now
    OBVIOUS
  <1>2. /\ cfg \in Configs /\ s \in Nat /\ g \in Seq(Grants) /\ f \in Nat /\ wc \in WaterCells
        /\ l \in Local /\ Rate(g) /\ l.water > 0 /\ l.water = wc.value
        /\ CallPays("setLeak", l, g, f, wc, leakCell, s)
    BY <1>1, CallFacts DEF Outside
  <1>3. /\ l.now <= s /\ Ready(l) /\ Writing(g, f, l, wc.expiresAt - Window)
        /\ l.now + Window <= wc.expiresAt /\ wc.expiresAt <= s + Window
    BY <1>2 DEF CallPays
  <1>4. lc = Written(Float64(l.lastLeak, Grain), s, Window)
    BY <1>1 DEF WriteLeak
  <1>5. lc \in LeakCells
    BY WrittenCells
  <1>6. PICK u \in Nat : u = l.now /\ u <= s
    BY <1>2, <1>3 DEF Local
  <1>7. lc.value <= s + Err
    <2>1. lc.value <= u + Err
      BY <1>3, <1>4, <1>6 DEF Ready, Written
    <2>2. lc.value \in Nat /\ Err \in Nat
      BY <1>5, Facts DEF LeakCells
    <2> QED
      BY <1>2, <1>6, <2>1, <2>2
  <1>8. ASSUME NEW k \in {f, f + 1} PROVE Owing(g, k, wc, lc, s, s)
    <2>1. k \in Nat /\ k \in {k, k + 1}
      BY <1>2
    <2>2. Owing(g, k, wc, lc, u, s)
      BY <1>2, <1>3, <1>4, <1>6, OwingWritten
    <2>3. wc.expiresAt <= wc.expiresAt /\ s <= s
      BY <1>2 DEF WaterCells
    <2> QED
      BY <1>2, <1>5, <1>6, <2>1, <2>2, <2>3, OwingLater
  <1>9. ASSUME l.allowed, NEW h, h = Append(g, [at |-> l.now, failures |-> f])
        PROVE  h \in Seq(Grants) /\ Rate(h) /\ Owing(h, f, wc, lc, s, s)
    <2>1. PICK b : b = [at |-> l.now, failures |-> f]
      OBVIOUS
    <2>2. b \in Grants /\ h = Append(g, b)
      BY <1>2, <1>6, <1>9, <2>1 DEF Grants
    <2>3. h \in Seq(Grants)
      BY <1>2, <2>2, AppendProperties
    <2>4. Owing(h, f, wc, lc, u, s) /\ Rate(h)
      <3>1. l.allowed /\ wc.value = l.water
        BY <1>2, <1>9
      <3>2. Owing(Append(g, b), f, wc, lc, l.now, s) /\ (Rate(g) => Rate(Append(g, b)))
        BY <1>2, <1>3, <1>4, <2>1, <3>1, OwingAdmitted
      <3> QED
        BY <1>2, <1>6, <2>2, <3>2
    <2>5. wc.expiresAt <= wc.expiresAt /\ s <= s /\ f \in {f, f + 1}
      BY <1>2 DEF WaterCells
    <2> QED
      BY <1>2, <1>5, <1>6, <2>3, <2>4, <2>5, OwingLater
  <1> QED
    BY <1>1, <1>5, <1>7, <1>8, <1>9

LEMMA SetLeakPays ==
  ASSUME IInv, RBody, LeakInterval > 0, NEW t \in Threads, SetLeak(t)
  PROVE  RBody'
  <1>1. /\ UNCHANGED <<cfg, now, waterCell, failures>> /\ leakCell' = WriteLeak(t) /\ Return(t)
        /\ pc[t] = "setLeak" /\ pc[t] \notin Outside
    BY DEF SetLeak, Outside
  <1>2. PICK h, f, wc, lc, s :
           /\ h = grants' /\ f = failures' /\ wc = waterCell' /\ lc = leakCell' /\ s = now'
           /\ f = failures /\ wc = waterCell /\ s = now /\ s \in Nat /\ f \in Nat
    BY <1>1, CallFacts
  <1>3. Grain <= s /\ lc.value <= s + Err
    BY <1>1, <1>2, CallFacts, LeakWritten
  <1>4. Rate(h) /\ Owing(h, f, wc, lc, s, s)
    <2>1. CASE loc[t].allowed
      <3>1. h = Append(grants, [at |-> loc[t].now, failures |-> failures])
        BY <1>2, <2>1 DEF SetLeak
      <3> QED
        BY <1>1, <1>2, <2>1, <3>1, LeakWritten
    <2>2. CASE ~loc[t].allowed
      <3>1. h = grants
        BY <1>2, <2>2 DEF SetLeak
      <3> QED
        BY <1>1, <1>2, <3>1, CallFacts, LeakWritten
    <2> QED
      BY <2>1, <2>2
  <1> QED
    BY <1>1, <1>2, <1>3, <1>4, ReturnPays

LEMMA FailurePays ==
  ASSUME IInv, RBody, LeakInterval > 0, NEW t \in Threads, StoreError(t)
  PROVE  RBody'
  <1>1. /\ UNCHANGED <<cfg, now, grants>> /\ failures' = failures + 1 /\ Return(t) /\ pc[t] \notin Outside
    BY DEF StoreError, Outside
  <1>2. PICK h, f, k, wc, lc, s :
           /\ h = grants' /\ k = failures' /\ wc = waterCell' /\ lc = leakCell' /\ s = now'
           /\ h = grants /\ f = failures /\ k = f + 1 /\ s = now /\ s \in Nat /\ f \in Nat
    BY <1>1, CallFacts
  <1>3. k \in Nat /\ k \in {f, f + 1} /\ k \in {k, k + 1}
    BY <1>2
  <1>4. PICK l : l = loc[t]
    OBVIOUS
  <1>5. /\ Grain <= s /\ Rate(h) /\ cfg \in Configs /\ l \in Local /\ h \in Seq(Grants)
        /\ waterCell \in WaterCells /\ leakCell \in LeakCells
        /\ CallPays(pc[t], l, h, f, waterCell, leakCell, s)
    BY <1>1, <1>2, <1>4, CallFacts
  <1>6. PICK u \in Nat : u = l.now /\ u <= s /\ leakCell.value <= u + Err
    BY <1>5 DEF CallPays, Local
  <1>7. leakCell.value <= s + Err /\ s <= s
    <2>1. leakCell.value \in Nat /\ Err \in Nat
      BY Facts
    <2> QED
      BY <1>2, <1>6, <2>1
  <1>8. lc.value <= s + Err /\ Owing(h, k, wc, lc, s, s)
    <2>1. CASE wc = waterCell /\ lc = leakCell
      <3>1. wc.expiresAt <= wc.expiresAt
        BY <1>5, <2>1 DEF WaterCells
      <3>2. CASE pc[t] # "setLeak"
        <4>1. Owing(h, f, wc, lc, u, s)
          BY <1>5, <1>6, <2>1, <3>2 DEF CallPays
        <4> QED
          BY <1>2, <1>3, <1>5, <1>6, <1>7, <2>1, <3>1, <4>1, OwingLater
      <3>3. CASE pc[t] = "setLeak"
        <4>1. Owing(h, k, wc, lc, u, s)
          BY <1>2, <1>5, <1>6, <2>1, <3>3 DEF CallPays
        <4> QED
          BY <1>2, <1>3, <1>5, <1>6, <1>7, <2>1, <3>1, <4>1, OwingLater
      <3> QED
        BY <3>2, <3>3
    <2>2. CASE pc[t] = "setWater" /\ wc = WriteWater(t) /\ lc = leakCell
      <3>1. wc \in WaterCells /\ wc = Written(l.water, s, Window)
        BY <1>2, <1>4, <2>2, WrittenCells DEF WriteWater
      <3>2. Owing(h, k, wc, lc, u, s)
        BY <1>2, <1>5, <1>6, <2>2, <3>1 DEF CallPays
      <3>3. wc.expiresAt <= wc.expiresAt
        BY <3>1 DEF WaterCells
      <3> QED
        BY <1>2, <1>3, <1>5, <1>6, <1>7, <2>2, <3>1, <3>2, <3>3, OwingLater
    <2>3. CASE pc[t] = "setLeak" /\ wc = waterCell /\ lc = WriteLeak(t)
      BY <1>2, <2>3, LeakWritten
    <2> QED
      BY <1>2, <2>1, <2>2, <2>3 DEF StoreError
  <1> QED
    BY <1>1, <1>2, <1>5, <1>8, ReturnPays

LEMMA TimePays ==
  ASSUME IInv, RBody, LeakInterval > 0, Tick
  PROVE  RBody'
  <1>1. /\ UNCHANGED <<cfg, waterCell, leakCell, pc, loc, failures, grants>> /\ now' = now + 1
        /\ \A u \in Threads : pc[u] \in {"getWater", "getLeak"} => now < loc[u].now + MaxStall
    BY DEF Tick
  <1>2. PICK h, f, wc, lc, n, s :
           /\ h = grants' /\ f = failures' /\ wc = waterCell' /\ lc = leakCell' /\ s = now'
           /\ h = grants /\ f = failures /\ wc = waterCell /\ lc = leakCell /\ n = now
           /\ s = n + 1 /\ n \in Nat
    BY <1>1, Facts
  <1>3. /\ cfg \in Configs /\ s \in Nat /\ n <= s /\ f \in Nat /\ f \in {f, f + 1}
        /\ h \in Seq(Grants) /\ wc \in WaterCells /\ lc \in LeakCells /\ wc.expiresAt <= wc.expiresAt
        /\ wc.expiresAt \in Nat /\ lc.value \in Nat
    BY <1>2, Facts DEF Counters, WaterCells
  <1>4. Grain \in Nat /\ Err \in Nat /\ Window \in Nat /\ MaxStall \in Nat
    BY <1>3, Rates
  <1>5. Grain <= n /\ Grain <= s /\ Rate(h)
    BY <1>2, <1>3, <1>4 DEF RBody
  <1>6. ASSUME StorePays(h, f, wc, lc, n) PROVE StorePays(h, f, wc, lc, s)
    <2>1. lc.value <= n + Err /\ Owing(h, f, wc, lc, n, n)
      BY <1>6 DEF StorePays
    <2>2. Owing(h, f, wc, lc, s, s)
      BY <1>2, <1>3, <2>1, OwingLater
    <2>3. lc.value <= s + Err
      BY <1>2, <1>3, <1>4, <2>1
    <2> QED
      BY <2>2, <2>3 DEF StorePays
  <1>7. ASSUME NEW p, NEW l \in Local, CallPays(p, l, h, f, wc, lc, n),
               p \in {"getWater", "getLeak"} => n < l.now + MaxStall
        PROVE  CallPays(p, l, h, f, wc, lc, s)
    <2>1. PICK u \in Nat, w \in 0..Limit : u = l.now /\ w = l.water /\ u <= u
      BY DEF Local
    <2>2. Grain <= u /\ u <= n /\ u <= s /\ lc.value <= u + Err
      BY <1>2, <1>3, <1>7, <2>1 DEF CallPays
    <2>3. p \in {"getWater", "getLeak"} => s <= u + MaxStall
      BY <1>2, <1>4, <1>7, <2>1
    <2>4. p = "getLeak" => w = wc.value \/ (w = 0 /\ wc.expiresAt < s)
      BY <1>2, <1>3, <1>7, <2>1 DEF CallPays
    <2>5. ASSUME p # "setLeak" PROVE Owing(h, f, wc, lc, u, s)
      <3>1. Owing(h, f, wc, lc, u, n)
        BY <1>7, <2>1, <2>5 DEF CallPays
      <3> QED
        BY <1>2, <1>3, <2>1, <3>1, OwingLater
    <2>6. ASSUME p = "setWater"
          PROVE  Owing(h, f + 1, Written(l.water, s, Window), lc, u, s) /\ Writing(h, f, l, s)
      <3>1. PICK k \in Nat : k = f + 1 /\ k \in {k, k + 1}
        BY <1>3
      <3>2. PICK xc, yc : xc = Written(w, n, Window) /\ yc = Written(w, s, Window)
        OBVIOUS
      <3>3. /\ xc \in WaterCells /\ yc \in WaterCells /\ yc.value = xc.value
            /\ xc.expiresAt <= yc.expiresAt
        <4>1. n + Window \in Nat /\ s + Window \in Nat /\ n + Window <= s + Window
          BY <1>2, <1>3, <1>4
        <4> QED
          BY <3>2, <4>1 DEF Written, WaterCells
      <3>4. Owing(h, k, xc, lc, u, n) /\ Writing(h, f, l, n)
        BY <1>7, <2>1, <2>6, <3>1, <3>2 DEF CallPays
      <3>5. Owing(h, k, yc, lc, u, s)
        BY <1>2, <1>3, <2>1, <3>1, <3>3, <3>4, OwingLater
      <3>6. Writing(h, f, l, s)
        BY <1>2, <1>3, <3>4, WritingLater
      <3> QED
        BY <2>1, <3>1, <3>2, <3>5, <3>6
    <2>7. ASSUME p = "setLeak"
          PROVE  /\ Owing(h, f + 1, wc, lc, u, s) /\ Writing(h, f, l, wc.expiresAt - Window)
                 /\ u + Window <= wc.expiresAt /\ wc.expiresAt <= s + Window
      <3>1. PICK k \in Nat : k = f + 1 /\ k \in {k, k + 1}
        BY <1>3
      <3>2. /\ Owing(h, k, wc, lc, u, n) /\ Writing(h, f, l, wc.expiresAt - Window)
            /\ u + Window <= wc.expiresAt /\ wc.expiresAt <= n + Window
        BY <1>7, <2>1, <2>7, <3>1 DEF CallPays
      <3>3. Owing(h, k, wc, lc, u, s)
        BY <1>2, <1>3, <2>1, <3>1, <3>2, OwingLater
      <3>4. wc.expiresAt <= s + Window
        BY <1>2, <1>3, <1>4, <3>2
      <3> QED
        BY <3>1, <3>2, <3>3, <3>4
    <2>8. p \in {"setWater", "setLeak"} => Ready(l)
      BY <1>7 DEF CallPays
    <2> QED
      BY <2>1, <2>2, <2>3, <2>4, <2>5, <2>6, <2>7, <2>8 DEF CallPays
  <1>8. (\A u \in Threads : pc'[u] \in Outside) => StorePays(h, f, wc, lc, s)
    BY <1>1, <1>2, <1>6 DEF RBody
  <1>9. ASSUME NEW u \in Threads, pc'[u] \notin Outside
        PROVE  CallPays(pc'[u], loc'[u], h, f, wc, lc, s)
    <2>1. PICK p, l : p = pc[u] /\ l = loc[u] /\ p = pc'[u] /\ l = loc'[u]
      BY <1>1
    <2>2. l \in Local /\ CallPays(p, l, h, f, wc, lc, n)
      BY <1>2, <1>9, <2>1, Facts DEF RBody
    <2>3. p \in {"getWater", "getLeak"} => n < l.now + MaxStall
      BY <1>1, <1>2, <2>1
    <2> QED
      BY <1>7, <2>1, <2>2, <2>3
  <1> QED
    BY <1>1, <1>2, <1>3, <1>5, <1>8, <1>9, RateKept

LEMMA InitPays == Init => RInv
  <1> SUFFICES ASSUME Init PROVE RBody
    BY DEF RInv
  <1>1. /\ cfg \in Configs /\ now = Grain /\ grants = << >> /\ leakCell = EmptyCell
        /\ \A t \in Threads : pc[t] \in Outside
    BY DEF Init, Outside
  <1>2. Grain \in Nat /\ Err \in Nat
    BY <1>1, Chosen
  <1>3. Rate(grants) /\ \A wc, lc : Owing(grants, failures, wc, lc, now, now)
    BY <1>1 DEF Rate, Owing
  <1>4. leakCell.value <= now + Err
    BY <1>1, <1>2 DEF EmptyCell
  <1> QED
    BY <1>1, <1>2, <1>3, <1>4 DEF RBody, StorePays

LEMMA StepPays == IInv /\ RInv /\ [Next]_vars => RInv'
  <1> SUFFICES ASSUME IInv, RInv, [Next]_vars, LeakInterval' > 0 PROVE RBody'
    BY DEF RInv
  <1>1. UNCHANGED cfg
    BY DEF Next, vars, Step, Allow, Lock, GetWater, GetLeak, SetWater, SetLeak, StoreError, Tick
  <1>2. LeakInterval > 0 /\ RBody
    BY <1>1, SameRates DEF RInv
  <1>3. ASSUME NEW t \in Threads, Step(t) PROVE RBody'
    BY <1>2, <1>3, LockPays, GetWaterPays, GetLeakPays, SetWaterPays, SetLeakPays, FailurePays DEF Step
  <1>4. ASSUME NEW t \in Threads, Allow(t) PROVE RBody'
    <2>1. \A u \in Threads : pc'[u] = pc[u] \/ (pc[u] \in Outside /\ pc'[u] \in Outside)
      BY <1>4 DEF Allow, Goto, Outside, IInv
    <2>2. UNCHANGED <<cfg, now, waterCell, leakCell, loc, failures, grants>>
      BY <1>4 DEF Allow
    <2> QED
      BY <1>2, <2>1, <2>2, NothingPays
  <1>5. CASE UNCHANGED vars
    BY <1>2, <1>5, NothingPays DEF vars
  <1> QED
    BY <1>2, <1>3, <1>4, <1>5, TimePays DEF Next

-----------------------------------------------------------------------------
(* What the two keys stand for has paid for every admitted call, at every  *)
(* point of a call and whatever expires in it (leaky_bucket.go:62-109).    *)
THEOREM RateInvariant == Spec => [](IInv /\ RInv)
  <1>1. Init => IInv /\ RInv
    BY InitHolds, InitPays
  <1>2. (IInv /\ RInv) /\ [Next]_vars => (IInv /\ RInv)'
    BY StepKeeps, StepPays
  <1> QED
    BY <1>1, <1>2, PTL DEF Spec

(* For any limit, window, stall, precision of float64, interleaving and    *)
(* failures: within any period Limit calls and one per LeakInterval are    *)
(* admitted, and what an expiry in the middle of a call lends or a failed  *)
(* call gives back (leaky_bucket.go:62-109; core.go:37).                   *)
THEOREM RateBoundHolds == Spec => []RateBound
  <1>1. RInv => RateBound
    BY DEF RInv, RBody, Rate, Within, RateBound
  <1> QED
    BY <1>1, RateInvariant, PTL
=============================================================================
