------------------------- MODULE FixedWindowProofs -------------------------
(***************************************************************************)
(* Proofs about FixedWindow for any goroutines, limits, windows, delays    *)
(* and bounds.                                                             *)
(*                                                                         *)
(* The limit of a window needs the counters of a bucket told apart, which  *)
(* the state does not do.  What tells them apart is the expiry: counter    *)
(* number j + 1 of bucket b cannot expire before b * Window + (j + 1) *    *)
(* (Window + 1) - 1, since each starts after the one before it has         *)
(* expired.  Within says so, and that no more calls have been admitted, or *)
(* are about to be, than Limit for each counter before and what the        *)
(* current one has counted.                                                *)
(***************************************************************************)
EXTENDS FixedWindow, FiniteSetTheorems, TLAPS

(* The calls that have been counted and will be admitted. *)
Passing(b) == { t \in Threads : pc[t] = "decide" /\ loc[t].bucket = b /\ Allowed(loc[t].count) }

Clock ==
    /\ 1 <= now /\ now <= MaxTime
    /\ \A t \in Threads : pc[t] = "incr" =>
         loc[t].bucket = loc[t].at \div Window /\ loc[t].at <= now /\ now <= loc[t].at + MaxDelay

Expiries == \A b \in Buckets : counter[b].expiresAt <= now + Window

(* Every increment is accounted for. *)
Accounted ==
    /\ \A b \in Buckets : counter[b].value <= admitted[b] + spent[b]
    /\ \A t \in Threads : pc[t] = "decide" =>
         loc[t].count <= admitted[loc[t].bucket] + spent[loc[t].bucket]

SpentOnPassing == \A b \in Buckets : Cardinality(Passing(b)) <= spent[b]

(* n calls of bucket b in j counters before this one and in this one. *)
Within(cell, b, n, j) ==
    /\ j \in Nat /\ j + 1 <= Generations
    /\ n <= Limit * j + IF cell.value < Limit THEN cell.value ELSE Limit
    /\ cell.value = 0 => j = 0 /\ cell.expiresAt = 0
    /\ cell.value > 0 => cell.expiresAt >= b * Window + (j + 1) * (Window + 1) - 1

Generational ==
    \A b \in Buckets : \E j \in Nat : Within(counter[b], b, admitted[b] + Cardinality(Passing(b)), j)

IInv == TypeOK /\ Clock /\ Expiries /\ Accounted /\ SpentOnPassing /\ Generational

-----------------------------------------------------------------------------
(* Arithmetic. *)

LEMMA DivBounds ==
  ASSUME NEW a \in Nat, NEW w \in Nat \ {0}
  PROVE  a \div w \in Nat /\ (a \div w) * w <= a /\ a <= (a \div w) * w + w - 1
  OBVIOUS

LEMMA ProductMonotone ==
  ASSUME NEW x \in Nat, NEW y \in Nat, x <= y, NEW w \in Nat
  PROVE  x * w <= y * w
  OBVIOUS

LEMMA Successor ==
  ASSUME NEW x \in Nat, NEW w \in Nat
  PROVE  x * w \in Nat /\ w * x = x * w /\ (x + 1) * w = x * w + w /\ w * (x + 1) = w * x + w
  OBVIOUS

LEMMA DivAtLeast ==
  ASSUME NEW a \in Nat, NEW w \in Nat \ {0}, NEW x \in Nat, x * w <= a
  PROVE  x <= a \div w
  <1> DEFINE q == a \div w
  <1>1. q \in Nat /\ a <= q * w + w - 1
    BY DivBounds
  <1> HIDE DEF q
  <1>2. ASSUME q + 1 <= x PROVE FALSE
    <2>1. (q + 1) * w <= x * w
      BY <1>1, <1>2, ProductMonotone
    <2>2. (q + 1) * w = q * w + w /\ q * w \in Nat /\ x * w \in Nat
      BY <1>1, Successor
    <2> QED
      BY <1>1, <2>1, <2>2
  <1>3. x <= q
    BY <1>1, <1>2
  <1> QED
    BY <1>3 DEF q

LEMMA DivMonotone ==
  ASSUME NEW a \in Nat, NEW b \in Nat, a <= b, NEW w \in Nat \ {0}
  PROVE  a \div w <= b \div w
  <1>1. a \div w \in Nat /\ (a \div w) * w <= b /\ (a \div w) * w \in Nat
    BY DivBounds, Successor
  <1> QED
    BY <1>1, DivAtLeast

(* What the assumptions say of the chosen configuration. *)
LEMMA Chosen ==
  ASSUME cfg \in Configs
  PROVE  /\ Limit \in Nat \ {0} /\ Window \in Nat \ {0} /\ MaxDelay \in Nat
         /\ MaxTime \in Nat \ {0} /\ RefreshTTL \in BOOLEAN
         /\ Generations \in Nat /\ MaxTime \div Window \in Nat
  <1>1. /\ Limit \in Nat \ {0} /\ Window \in Nat \ {0} /\ MaxDelay \in Nat
        /\ MaxTime \in Nat \ {0} /\ RefreshTTL \in BOOLEAN
    BY ConfigsAssumption, EnvironmentAssumption DEF Limit, Window, MaxDelay, MaxTime, RefreshTTL
  <1>2. Window - 1 + MaxDelay \in Nat /\ Window + 1 \in Nat \ {0}
    BY <1>1
  <1>3. (Window - 1 + MaxDelay) \div (Window + 1) \in Nat /\ MaxTime \div Window \in Nat
    BY <1>1, <1>2, DivBounds
  <1> QED
    BY <1>1, <1>3 DEF Generations

-----------------------------------------------------------------------------
(* An increment, by a call that read the clock at "at", adds a call to the *)
(* current counter or starts the next one, and there is room for both.     *)
LEMMA NextCount ==
  ASSUME cfg \in Configs, now \in Nat, 1 <= now,
         NEW at \in Nat, at <= now, now <= at + MaxDelay, NEW b, b = at \div Window,
         NEW cell \in [value : Nat, expiresAt : Nat], cell.expiresAt <= now + Window,
         NEW n \in Nat, NEW j, Within(cell, b, n, j),
         NEW c, c = Incremented(cell, now, Window, RefreshTTL),
         NEW p \in Nat, p <= IF c.value <= Limit THEN 1 ELSE 0
  PROVE  \E i \in Nat : Within(c, b, n + p, i)
  <1>1. /\ Limit \in Nat \ {0} /\ Window \in Nat \ {0} /\ MaxDelay \in Nat
        /\ RefreshTTL \in BOOLEAN /\ Generations \in Nat
    BY Chosen
  <1>2. b \in Nat /\ b * Window \in Nat /\ b * Window <= at /\ at <= b * Window + Window - 1
    BY <1>1, DivBounds, Successor
  <1>3. /\ j \in Nat /\ j + 1 <= Generations
        /\ n <= Limit * j + IF cell.value < Limit THEN cell.value ELSE Limit
        /\ cell.value = 0 => j = 0 /\ cell.expiresAt = 0
        /\ cell.value > 0 => cell.expiresAt >= b * Window + (j + 1) * (Window + 1) - 1
    BY DEF Within
  <1>4. cell.value \in Nat /\ cell.expiresAt \in Nat /\ Limit * j \in Nat
    BY <1>1, <1>3, Successor
  <1>5. CASE Live(cell, now)
    <2>1. cell.value > 0
      BY <1>3, <1>4, <1>5 DEF Live
    <2>2. c.value = cell.value + 1 /\ c.expiresAt >= cell.expiresAt
      BY <1>1, <1>4, <1>5 DEF Incremented, Written
    <2>3. n + p <= Limit * j + IF c.value < Limit THEN c.value ELSE Limit
      BY <1>1, <1>3, <1>4, <2>2
    <2>4. c.expiresAt >= b * Window + (j + 1) * (Window + 1) - 1
      <3>1. (j + 1) * (Window + 1) \in Nat
        BY <1>1, <1>3, Successor
      <3>2. c.expiresAt \in Int
        BY <1>1, <1>4, <1>5 DEF Incremented, Written
      <3> QED
        BY <1>2, <1>3, <1>4, <2>1, <2>2, <3>1, <3>2
    <2>5. Within(c, b, n + p, j)
      BY <1>3, <1>4, <2>2, <2>3, <2>4 DEF Within
    <2> QED
      BY <1>3, <2>5
  <1>6. CASE ~Live(cell, now)
    <2>1. c.value = 1 /\ c.expiresAt = now + Window /\ now > cell.expiresAt
      BY <1>4, <1>6 DEF Incremented, Written, Live
    <2>2. p <= 1 /\ 1 <= IF c.value < Limit THEN c.value ELSE Limit
      BY <1>1, <2>1
    <2>3. CASE cell.value = 0
      <3>1. j = 0 /\ n = 0 /\ Limit * 0 = 0
        BY <1>1, <1>3, <2>3
      <3>2. (0 + 1) * (Window + 1) = Window + 1
        BY <1>1
      <3>3. Within(c, b, n + p, 0)
        BY <1>1, <1>2, <1>3, <2>1, <2>2, <3>1, <3>2 DEF Within
      <3> QED
        BY <3>3
    <2>4. CASE cell.value # 0
      <3>1. /\ (j + 1) * (Window + 1) \in Nat
            /\ (j + 1 + 1) * (Window + 1) = (j + 1) * (Window + 1) + Window + 1
            /\ Limit * (j + 1) = Limit * j + Limit
        BY <1>1, <1>3, Successor
      <3>2. now >= b * Window + (j + 1) * (Window + 1)
        BY <1>2, <1>3, <1>4, <2>1, <2>4, <3>1
      <3>3. (j + 1) * (Window + 1) <= Window - 1 + MaxDelay
        BY <1>1, <1>2, <3>1, <3>2
      <3>4. j + 1 <= (Window - 1 + MaxDelay) \div (Window + 1)
        <4>1. Window - 1 + MaxDelay \in Nat /\ Window + 1 \in Nat \ {0} /\ j + 1 \in Nat
          BY <1>1, <1>3
        <4> QED
          BY <3>3, <4>1, DivAtLeast
      <3>5. j + 1 + 1 <= Generations
        <4>1. Window - 1 + MaxDelay \in Nat /\ Window + 1 \in Nat \ {0}
          BY <1>1
        <4>2. (Window - 1 + MaxDelay) \div (Window + 1) \in Nat
          BY <4>1, DivBounds
        <4> QED
          BY <1>3, <3>4, <4>2 DEF Generations
      <3>6. n + p <= Limit * (j + 1) + IF c.value < Limit THEN c.value ELSE Limit
        <4>1. n <= Limit * j + Limit
          BY <1>1, <1>3, <1>4
        <4>2. (IF c.value < Limit THEN c.value ELSE Limit) \in Nat
          BY <1>1, <2>1
        <4> QED
          BY <1>1, <1>4, <2>2, <3>1, <4>1, <4>2
      <3>7. c.expiresAt >= b * Window + (j + 1 + 1) * (Window + 1) - 1
        BY <1>1, <1>2, <2>1, <3>1, <3>2
      <3>8. j + 1 \in Nat /\ c.value > 0
        BY <1>3, <2>1
      <3>9. Within(c, b, n + p, j + 1)
        BY <2>1, <3>5, <3>6, <3>7, <3>8 DEF Within
      <3> QED
        BY <3>8, <3>9
    <2> QED
      BY <2>3, <2>4
  <1> QED
    BY <1>5, <1>6

(* What an increment leaves in the store. *)
LEMMA IncrementedCell ==
  ASSUME cfg \in Configs, now \in Nat,
         NEW cell \in [value : Nat, expiresAt : Nat], cell.expiresAt <= now + Window,
         NEW c, c = Incremented(cell, now, Window, RefreshTTL)
  PROVE  /\ c \in [value : Nat, expiresAt : Nat]
         /\ c.expiresAt <= now + Window /\ c.value <= cell.value + 1
  <1>1. Window \in Nat \ {0} /\ RefreshTTL \in BOOLEAN
    BY Chosen
  <1> QED
    BY <1>1 DEF Incremented, Written

-----------------------------------------------------------------------------
(* The calls about to be admitted, before and after a step of one call. *)

LEMMA PassingFinite ==
  ASSUME NEW b
  PROVE  IsFiniteSet(Passing(b)) /\ Cardinality(Passing(b)) \in Nat
  <1>1. IsFiniteSet(Threads) /\ Passing(b) \subseteq Threads
    BY EnvironmentAssumption DEF Passing
  <1>2. IsFiniteSet(Passing(b))
    BY <1>1, FS_Subset
  <1> QED
    BY <1>2, FS_CardinalityType

OthersKept(t) == \A u \in Threads \ {t} : pc'[u] = pc[u] /\ loc'[u] = loc[u]

LEMMA PassingKept ==
  ASSUME UNCHANGED cfg, NEW t \in Threads, OthersKept(t), NEW b,
         t \notin Passing(b), t \notin Passing(b)'
  PROVE  Passing(b)' = Passing(b)
  BY DEF OthersKept, Passing, Allowed, Limit

LEMMA PassingAdded ==
  ASSUME UNCHANGED cfg, NEW t \in Threads, OthersKept(t), NEW b,
         t \notin Passing(b), t \in Passing(b)'
  PROVE  Cardinality(Passing(b)') = Cardinality(Passing(b)) + 1
  <1>1. Passing(b)' = Passing(b) \union {t}
    BY DEF OthersKept, Passing, Allowed, Limit
  <1> QED
    BY <1>1, PassingFinite, FS_AddElement

LEMMA PassingRemoved ==
  ASSUME UNCHANGED cfg, NEW t \in Threads, OthersKept(t), NEW b,
         t \in Passing(b), t \notin Passing(b)'
  PROVE  /\ Cardinality(Passing(b)') = Cardinality(Passing(b)) - 1
         /\ Cardinality(Passing(b)) \in Nat \ {0}
  <1>1. Passing(b)' = Passing(b) \ {t}
    BY DEF OthersKept, Passing, Allowed, Limit
  <1>2. Cardinality(Passing(b)') = Cardinality(Passing(b)) - 1
    BY <1>1, PassingFinite, FS_RemoveElement
  <1>3. Cardinality(Passing(b)) # 0
    BY PassingFinite, FS_EmptySet
  <1> QED
    BY <1>2, <1>3, PassingFinite

(* The same configuration after the step as before. *)
LEMMA GenerationalNext ==
  ASSUME UNCHANGED cfg,
         \A b \in Buckets : \E j \in Nat :
            Within(counter'[b], b, admitted'[b] + Cardinality(Passing(b)'), j)
  PROVE  Generational'
  BY DEF Generational, Within, Generations, Buckets, MaxTime, MaxDelay, Limit, Window

LEMMA SameConfiguration ==
  ASSUME UNCHANGED cfg
  PROVE  /\ Buckets' = Buckets /\ Window' = Window /\ Limit' = Limit /\ MaxDelay' = MaxDelay
         /\ MaxTime' = MaxTime /\ Generations' = Generations
  BY DEF Buckets, Window, Limit, MaxDelay, MaxTime, Generations

(* A step of a call that neither reaches the store nor is admitted. *)
LEMMA AllowKeeps ==
  ASSUME IInv, NEW t \in Threads, Allow(t)
  PROVE  IInv'
  <1> USE DEF IInv
  <1>1. UNCHANGED cfg /\ OthersKept(t) /\ cfg \in Configs
    BY DEF Allow, Goto, OthersKept, TypeOK
  <1>2. /\ Limit \in Nat \ {0} /\ Window \in Nat \ {0} /\ MaxDelay \in Nat
        /\ MaxTime \in Nat \ {0}
    BY <1>1, Chosen
  <1>3. now \div Window \in Buckets
    <2>1. now \in Nat /\ now <= MaxTime
      BY DEF TypeOK, Clock
    <2> QED
      BY <1>2, <2>1, DivBounds, DivMonotone DEF Buckets
  <1>4. \A b : Passing(b)' = Passing(b)
    <2>1. ASSUME NEW b PROVE t \notin Passing(b) /\ t \notin Passing(b)'
      BY DEF Passing, Allow, Goto, TypeOK
    <2> QED
      BY <1>1, <2>1, PassingKept
  <1>5. TypeOK'
    BY <1>1, <1>3, SameConfiguration DEF Allow, Goto, TypeOK
  <1>6. Clock'
    BY <1>1, <1>2, SameConfiguration DEF Allow, Goto, Clock, TypeOK
  <1>7. Expiries' /\ Accounted' /\ SpentOnPassing'
    BY <1>1, <1>4, SameConfiguration
       DEF Allow, Goto, Expiries, Accounted, SpentOnPassing, TypeOK
  <1>8. Generational'
    BY <1>1, <1>4, GenerationalNext DEF Allow, Generational
  <1> QED
    BY <1>5, <1>6, <1>7, <1>8

LEMMA TickKeeps ==
  ASSUME IInv, Tick
  PROVE  IInv'
  <1> USE DEF IInv
  <1>1. UNCHANGED cfg /\ cfg \in Configs
    BY DEF Tick, TypeOK
  <1>2. Limit \in Nat \ {0} /\ Window \in Nat \ {0} /\ MaxDelay \in Nat /\ MaxTime \in Nat \ {0}
    BY <1>1, Chosen
  <1>3. \A b : Passing(b)' = Passing(b)
    BY DEF Tick, Passing, Allowed, Limit
  <1>4. TypeOK'
    BY <1>1, SameConfiguration DEF Tick, TypeOK
  <1>5. Clock'
    BY <1>1, <1>2, SameConfiguration DEF Tick, Clock, TypeOK
  <1>6. Expiries' /\ Accounted' /\ SpentOnPassing'
    BY <1>1, <1>2, <1>3, SameConfiguration DEF Tick, Expiries, Accounted, SpentOnPassing, TypeOK
  <1>7. Generational'
    BY <1>1, <1>3, GenerationalNext DEF Tick, Generational
  <1> QED
    BY <1>4, <1>5, <1>6, <1>7

-----------------------------------------------------------------------------
(* A call that has read the clock increments the counter of its bucket; p  *)
(* tells whether it will be admitted.                                      *)
LEMMA CounterIncremented ==
  ASSUME IInv, NEW t \in Threads, pc[t] = "incr", NEW b, b = loc[t].bucket, Increment(b)
  PROVE  /\ b \in Buckets
         /\ counter' \in [Buckets -> [value : Nat, expiresAt : Nat]]
         /\ \A x \in Buckets \ {b} : counter'[x] = counter[x]
         /\ counter'[b].expiresAt <= now + Window
         /\ counter'[b].value <= counter[b].value + 1
         /\ \A p \in Nat : p <= (IF counter'[b].value <= Limit THEN 1 ELSE 0) =>
               \E i \in Nat : Within(counter'[b], b, admitted[b] + Cardinality(Passing(b)) + p, i)
  <1> USE DEF IInv
  <1>1. cfg \in Configs /\ now \in Nat /\ 1 <= now
    BY DEF TypeOK, Clock
  <1>2. PICK at \in Nat : b = at \div Window /\ at <= now /\ now <= at + MaxDelay
    BY DEF Clock, TypeOK
  <1>3. b \in Buckets
    BY DEF TypeOK
  <1>4. counter[b] \in [value : Nat, expiresAt : Nat] /\ counter[b].expiresAt <= now + Window
    BY <1>3 DEF TypeOK, Expiries
  <1>5. PICK c : c = Incremented(counter[b], now, Window, RefreshTTL)
    OBVIOUS
  <1>6. /\ c \in [value : Nat, expiresAt : Nat]
        /\ c.expiresAt <= now + Window /\ c.value <= counter[b].value + 1
    BY <1>1, <1>4, <1>5, IncrementedCell
  <1>7. counter' = [counter EXCEPT ![b] = c]
    BY <1>5 DEF Increment
  <1>8. /\ counter' \in [Buckets -> [value : Nat, expiresAt : Nat]] /\ counter'[b] = c
        /\ \A x \in Buckets \ {b} : counter'[x] = counter[x]
    BY <1>3, <1>6, <1>7 DEF TypeOK
  <1>9. ASSUME NEW p \in Nat, p <= IF c.value <= Limit THEN 1 ELSE 0
        PROVE  \E i \in Nat : Within(c, b, admitted[b] + Cardinality(Passing(b)) + p, i)
    <2>1. PICK n \in Nat : n = admitted[b] + Cardinality(Passing(b))
      BY <1>3, PassingFinite DEF TypeOK
    <2>2. PICK j \in Nat : Within(counter[b], b, n, j)
      BY <1>3, <2>1 DEF Generational
    <2> QED
      BY <1>1, <1>2, <1>4, <1>5, <1>9, <2>1, <2>2, NextCount
  <1> QED
    BY <1>3, <1>6, <1>8, <1>9

LEMMA IncrKeeps ==
  ASSUME IInv, NEW t \in Threads, Incr(t)
  PROVE  IInv'
  <1> USE DEF IInv
  <1>1. PICK b : b = loc[t].bucket
    OBVIOUS
  <1>2. /\ UNCHANGED <<cfg, now, admitted>> /\ pc[t] = "incr" /\ Increment(b)
        /\ OthersKept(t) /\ pc'[t] = "decide"
        /\ loc'[t].bucket = b /\ loc'[t].count = counter'[b].value /\ loc'[t].at = loc[t].at
    BY <1>1 DEF Incr, Goto, OthersKept, TypeOK
  <1>3. /\ b \in Buckets
        /\ counter' \in [Buckets -> [value : Nat, expiresAt : Nat]]
        /\ \A x \in Buckets \ {b} : counter'[x] = counter[x]
        /\ counter'[b].expiresAt <= now + Window
        /\ counter'[b].value <= counter[b].value + 1
        /\ \A p \in Nat : p <= (IF counter'[b].value <= Limit THEN 1 ELSE 0) =>
              \E i \in Nat : Within(counter'[b], b, admitted[b] + Cardinality(Passing(b)) + p, i)
    BY <1>1, <1>2, CounterIncremented
  <1>4. /\ spent' \in [Buckets -> Nat] /\ spent'[b] = spent[b] + 1
        /\ \A x \in Buckets \ {b} : spent'[x] = spent[x]
    BY <1>1, <1>3 DEF Incr, TypeOK
  <1>5. \A x \in Buckets \ {b} : Passing(x)' = Passing(x)
    <2>1. ASSUME NEW x \in Buckets \ {b} PROVE t \notin Passing(x) /\ t \notin Passing(x)'
      BY <1>2 DEF Passing
    <2> QED
      BY <1>2, <2>1, PassingKept
  <1>6. PICK p \in Nat : /\ p <= IF counter'[b].value <= Limit THEN 1 ELSE 0
                         /\ Cardinality(Passing(b)') = Cardinality(Passing(b)) + p
    <2>1. t \notin Passing(b)
      BY <1>2 DEF Passing
    <2>2. t \in Passing(b)' <=> counter'[b].value <= Limit
      BY <1>2 DEF Passing, Allowed, Limit
    <2>3. CASE counter'[b].value <= Limit
      BY <1>2, <2>1, <2>2, <2>3, PassingAdded
    <2>4. CASE ~(counter'[b].value <= Limit)
      BY <1>2, <2>1, <2>2, <2>4, PassingKept, PassingFinite
    <2> QED
      BY <2>3, <2>4
  <1>7. TypeOK'
    <2>1. counter'[b].value \in Nat
      BY <1>3
    <2>2. loc' \in [Threads -> [bucket : Buckets, at : Nat, count : Nat]]
      BY <2>1, <1>1 DEF Incr, TypeOK
    <2>3. pc' \in [Threads -> {"idle", "incr", "decide"}]
      BY DEF Incr, Goto, TypeOK
    <2> QED
      BY <1>2, <1>3, <1>4, <2>2, <2>3, SameConfiguration DEF Incr, TypeOK
  <1>8. Clock'
    BY <1>2, SameConfiguration DEF Clock, OthersKept
  <1>9. Expiries'
    BY <1>2, <1>3, SameConfiguration DEF Expiries
  <1>10. Accounted'
    <2>1. /\ counter'[b].value <= admitted'[b] + spent'[b]
          /\ \A x \in Buckets : spent[x] <= spent'[x]
      <3>1. /\ counter[b].value \in Nat /\ counter'[b].value \in Nat
            /\ admitted[b] \in Nat /\ \A x \in Buckets : spent[x] \in Nat
        BY <1>3 DEF TypeOK
      <3>2. counter[b].value <= admitted[b] + spent[b] /\ admitted'[b] = admitted[b]
        BY <1>2, <1>3 DEF Accounted
      <3>3. counter'[b].value <= admitted'[b] + spent'[b]
        BY <1>3, <1>4, <3>1, <3>2
      <3>4. ASSUME NEW x \in Buckets PROVE spent[x] <= spent'[x]
        BY <1>4, <3>1
      <3> QED
        BY <3>3, <3>4
    <2>2. \A x \in Buckets : counter'[x].value <= admitted'[x] + spent'[x]
      <3>1. ASSUME NEW x \in Buckets \ {b}
            PROVE  counter'[x].value <= admitted'[x] + spent'[x]
        BY <1>2, <1>3, <1>4 DEF Accounted
      <3> QED
        BY <2>1, <3>1
    <2>3. ASSUME NEW u \in Threads, pc'[u] = "decide"
          PROVE  loc'[u].count <= admitted'[loc'[u].bucket] + spent'[loc'[u].bucket]
      <3>1. CASE u = t
        BY <1>2, <2>1, <3>1
      <3>2. CASE u # t
        <4>1. pc[u] = "decide" /\ loc'[u] = loc[u] /\ loc[u].bucket \in Buckets /\ loc[u].count \in Nat
          BY <1>2, <2>3, <3>2 DEF OthersKept, TypeOK
        <4>2. loc[u].count <= admitted[loc[u].bucket] + spent[loc[u].bucket]
          BY <4>1 DEF Accounted
        <4> QED
          BY <1>2, <1>4, <2>1, <4>1, <4>2 DEF TypeOK
      <3> QED
        BY <3>1, <3>2
    <2> QED
      BY <1>2, <2>2, <2>3, SameConfiguration DEF Accounted
  <1>11. SpentOnPassing'
    <2>1. \A x \in Buckets : Cardinality(Passing(x)') <= spent'[x]
      BY <1>3, <1>4, <1>5, <1>6, PassingFinite DEF SpentOnPassing, TypeOK
    <2> QED
      BY <1>2, <2>1, SameConfiguration DEF SpentOnPassing
  <1>12. Generational'
    <2>1. \E i \in Nat : Within(counter'[b], b, admitted'[b] + Cardinality(Passing(b)'), i)
      <3>1. admitted[b] + Cardinality(Passing(b)) + p = admitted'[b] + Cardinality(Passing(b)')
        BY <1>2, <1>3, <1>6, PassingFinite DEF TypeOK
      <3> QED
        BY <1>3, <1>6, <3>1
    <2>2. ASSUME NEW x \in Buckets \ {b}
          PROVE  \E i \in Nat : Within(counter'[x], x, admitted'[x] + Cardinality(Passing(x)'), i)
      BY <1>2, <1>3, <1>5 DEF Generational
    <2> QED
      BY <1>2, <2>1, <2>2, GenerationalNext
  <1> QED
    BY <1>7, <1>8, <1>9, <1>10, <1>11, <1>12

(* An error after an increment: it counts, and admits nobody by its count. *)
LEMMA StoreErrorKeeps ==
  ASSUME IInv, NEW t \in Threads, StoreError(t)
  PROVE  IInv'
  <1> USE DEF IInv
  <1>1. PICK b : b = loc[t].bucket
    OBVIOUS
  <1>2. /\ UNCHANGED <<cfg, now, admitted>> /\ pc[t] = "incr"
        /\ OthersKept(t) /\ pc'[t] = "idle"
    BY DEF StoreError, Return, Goto, OthersKept, TypeOK
  <1>3. b \in Buckets
    BY <1>1 DEF TypeOK
  <1>4. \A x : Passing(x)' = Passing(x)
    <2>1. ASSUME NEW x PROVE t \notin Passing(x) /\ t \notin Passing(x)'
      BY <1>2 DEF Passing
    <2> QED
      BY <1>2, <2>1, PassingKept
  <1>5. /\ counter' \in [Buckets -> [value : Nat, expiresAt : Nat]]
        /\ spent' \in [Buckets -> Nat]
        /\ \A x \in Buckets : /\ counter'[x].expiresAt <= now + Window
                               /\ counter'[x].value <= admitted[x] + spent'[x]
                               /\ spent[x] <= spent'[x]
                               /\ \E i \in Nat : Within(counter'[x], x, admitted[x] + Cardinality(Passing(x)), i)
    <2>1. CASE UNCHANGED <<counter, spent>>
      BY <2>1 DEF TypeOK, Expiries, Accounted, Generational
    <2>2. CASE Increment(b) /\ spent' = [spent EXCEPT ![b] = @ + 1]
      <3>1. /\ counter' \in [Buckets -> [value : Nat, expiresAt : Nat]]
            /\ \A x \in Buckets \ {b} : counter'[x] = counter[x]
            /\ counter'[b].expiresAt <= now + Window
            /\ counter'[b].value <= counter[b].value + 1
            /\ \A p \in Nat : p <= (IF counter'[b].value <= Limit THEN 1 ELSE 0) =>
                  \E i \in Nat : Within(counter'[b], b, admitted[b] + Cardinality(Passing(b)) + p, i)
        BY <1>1, <1>2, <2>2, CounterIncremented
      <3>2. /\ spent' \in [Buckets -> Nat] /\ spent'[b] = spent[b] + 1
            /\ \A x \in Buckets \ {b} : spent'[x] = spent[x]
        BY <1>3, <2>2 DEF TypeOK
      <3>3. /\ counter[b].value \in Nat /\ counter'[b].value \in Nat /\ admitted[b] \in Nat
            /\ \A x \in Buckets : spent[x] \in Nat
            /\ counter[b].value <= admitted[b] + spent[b]
        BY <1>3, <3>1 DEF TypeOK, Accounted
      <3>4. \E i \in Nat : Within(counter'[b], b, admitted[b] + Cardinality(Passing(b)), i)
        <4>1. admitted[b] + Cardinality(Passing(b)) + 0 = admitted[b] + Cardinality(Passing(b))
          BY <3>3, PassingFinite
        <4> QED
          BY <3>1, <4>1
      <3>5. counter'[b].value <= admitted[b] + spent'[b] /\ spent[b] <= spent'[b]
        BY <1>3, <3>1, <3>2, <3>3
      <3>6. ASSUME NEW x \in Buckets \ {b}
            PROVE  /\ counter'[x].expiresAt <= now + Window
                   /\ counter'[x].value <= admitted[x] + spent'[x]
                   /\ spent[x] <= spent'[x]
                   /\ \E i \in Nat : Within(counter'[x], x, admitted[x] + Cardinality(Passing(x)), i)
        BY <3>1, <3>2, <3>3 DEF Expiries, Accounted, Generational
      <3> QED
        BY <3>1, <3>2, <3>4, <3>5, <3>6
    <2> QED
      BY <1>1, <2>1, <2>2 DEF StoreError
  <1>6. TypeOK'
    <2>1. metrics' \in [allow : Nat, deny : Nat]
      BY DEF StoreError, TypeOK
    <2>2. 0 \in Buckets
      <3>1. cfg \in Configs
        BY DEF TypeOK
      <3> QED
        BY <3>1, Chosen DEF Buckets
    <2>3. /\ pc' \in [Threads -> {"idle", "incr", "decide"}]
          /\ loc' \in [Threads -> [bucket : Buckets, at : Nat, count : Nat]]
      BY <2>2 DEF StoreError, Return, Goto, IdleLocal, TypeOK
    <2> QED
      BY <1>2, <1>5, <2>1, <2>3, SameConfiguration DEF StoreError, TypeOK
  <1>7. Clock'
    BY <1>2, SameConfiguration DEF Clock, OthersKept
  <1>8. Expiries'
    BY <1>2, <1>5, SameConfiguration DEF Expiries
  <1>9. Accounted'
    <2>1. ASSUME NEW u \in Threads, pc'[u] = "decide"
          PROVE  loc'[u].count <= admitted'[loc'[u].bucket] + spent'[loc'[u].bucket]
      <3>1. pc[u] = "decide" /\ loc'[u] = loc[u] /\ loc[u].bucket \in Buckets /\ loc[u].count \in Nat
        BY <1>2, <2>1 DEF OthersKept, TypeOK
      <3>2. loc[u].count <= admitted[loc[u].bucket] + spent[loc[u].bucket]
        BY <3>1 DEF Accounted
      <3> QED
        BY <1>2, <1>5, <3>1, <3>2 DEF TypeOK
    <2> QED
      BY <1>2, <1>5, <2>1, SameConfiguration DEF Accounted
  <1>10. SpentOnPassing'
    <2>1. \A x \in Buckets : Cardinality(Passing(x)') <= spent'[x]
      BY <1>4, <1>5, PassingFinite DEF SpentOnPassing, TypeOK
    <2> QED
      BY <1>2, <2>1, SameConfiguration DEF SpentOnPassing
  <1>11. Generational'
    BY <1>2, <1>4, <1>5, GenerationalNext
  <1> QED
    BY <1>6, <1>7, <1>8, <1>9, <1>10, <1>11

(* A decision moves a call from the spent to the admitted, or denies it. *)
LEMMA DecideKeeps ==
  ASSUME IInv, NEW t \in Threads, Decide(t)
  PROVE  IInv'
  <1> USE DEF IInv
  <1>1. PICK b : b = loc[t].bucket
    OBVIOUS
  <1>2. /\ UNCHANGED <<cfg, now, counter>> /\ pc[t] = "decide" /\ OthersKept(t) /\ pc'[t] = "idle"
    BY DEF Decide, Return, Goto, OthersKept, TypeOK
  <1>3. b \in Buckets
    BY <1>1 DEF TypeOK
  <1>4. t \notin Passing(b)' /\ (t \in Passing(b) <=> Allowed(loc[t].count))
    BY <1>1, <1>2 DEF Passing
  <1>5. /\ admitted' \in [Buckets -> Nat] /\ spent' \in [Buckets -> Nat]
        /\ metrics' \in [allow : Nat, deny : Nat]
        /\ \A x \in Buckets :
             /\ admitted'[x] + spent'[x] = admitted[x] + spent[x]
             /\ Cardinality(Passing(x)') <= spent'[x]
             /\ admitted'[x] + Cardinality(Passing(x)') = admitted[x] + Cardinality(Passing(x))
    <2>1. \A x \in Buckets \ {b} : Passing(x)' = Passing(x)
      <3>1. ASSUME NEW x \in Buckets \ {b} PROVE t \notin Passing(x) /\ t \notin Passing(x)'
        BY <1>1, <1>2 DEF Passing
      <3> QED
        BY <1>2, <3>1, PassingKept
    <2>2. /\ \A x \in Buckets : admitted[x] \in Nat /\ spent[x] \in Nat
          /\ \A x \in Buckets : Cardinality(Passing(x)) <= spent[x]
      BY DEF TypeOK, SpentOnPassing
    <2>3. CASE Allowed(loc[t].count)
      <3>1. /\ Cardinality(Passing(b)') = Cardinality(Passing(b)) - 1
            /\ Cardinality(Passing(b)) \in Nat \ {0}
        BY <1>2, <1>4, <2>3, PassingRemoved
      <3>2. spent[b] - 1 \in Nat
        BY <1>3, <2>2, <3>1
      <3>3. /\ admitted' = [admitted EXCEPT ![b] = admitted[b] + 1]
            /\ spent' = [spent EXCEPT ![b] = spent[b] - 1]
        BY <1>1, <2>3 DEF Decide
      <3>4. /\ admitted' \in [Buckets -> Nat] /\ admitted'[b] = admitted[b] + 1
            /\ \A x \in Buckets \ {b} : admitted'[x] = admitted[x]
            /\ spent' \in [Buckets -> Nat] /\ spent'[b] = spent[b] - 1
            /\ \A x \in Buckets \ {b} : spent'[x] = spent[x]
        BY <1>3, <2>2, <3>2, <3>3 DEF TypeOK
      <3>5. metrics' \in [allow : Nat, deny : Nat]
        BY <2>3 DEF Decide, TypeOK
      <3>6. /\ admitted'[b] + spent'[b] = admitted[b] + spent[b]
            /\ Cardinality(Passing(b)') <= spent'[b]
            /\ admitted'[b] + Cardinality(Passing(b)') = admitted[b] + Cardinality(Passing(b))
        BY <1>3, <2>2, <3>1, <3>4
      <3>7. ASSUME NEW x \in Buckets \ {b}
            PROVE  /\ admitted'[x] + spent'[x] = admitted[x] + spent[x]
                   /\ Cardinality(Passing(x)') <= spent'[x]
                   /\ admitted'[x] + Cardinality(Passing(x)') = admitted[x] + Cardinality(Passing(x))
        BY <2>1, <2>2, <3>4
      <3> QED
        BY <3>4, <3>5, <3>6, <3>7
    <2>4. CASE ~Allowed(loc[t].count)
      <3>1. Passing(b)' = Passing(b)
        BY <1>2, <1>4, <2>4, PassingKept
      <3>2. UNCHANGED <<admitted, spent>> /\ metrics' \in [allow : Nat, deny : Nat]
        BY <2>4 DEF Decide, TypeOK
      <3>3. \A x \in Buckets : Passing(x)' = Passing(x)
        BY <2>1, <3>1
      <3> QED
        BY <2>2, <3>2, <3>3 DEF TypeOK
    <2> QED
      BY <2>3, <2>4
  <1>6. TypeOK'
    <2>1. 0 \in Buckets
      <3>1. cfg \in Configs
        BY DEF TypeOK
      <3> QED
        BY <3>1, Chosen DEF Buckets
    <2>2. /\ pc' \in [Threads -> {"idle", "incr", "decide"}]
          /\ loc' \in [Threads -> [bucket : Buckets, at : Nat, count : Nat]]
      BY <2>1 DEF Decide, Return, Goto, IdleLocal, TypeOK
    <2> QED
      BY <1>2, <1>5, <2>2, SameConfiguration DEF Decide, TypeOK
  <1>7. Clock'
    BY <1>2, SameConfiguration DEF Clock, OthersKept
  <1>8. Expiries'
    BY <1>2, SameConfiguration DEF Expiries
  <1>9. Accounted'
    <2>1. ASSUME NEW u \in Threads, pc'[u] = "decide"
          PROVE  loc'[u].count <= admitted'[loc'[u].bucket] + spent'[loc'[u].bucket]
      <3>1. pc[u] = "decide" /\ loc'[u] = loc[u] /\ loc[u].bucket \in Buckets
        BY <1>2, <2>1 DEF OthersKept, TypeOK
      <3> QED
        BY <1>5, <3>1 DEF Accounted
    <2>2. \A x \in Buckets : counter'[x].value <= admitted'[x] + spent'[x]
      BY <1>2, <1>5 DEF Accounted
    <2> QED
      BY <1>2, <2>1, <2>2, SameConfiguration DEF Accounted
  <1>10. SpentOnPassing'
    BY <1>2, <1>5, SameConfiguration DEF SpentOnPassing
  <1>11. Generational'
    BY <1>2, <1>5, GenerationalNext DEF Generational
  <1> QED
    BY <1>6, <1>7, <1>8, <1>9, <1>10, <1>11

LEMMA InitHolds ==
  ASSUME Init
  PROVE  IInv
  <1>1. cfg \in Configs
    BY DEF Init
  <1>2. /\ Limit \in Nat \ {0} /\ Window \in Nat \ {0} /\ MaxDelay \in Nat /\ MaxTime \in Nat \ {0}
        /\ MaxTime \div Window \in Nat
    BY <1>1, Chosen
  <1>3. \A b : Passing(b) = {}
    BY DEF Passing, Init
  <1>4. TypeOK
    BY <1>2 DEF Init, TypeOK, EmptyCell, IdleLocal, Buckets
  <1>5. Clock /\ Expiries /\ Accounted
    BY <1>2, <1>4 DEF Init, Clock, Expiries, Accounted, EmptyCell, TypeOK
  <1>6. SpentOnPassing
    BY <1>3, <1>4, FS_EmptySet DEF Init, SpentOnPassing
  <1>7. Generational
    <2>1. 0 + 1 <= Generations
      <3>1. Window - 1 + MaxDelay \in Nat /\ Window + 1 \in Nat \ {0}
        BY <1>2
      <3>2. (Window - 1 + MaxDelay) \div (Window + 1) \in Nat
        BY <3>1, DivBounds
      <3> QED
        BY <3>2 DEF Generations
    <2>2. Limit * 0 = 0
      BY <1>2
    <2>3. ASSUME NEW b \in Buckets PROVE Within(counter[b], b, admitted[b] + Cardinality(Passing(b)), 0)
      <3>1. counter[b].value = 0 /\ counter[b].expiresAt = 0 /\ admitted[b] = 0
        BY DEF Init, EmptyCell
      <3>2. Cardinality(Passing(b)) = 0
        BY <1>3, FS_EmptySet
      <3> QED
        BY <1>2, <2>1, <2>2, <3>1, <3>2 DEF Within
    <2> QED
      BY <2>3 DEF Generational
  <1> QED
    BY <1>4, <1>5, <1>6, <1>7 DEF IInv

LEMMA StepKeeps ==
  ASSUME IInv, [Next]_vars
  PROVE  IInv'
  <1>1. CASE UNCHANGED vars
    <2>1. UNCHANGED cfg /\ \A b : Passing(b)' = Passing(b)
      BY <1>1 DEF vars, Passing, Allowed, Limit
    <2>2. Generational'
      BY <1>1, <2>1, GenerationalNext DEF vars, IInv, Generational
    <2>3. TypeOK' /\ Clock' /\ Expiries' /\ Accounted' /\ SpentOnPassing'
      BY <1>1, <2>1, SameConfiguration
         DEF vars, IInv, TypeOK, Clock, Expiries, Accounted, SpentOnPassing
    <2> QED
      BY <2>2, <2>3 DEF IInv
  <1>2. ASSUME NEW t \in Threads, Allow(t) PROVE IInv'
    BY <1>2, AllowKeeps
  <1>3. ASSUME NEW t \in Threads, Incr(t) PROVE IInv'
    BY <1>3, IncrKeeps
  <1>4. ASSUME NEW t \in Threads, StoreError(t) PROVE IInv'
    BY <1>4, StoreErrorKeeps
  <1>5. ASSUME NEW t \in Threads, Decide(t) PROVE IInv'
    BY <1>5, DecideKeeps
  <1>6. CASE Tick
    BY <1>6, TickKeeps
  <1> QED
    BY <1>1, <1>2, <1>3, <1>4, <1>5, <1>6 DEF Next

(* Every increment is accounted for, and every counter of a bucket told    *)
(* apart by its expiry, in every reachable state (fixed_window.go:33-54).  *)
THEOREM InductiveInvariant == Spec => []IInv
  <1> QED
    BY InitHolds, StepKeeps, PTL DEF Spec

(* Buckets, counters and locals are well formed: in particular no call     *)
(* takes from what was spent more than was put there.                      *)
THEOREM TypeCorrect == Spec => []TypeOK
  <1>1. IInv => TypeOK
    BY DEF IInv
  <1> QED
    BY <1>1, InductiveInvariant, PTL

(* No more than Limit calls are admitted for each counter that a bucket    *)
(* can go through, and so no more than Limit unless a call is delayed by   *)
(* two units of time or more between the clock reading and the increment   *)
(* (fixed_window.go:38-54).                                                *)
THEOREM WindowLimited == Spec => []BucketLimit
  <1>1. ASSUME IInv PROVE BucketLimit
    <2>1. cfg \in Configs
      BY <1>1 DEF IInv, TypeOK
    <2>2. Limit \in Nat \ {0} /\ Generations \in Nat
      BY <2>1, Chosen
    <2>3. ASSUME NEW b \in Buckets PROVE admitted[b] <= Limit * Generations
      <3>1. PICK j \in Nat : Within(counter[b], b, admitted[b] + Cardinality(Passing(b)), j)
        BY <1>1 DEF IInv, Generational
      <3>2. admitted[b] \in Nat /\ counter[b].value \in Nat
        BY <1>1 DEF IInv, TypeOK
      <3>3. admitted[b] + Cardinality(Passing(b)) <= Limit * j + Limit /\ j + 1 <= Generations
        <4>1. /\ j + 1 <= Generations
              /\ admitted[b] + Cardinality(Passing(b))
                   <= Limit * j + IF counter[b].value < Limit THEN counter[b].value ELSE Limit
          BY <3>1 DEF Within
        <4>2. Limit * j \in Nat
          BY <2>2, Successor
        <4> QED
          BY <2>2, <3>2, <4>1, <4>2, PassingFinite
      <3>4. Limit * (j + 1) = Limit * j + Limit /\ Limit * j \in Nat
        BY <2>2, Successor
      <3>5. Limit * (j + 1) <= Limit * Generations
        <4>1. (j + 1) * Limit <= Generations * Limit
          BY <2>2, <3>3, ProductMonotone
        <4> QED
          BY <2>2, <4>1, Successor
      <3>6. Limit * Generations \in Nat
        BY <2>2, Successor
      <3> QED
        BY <2>2, <3>2, <3>3, <3>4, <3>5, <3>6, PassingFinite
    <2> QED
      BY <2>3 DEF BucketLimit
  <1>2. IInv => BucketLimit
    BY <1>1
  <1> QED
    BY <1>2, InductiveInvariant, PTL

(* A denial means that Limit other increments of the bucket have been made *)
(* (fixed_window.go:42-54).                                                *)
THEOREM DenialsJustified == Spec => []DeniedOnlyWhenFull
  <1>1. ASSUME IInv PROVE DeniedOnlyWhenFull
    <2>1. Limit \in Nat
      BY <1>1, Chosen DEF IInv, TypeOK
    <2>2. ASSUME NEW t \in Threads, pc[t] = "decide", ~Allowed(loc[t].count)
          PROVE  admitted[loc[t].bucket] + spent[loc[t].bucket] > Limit
      <3>1. loc[t].count \in Nat /\ loc[t].count > Limit
        BY <1>1, <2>1, <2>2 DEF IInv, TypeOK, Allowed
      <3>2. loc[t].count <= admitted[loc[t].bucket] + spent[loc[t].bucket]
        BY <1>1, <2>2 DEF IInv, Accounted
      <3>3. admitted[loc[t].bucket] \in Nat /\ spent[loc[t].bucket] \in Nat
        BY <1>1 DEF IInv, TypeOK
      <3> QED
        BY <2>1, <3>1, <3>2, <3>3
    <2> QED
      BY <2>2 DEF DeniedOnlyWhenFull
  <1>2. IInv => DeniedOnlyWhenFull
    BY <1>1
  <1> QED
    BY <1>2, InductiveInvariant, PTL
=============================================================================
