------------------------- MODULE RedisLimiterProofs -------------------------
(***************************************************************************)
(* Proofs about RedisLimiter for any number of instances, limits, windows, *)
(* clocks, delays and resends.                                             *)
(*                                                                         *)
(* A script is one step and may run on any reading that is MaxSkew ahead   *)
(* of the server's clock or MaxDelay behind it at most, so one lemma says  *)
(* what each script does to the keys on such a reading, whoever sent it    *)
(* and however often.  The invariant relates the keys to the history of    *)
(* grants: which of them the keys still account for.                       *)
(***************************************************************************)
EXTENDS RedisLimiter, SequenceTheorems, TLAPS

(* A clock reading that a script may run on at time n. *)
Reading(us, n) == us \in Nat \ {0} /\ us <= n + MaxSkew /\ n <= us + MaxDelay

(* A request under way, or one the server may still run. *)
Underway(r, n) ==
    /\ r.us \in Nat /\ r.sentAt \in Nat \ {0}
    /\ r.sentAt <= r.us /\ r.us <= r.sentAt + MaxSkew
    /\ r.sentAt <= n /\ n <= r.sentAt + MaxDelay

(* A bucket of which q units are used, brought up to date with time r,     *)
(* when g was granted.  Of the grants that the life of the keys reaches    *)
(* back to, no more are unpaid for than are used: every other one has been *)
(* paid for by the time from it to r.                                      *)
Level(q, r, g, n) ==
    /\ q \in 0..Limit /\ r \in Nat /\ r <= n + MaxSkew
    /\ r = 0 => \A i \in 1..Len(g) : n - g[i] > Lifetime
    /\ \A i \in 1..Len(g) : n - g[i] <= Lifetime =>
          (Len(g) - i + 1 - q) * MicrosPerToken < r - g[i] + MaxDelay + MicrosPerToken

Used(k) == IF Strategy = "token_bucket" THEN Limit - k[1] ELSE k[1]

(* A window that starts at w, and the c grants in it and the p in the one  *)
(* before it, the newest of g.                                             *)
Counted(w, c, p, g, n) ==
    /\ w \in Nat /\ w <= n + MaxSkew
    /\ c \in 0..Limit /\ p \in 0..Limit /\ c + p <= Len(g)
    /\ w = 0 => c = 0 /\ p = 0 /\ \A i \in 1..Len(g) : n - g[i] > Lifetime
    /\ w # 0 =>
          /\ \A i \in 1..Len(g) : g[i] < w + Window + MaxDelay
          /\ \A i \in 1..Len(g) : i <= Len(g) - c => g[i] < w + MaxDelay
          /\ \A i \in 1..Len(g) : i <= Len(g) - c - p => g[i] < w - Window + MaxDelay

Counts(k, g, n) ==
    IF IsBucket THEN Level(Used(k), k[2], g, n) ELSE Counted(k[1], k[2], k[3], g, n)

Rate(n, d)    == n - Limit > 0 => (n - Limit - 1) * MicrosPerToken < d + Spread
Rolling(n, d) == n <= 2 * Limit /\ (n - Limit - 1) * Window <= Limit * (d + Spread)

Promised(g) ==
    \A i, j \in 1..Len(g) : i <= j =>
        IF IsBucket THEN g[j] - g[i] <= Lifetime => Rate(j - i + 1, g[j] - g[i])
        ELSE g[j] - g[i] <= Window - Spread => Rolling(j - i + 1, g[j] - g[i])

Keys == Nat \X Nat \X Nat

StoreOK(k, e, g, n) ==
    /\ k \in Keys /\ e \in Nat /\ g \in Seq(Nat)
    /\ \A i \in 1..Len(g) : g[i] <= n /\ g[i] + Lifetime <= e
    /\ Counts(k, g, n)
    /\ Promised(g)

IInv ==
    /\ TypeOK /\ now # 0
    /\ \A i \in Instances : pc[i] = "sent" => Underway(request[i], now)
    /\ \A r \in strays : Underway(r, now)
    /\ StoreOK(keys, expiresAt, grants, now)

-----------------------------------------------------------------------------
(* Arithmetic. *)

LEMMA DivBounds ==
  ASSUME NEW a \in Nat, NEW w \in Nat \ {0}
  PROVE  a \div w \in Nat /\ a % w \in 0..(w - 1)
  OBVIOUS

LEMMA DivInt ==
  ASSUME NEW a \in Int, NEW w \in Nat \ {0}
  PROVE  a \div w \in Int /\ (a < 0 => a \div w < 0)
  OBVIOUS

LEMMA ProductNat ==
  ASSUME NEW a \in Nat, NEW b \in Nat
  PROVE  a * b \in Nat
  OBVIOUS

LEMMA ProductMonotone ==
  ASSUME NEW a \in Nat, NEW b \in Nat, a <= b, NEW u \in Nat
  PROVE  a * u <= b * u /\ u * a <= u * b
  <1>1. PICK y \in Nat : b = a + y
    OBVIOUS
  <1>2. PICK z \in Nat : z = y * u
    BY <1>1, ProductNat
  <1>3. b * u = a * u + z /\ u * b = u * a + z
    BY <1>1, <1>2
  <1>4. a * u \in Nat /\ u * a \in Nat
    BY ProductNat
  <1> QED
    BY <1>2, <1>3, <1>4

(* The whole units in a positive time. *)
LEMMA WholeUnits ==
  ASSUME NEW a \in Int, NEW w \in Nat \ {0}, NEW k, k = a \div w
  PROVE  /\ k \in Int
         /\ k >= 1 => /\ k \in Nat /\ k * w \in Nat /\ k * w <= a /\ a < k * w + w
                      /\ (k = 1 => k * w = w) /\ (k # 1 => k * w >= 2 * w)
         /\ ~(k >= 1) => a < w
  <1>1. k \in Int /\ (a < 0 => k < 0)
    BY DivInt
  <1>2. CASE a < 0
    BY <1>1, <1>2
  <1>3. CASE a >= 0
    <2>1. PICK x \in Nat : x = a
      BY <1>3
    <2>2. k \in Nat
      BY <2>1, DivBounds
    <2>3. PICK r \in 0..(w - 1) : r = x % w
      BY DivBounds
    <2>4. PICK z \in Nat : z = k * w
      BY <2>2, ProductNat
    <2>5. a = z + r
      BY <2>1, <2>3, <2>4
    <2>6. ASSUME k >= 1, k # 1 PROVE z >= 2 * w
      <3>1. PICK y \in Nat : k = y + 2
        BY <2>2, <2>6
      <3>2. PICK u \in Nat : u = y * w
        BY <3>1, ProductNat
      <3>3. z = u + 2 * w
        BY <2>4, <3>1, <3>2
      <3> QED
        BY <3>2, <3>3
    <2>7. k = 1 => z = w
      BY <2>4
    <2>8. k = 0 => z = 0
      BY <2>4
    <2> QED
      BY <1>1, <2>2, <2>3, <2>4, <2>5, <2>6, <2>7, <2>8
  <1> QED
    BY <1>2, <1>3

LEMMA DivideUpNat ==
  ASSUME NEW a \in Nat, NEW b \in Nat \ {0}
  PROVE  DivideUp(a, b) \in Nat
  <1>1. (-a) \div b \in Int /\ (-a) \div b <= 0
    OBVIOUS
  <1> QED
    BY <1>1 DEF DivideUp

(* A time to live in milliseconds is its time but for a millisecond. *)
LEMMA MillisecondsLive ==
  ASSUME NEW us \in Nat \ {0}, NEW t, t = Milliseconds(us)
  PROVE  t \in Nat /\ t * Milli \in Nat /\ \A w \in Nat : 2 * w <= us => w <= t * Milli
  <1>1. Milli \in Nat \ {0}
    BY ScriptAssumption
  <1>2. PICK q \in Nat : q = us \div Milli
    BY <1>1, DivBounds
  <1>3. PICK r \in 0..(Milli - 1) : r = us % Milli
    BY <1>1, DivBounds
  <1>4. PICK z \in Nat : z = q * Milli
    BY <1>1, <1>2, ProductNat
  <1>5. us = z + r
    BY <1>1, <1>2, <1>3, <1>4
  <1>6. CASE q = 0
    <2>1. t = 1
      BY <1>2, <1>6 DEF Milliseconds
    <2>2. z = 0
      BY <1>1, <1>4, <1>6
    <2> QED
      BY <1>1, <1>3, <1>5, <2>1, <2>2
  <1>7. CASE q # 0
    <2>1. t = q
      BY <1>2, <1>7 DEF Milliseconds
    <2>2. Milli <= z
      <3>1. PICK y \in Nat : q = y + 1
        BY <1>7
      <3>2. PICK u \in Nat : u = y * Milli
        BY <1>1, <3>1, ProductNat
      <3>3. z = u + Milli
        BY <1>1, <1>4, <3>1, <3>2
      <3> QED
        BY <1>1, <3>2, <3>3
    <2>3. \A w \in Nat : 2 * w <= us => w <= z
      BY <1>1, <1>3, <1>5, <2>2
    <2> QED
      BY <1>4, <2>1, <2>3
  <1> QED
    BY <1>6, <1>7

LEMMA Chosen ==
  ASSUME cfg \in Configs
  PROVE  /\ Limit \in Nat \ {0} /\ Window \in Nat \ {0} /\ Milli \in Nat \ {0}
         /\ MaxSkew \in Nat /\ MaxDelay \in Nat /\ MaxResends \in Nat /\ Spread = MaxSkew + MaxDelay
         /\ MicrosPerToken \in Nat \ {0}
         /\ Strategy \in {"token_bucket", "leaky_bucket", "sliding_window"}
         /\ TtlMs \in Nat /\ Lifetime \in Nat
         /\ ~IsBucket => Window <= Lifetime
  <1>1. /\ Limit \in Nat \ {0} /\ Window \in Nat \ {0} /\ Milli \in Nat \ {0}
        /\ MaxSkew \in Nat /\ MaxDelay \in Nat /\ MaxResends \in Nat /\ Spread = MaxSkew + MaxDelay
        /\ Strategy \in {"token_bucket", "leaky_bucket", "sliding_window"}
    BY ConfigsAssumption, EnvironmentAssumption, ScriptAssumption
       DEF Limit, Window, MaxSkew, MaxDelay, MaxResends, Spread, Strategy
  <1>2. MicrosPerToken \in Nat \ {0}
    <2>1. Window \div Limit \in Nat
      BY <1>1, DivBounds
    <2> QED
      BY <2>1 DEF MicrosPerToken
  <1>3. PICK us \in Nat \ {0} : us = IF Strategy = "sliding_window" THEN 2 * Window ELSE Window
    BY <1>1
  <1>4. TtlMs \in Nat /\ Lifetime \in Nat /\ \A w \in Nat : 2 * w <= us => w <= Lifetime
    BY <1>3, MillisecondsLive DEF TtlMs, Lifetime
  <1>5. ~IsBucket => Window <= Lifetime
    BY <1>1, <1>3, <1>4 DEF IsBucket
  <1> QED
    BY <1>1, <1>2, <1>4, <1>5

LEMMA ExpiryLater ==
  ASSUME cfg \in Configs, NEW n \in Nat
  PROVE  ExpiryOf(n) \in Nat /\ n + Lifetime <= ExpiryOf(n)
  <1>1. PICK mi \in Nat \ {0}, t \in Nat : mi = Milli /\ t = TtlMs
    BY Chosen
  <1>2. PICK q \in Nat : q = n \div mi
    BY DivBounds
  <1>3. PICK r \in 0..(mi - 1) : r = n % mi
    BY DivBounds
  <1>4. PICK qm \in Nat, tm \in Nat : qm = q * mi /\ tm = t * mi
    BY ProductNat
  <1>5. n = qm + r
    BY <1>2, <1>3, <1>4
  <1>6. (q + t + 1) * mi - 1 = qm + tm + mi - 1
    BY <1>4
  <1>7. ExpiryOf(n) = (q + t + 1) * mi - 1 /\ Lifetime = tm
    BY <1>1, <1>2, <1>4 DEF ExpiryOf, Lifetime
  <1> QED
    BY <1>3, <1>4, <1>5, <1>6, <1>7

LEMMA ProductStep ==
  ASSUME NEW a \in Int, NEW b \in Int, a <= b, NEW u \in Nat
  PROVE  a * u \in Int /\ b * u \in Int /\ a * u <= b * u
  <1>1. PICK y \in Nat : b = a + y
    OBVIOUS
  <1>2. PICK z \in Nat : z = y * u
    BY <1>1, ProductNat
  <1>3. b * u = a * u + z
    BY <1>1, <1>2
  <1>4. a * u \in Int
    OBVIOUS
  <1> QED
    BY <1>2, <1>3, <1>4

-----------------------------------------------------------------------------
(* The history. *)

(* g is h with v at its end. *)
Longer(g, h, v) ==
    /\ g \in Seq(Nat) /\ Len(g) = Len(h) + 1 /\ Len(h) \in Nat /\ g[Len(g)] = v
    /\ \A i \in 1..Len(h) : i \in 1..Len(g) /\ g[i] = h[i] /\ h[i] \in Nat

LEMMA AppendLonger ==
  ASSUME NEW h \in Seq(Nat), NEW v \in Nat
  PROVE  Longer(Append(h, v), h, v)
  <1>1. Len(h) \in Nat
    BY LenProperties
  <1> QED
    BY <1>1, AppendProperties, ElementOfSeq DEF Longer

(* What is promised of the longer history is promised of the shorter one   *)
(* and of the intervals that end with the new grant.                       *)
PromisedTo(g, j) ==
    \A i \in 1..Len(g) : i <= j =>
        IF IsBucket THEN g[j] - g[i] <= Lifetime => Rate(j - i + 1, g[j] - g[i])
        ELSE g[j] - g[i] <= Window - Spread => Rolling(j - i + 1, g[j] - g[i])

LEMMA PromisedLonger ==
  ASSUME NEW h, NEW g, NEW v, Longer(g, h, v), Promised(h), PromisedTo(g, Len(g))
  PROVE  Promised(g)
  <1>1. PICK k \in Nat : k = Len(h) /\ Len(g) = k + 1
    BY DEF Longer
  <1>2. ASSUME NEW i \in 1..(k + 1), NEW j \in 1..(k + 1), i <= j
        PROVE  IF IsBucket THEN g[j] - g[i] <= Lifetime => Rate(j - i + 1, g[j] - g[i])
               ELSE g[j] - g[i] <= Window - Spread => Rolling(j - i + 1, g[j] - g[i])
    <2>1. CASE j = k + 1
      BY <1>1, <1>2, <2>1 DEF PromisedTo
    <2>2. CASE j # k + 1
      <3>1. i \in 1..k /\ j \in 1..k
        BY <1>2, <2>2
      <3>2. g[i] = h[i] /\ g[j] = h[j]
        BY <1>1, <3>1 DEF Longer
      <3> QED
        BY <1>1, <1>2, <3>1, <3>2 DEF Promised
    <2> QED
      BY <2>1, <2>2
  <1> QED
    BY <1>1, <1>2 DEF Promised

-----------------------------------------------------------------------------
(* A bucket. *)

(* The unpaid grants of k that q units answer for, at the level r. *)
Unpaid(k, q, r, v) == (k - q) * MicrosPerToken < r - v + MaxDelay + MicrosPerToken

(* Time y gives back as many units and moves the level on by them. *)
LEMMA UnpaidLeaks ==
  ASSUME cfg \in Configs, NEW k \in Int, NEW q \in Int, NEW r \in Int, NEW v \in Int,
         Unpaid(k, q, r, v), NEW y \in Nat, NEW p \in Int, p >= q - y
  PROVE  Unpaid(k, p, r + y * MicrosPerToken, v)
  <1>1. PICK m \in Nat : m = MicrosPerToken
    BY Chosen
  <1>2. PICK d \in Nat : d = MaxDelay
    BY Chosen
  <1>3. PICK ym \in Nat : ym = y * m
    BY ProductNat
  <1>4. PICK a \in Int : a = k - q
    OBVIOUS
  <1>5. PICK b \in Int : b = k - p
    OBVIOUS
  <1>6. PICK am \in Int : am = a * m
    OBVIOUS
  <1>7. PICK bm \in Int : bm = b * m
    OBVIOUS
  <1>8. (a + y) * m = am + ym
    BY <1>3, <1>6
  <1>9. bm <= am + ym
    <2>1. b <= a + y
      BY <1>4, <1>5
    <2>2. b * m <= (a + y) * m
      BY <2>1, ProductStep
    <2> QED
      BY <1>7, <1>8, <2>2
  <1>10. am < r - v + d + m
    BY <1>1, <1>2, <1>4, <1>6 DEF Unpaid
  <1>11. bm < (r + ym) - v + d + m
    BY <1>9, <1>10
  <1> QED
    BY <1>1, <1>2, <1>3, <1>5, <1>7, <1>11 DEF Unpaid

(* A grant on a reading that is MaxDelay behind n at most, of one more     *)
(* unit, is paid for by the level that the reading has left.               *)
LEMMA UnpaidGranted ==
  ASSUME cfg \in Configs, NEW q \in Nat, NEW r \in Nat, NEW n \in Nat, NEW us \in Nat,
         n <= us + MaxDelay, us < r + MicrosPerToken
  PROVE  Unpaid(1, q + 1, r, n)
  <1>1. PICK m \in Nat : m = MicrosPerToken
    BY Chosen
  <1>2. PICK d \in Nat : d = MaxDelay
    BY Chosen
  <1>3. PICK qm \in Nat : qm = q * m
    BY ProductNat
  <1>4. (1 - (q + 1)) * m = -qm
    BY <1>3
  <1>5. -qm < r - n + d + m
    BY <1>1, <1>2, <1>3
  <1> QED
    BY <1>1, <1>2, <1>4, <1>5 DEF Unpaid

(* The bound that the k grants from v on and one more keep at time n. *)
LEMMA UnpaidBound ==
  ASSUME cfg \in Configs, NEW k \in Nat, NEW q \in Nat, q < Limit, NEW r \in Nat, NEW v \in Nat,
         Unpaid(k, q, r, v), NEW n \in Nat, r <= n + MaxSkew
  PROVE  Rate(k + 1, n - v)
  <1>1. PICK m \in Nat : m = MicrosPerToken
    BY Chosen
  <1>2. PICK d \in Nat, s \in Nat : d = MaxDelay /\ s = MaxSkew
    BY Chosen
  <1>3. PICK l \in Nat : l = Limit
    BY Chosen
  <1>4. PICK a \in Int : a = k - q
    OBVIOUS
  <1>5. PICK am \in Int : am = a * m
    OBVIOUS
  <1>6. (a - 1) * m = am - m
    BY <1>5
  <1>7. PICK b \in Int : b = k - l
    BY <1>3
  <1>8. b * m <= am - m
    <2>1. b <= a - 1
      BY <1>3, <1>4, <1>7
    <2>2. b * m <= (a - 1) * m
      BY <2>1, ProductStep
    <2> QED
      BY <1>6, <2>2
  <1>9. PICK bm \in Int : bm = b * m
    OBVIOUS
  <1>10. am < r - v + d + m
    BY <1>1, <1>2, <1>4, <1>5 DEF Unpaid
  <1>11. bm < (n - v) + (s + d)
    BY <1>2, <1>8, <1>9, <1>10
  <1>12. k + 1 - l - 1 = b
    BY <1>7
  <1>13. Spread = s + d
    BY <1>2, Chosen
  <1> QED
    BY <1>1, <1>3, <1>9, <1>11, <1>12, <1>13 DEF Rate

LEMMA UnpaidSame ==
  ASSUME NEW k, NEW q, NEW r, NEW v, Unpaid(k, q, r, v), NEW i, NEW p, i - p = k - q
  PROVE  Unpaid(i, p, r, v)
  BY DEF Unpaid

LEMMA LevelIs ==
  ASSUME NEW q, NEW r, NEW g, NEW n
  PROVE  Level(q, r, g, n) <=>
           /\ q \in 0..Limit /\ r \in Nat /\ r <= n + MaxSkew
           /\ r = 0 => \A i \in 1..Len(g) : n - g[i] > Lifetime
           /\ \A i \in 1..Len(g) : n - g[i] <= Lifetime => Unpaid(Len(g) - i + 1, q, r, g[i])
  BY DEF Level, Unpaid

(* What a reading leaves of a level: r1 for r, q1 for q. *)
LEMMA LevelRead ==
  ASSUME cfg \in Configs, NEW g \in Seq(Nat), NEW n \in Nat, NEW q, NEW r, Level(q, r, g, n),
         NEW us, Reading(us, n), NEW q1 \in 0..Limit, NEW r1,
         r = 0 => r1 = us,
         r # 0 => LET y == (us - r) \div MicrosPerToken IN
                  IF y > 0 THEN q1 >= q - y /\ r1 = r + y * MicrosPerToken
                  ELSE q1 = q /\ r1 = r
  PROVE  /\ Level(q1, r1, g, n)
         /\ r1 \in Nat \ {0} /\ us < r1 + MicrosPerToken
  <1>1. PICK m \in Nat \ {0}, s \in Nat, d \in Nat : m = MicrosPerToken /\ s = MaxSkew /\ d = MaxDelay
    BY Chosen
  <1>2. us \in Nat \ {0} /\ us <= n + s /\ n <= us + d
    BY <1>1 DEF Reading
  <1>3. q \in 0..Limit /\ r \in Nat /\ r <= n + s
    BY <1>1, LevelIs
  <1>4. CASE r = 0
    <2>1. r1 = us
      BY <1>4
    <2>2. \A i \in 1..Len(g) : n - g[i] > Lifetime
      BY <1>4, LevelIs
    <2>3. \A i \in 1..Len(g) : ~(n - g[i] <= Lifetime)
      <3> SUFFICES ASSUME NEW i \in 1..Len(g) PROVE ~(n - g[i] <= Lifetime)
        OBVIOUS
      <3>1. n - g[i] > Lifetime
        BY <2>2
      <3>2. g[i] \in Nat /\ Lifetime \in Nat
        BY Chosen, ElementOfSeq
      <3> QED
        BY <3>1, <3>2
    <2>4. Level(q1, r1, g, n)
      BY <1>1, <1>2, <2>1, <2>3, LevelIs
    <2> QED
      BY <1>1, <1>2, <2>1, <2>4
  <1>5. CASE r # 0
    <2>1. PICK x \in Int : x = us - r
      BY <1>2, <1>3
    <2>2. PICK y : y = x \div m
      OBVIOUS
    <2>3. /\ y \in Int
          /\ y >= 1 => y \in Nat /\ y * m \in Nat /\ y * m <= x /\ x < y * m + m
          /\ ~(y >= 1) => x < m
      BY <2>2, WholeUnits
    <2>4. CASE y >= 1
      <3>1. q1 >= q - y /\ r1 = r + y * m
        BY <1>1, <1>5, <2>1, <2>2, <2>3, <2>4
      <3>2. PICK z \in Nat : z = y * m /\ r1 = r + z
        BY <2>3, <2>4, <3>1
      <3>3. r1 \in Nat \ {0} /\ r1 <= us /\ us < r1 + m
        <4>1. z <= x /\ x < z + m
          BY <2>3, <2>4, <3>2
        <4>2. r \in Nat \ {0} /\ us \in Nat
          BY <1>2, <1>3, <1>5
        <4>3. r + z <= us /\ us < r + z + m
          BY <2>1, <4>1, <4>2
        <4> QED
          BY <3>2, <4>2, <4>3
      <3>4. ASSUME NEW i \in 1..Len(g), n - g[i] <= Lifetime
            PROVE  Unpaid(Len(g) - i + 1, q1, r1, g[i])
        <4>1. Unpaid(Len(g) - i + 1, q, r, g[i])
          BY <3>4, LevelIs
        <4>2. g[i] \in Int /\ Len(g) - i + 1 \in Int
          BY ElementOfSeq, LenProperties
        <4>3. Unpaid(Len(g) - i + 1, q1, r + y * MicrosPerToken, g[i])
          <5>1. q \in Int /\ q1 \in Int /\ r \in Int /\ y \in Nat
            BY <1>3, <2>3, <2>4, Chosen
          <5> QED
            BY <3>1, <4>1, <4>2, <5>1, UnpaidLeaks
        <4> QED
          BY <1>1, <3>1, <4>3
      <3>5. r1 <= n + s
        BY <1>2, <3>3
      <3>6. Level(q1, r1, g, n)
        BY <1>1, <3>3, <3>4, <3>5, LevelIs
      <3> QED
        BY <1>1, <3>3, <3>6
    <2>5. CASE ~(y >= 1)
      <3>1. q1 = q /\ r1 = r
        BY <1>1, <1>5, <2>1, <2>2, <2>3, <2>5
      <3>2. us < r + m
        BY <1>2, <1>3, <2>1, <2>3, <2>5
      <3> QED
        BY <1>1, <1>3, <1>5, <3>1, <3>2
    <2> QED
      BY <2>4, <2>5
  <1> QED
    BY <1>4, <1>5

(* One more unit is granted at time n. *)
LEMMA LevelGrants ==
  ASSUME cfg \in Configs, NEW h \in Seq(Nat), NEW n \in Nat, NEW q, q < Limit,
         NEW r \in Nat \ {0}, Level(q, r, h, n),
         NEW us, Reading(us, n), us < r + MicrosPerToken, NEW g, Longer(g, h, n)
  PROVE  Level(q + 1, r, g, n)
  <1>0. q \in 0..Limit /\ r <= n + MaxSkew
    BY LevelIs
  <1>1. q \in Nat /\ q + 1 \in 0..Limit
    BY <1>0, Chosen
  <1>2. PICK k \in Nat : k = Len(h) /\ Len(g) = k + 1 /\ g[k + 1] = n
    BY DEF Longer
  <1>3. ASSUME NEW i \in 1..(k + 1), n - g[i] <= Lifetime
        PROVE  Unpaid(k + 1 - i + 1, q + 1, r, g[i])
    <2>1. CASE i = k + 1
      <3>1. k + 1 - i + 1 = 1
        BY <2>1
      <3>2. us \in Nat /\ n <= us + MaxDelay
        BY DEF Reading
      <3>3. Unpaid(1, q + 1, r, n)
        BY <1>1, <3>2, UnpaidGranted
      <3> QED
        BY <1>2, <2>1, <3>1, <3>3
    <2>2. CASE i # k + 1
      <3>1. i \in 1..k
        BY <2>2
      <3>2. g[i] = h[i]
        BY <1>2, <3>1 DEF Longer
      <3>3. Unpaid(k - i + 1, q, r, h[i])
        BY <1>2, <1>3, <3>1, <3>2, LevelIs
      <3>4. PICK a, b, p : a = k - i + 1 /\ b = k + 1 - i + 1 /\ p = q + 1
        OBVIOUS
      <3>5. b - p = a - q
        BY <1>1, <3>1, <3>4
      <3>6. Unpaid(a, q, r, h[i])
        BY <3>3, <3>4
      <3>7. Unpaid(b, p, r, h[i])
        BY <3>5, <3>6, UnpaidSame
      <3> QED
        BY <3>2, <3>4, <3>7
    <2> QED
      BY <2>1, <2>2
  <1>4. \A i \in 1..Len(g) : n - g[i] <= Lifetime => Unpaid(Len(g) - i + 1, q + 1, r, g[i])
    BY <1>2, <1>3
  <1> QED
    BY <1>0, <1>1, <1>4, LevelIs

LEMMA LevelPromises ==
  ASSUME cfg \in Configs, IsBucket, NEW h \in Seq(Nat), NEW n \in Nat, NEW q, q < Limit,
         NEW r \in Nat \ {0}, Level(q, r, h, n), NEW g, Longer(g, h, n)
  PROVE  PromisedTo(g, Len(g))
  <1>1. q \in Nat /\ r <= n + MaxSkew
    BY Chosen, LevelIs
  <1>2. PICK k \in Nat : k = Len(h) /\ Len(g) = k + 1 /\ g[k + 1] = n
    BY DEF Longer
  <1>3. ASSUME NEW i \in 1..(k + 1), n - g[i] <= Lifetime
        PROVE  Rate(k + 1 - i + 1, n - g[i])
    <2>1. CASE i = k + 1
      <3>1. k + 1 - i + 1 = 1
        BY <2>1
      <3>2. Limit \in Nat \ {0}
        BY Chosen
      <3>3. ~(1 - Limit > 0)
        BY <3>2
      <3> QED
        BY <3>1, <3>3 DEF Rate
    <2>2. CASE i # k + 1
      <3>1. i \in 1..k
        BY <2>2
      <3>2. g[i] = h[i] /\ h[i] \in Nat
        BY <1>2, <3>1 DEF Longer
      <3>3. Unpaid(k - i + 1, q, r, h[i])
        BY <1>2, <1>3, <3>1, <3>2, LevelIs
      <3>4. k - i + 1 \in Nat /\ k + 1 - i + 1 = k - i + 1 + 1
        BY <3>1
      <3>5. Rate(k - i + 1 + 1, n - h[i])
        BY <1>1, <3>2, <3>3, <3>4, UnpaidBound
      <3> QED
        BY <3>2, <3>4, <3>5
    <2> QED
      BY <2>1, <2>2
  <1> QED
    BY <1>2, <1>3 DEF PromisedTo

-----------------------------------------------------------------------------
(* A window. *)

LEMMA CountedIs ==
  ASSUME NEW w, NEW c, NEW p, NEW g, NEW n
  PROVE  Counted(w, c, p, g, n) <=>
           /\ w \in Nat /\ w <= n + MaxSkew
           /\ c \in 0..Limit /\ p \in 0..Limit /\ c + p <= Len(g)
           /\ w = 0 => c = 0 /\ p = 0 /\ \A i \in 1..Len(g) : n - g[i] > Lifetime
           /\ w # 0 => \A i \in 1..Len(g) :
                 /\ g[i] < w + Window + MaxDelay
                 /\ i <= Len(g) - c => g[i] < w + MaxDelay
                 /\ i <= Len(g) - c - p => g[i] < w - Window + MaxDelay
  BY DEF Counted

(* A reading finds the window as it is, or in its successor, or later.      *)
LEMMA RotatedCases ==
  ASSUME cfg \in Configs, NEW w \in Nat \ {0}, NEW c, NEW p, NEW us \in Nat
  PROVE  \/ us < w + Window /\ Rotated(<<w, c, p>>, us) = <<w, c, p>>
         \/ /\ w + Window <= us /\ us < w + 2 * Window
            /\ Rotated(<<w, c, p>>, us) = <<w + Window, 0, c>>
         \/ \E v \in Nat : /\ w + 2 * Window <= v /\ v <= us /\ us < v + Window
                           /\ Rotated(<<w, c, p>>, us) = <<v, 0, 0>>
  <1>1. PICK ww \in Nat \ {0} : ww = Window
    BY Chosen
  <1>2. PICK x \in Int : x = us - w
    OBVIOUS
  <1>3. PICK y : y = x \div ww
    OBVIOUS
  <1>4. /\ y \in Int
        /\ y >= 1 => /\ y \in Nat /\ y * ww \in Nat /\ y * ww <= x /\ x < y * ww + ww
                     /\ (y = 1 => y * ww = ww) /\ (y # 1 => y * ww >= 2 * ww)
        /\ ~(y >= 1) => x < ww
    BY <1>3, WholeUnits
  <1>5. CASE y < 1
    <2>1. Rotated(<<w, c, p>>, us) = <<w, c, p>>
      BY <1>1, <1>2, <1>3, <1>5 DEF Rotated
    <2>2. us < w + ww
      BY <1>2, <1>4, <1>5
    <2> QED
      BY <1>1, <2>1, <2>2
  <1>6. CASE ~(y < 1)
    <2>1. y >= 1
      BY <1>4, <1>6
    <2>2. PICK z \in Nat : z = y * ww
      BY <1>4, <2>1
    <2>3. z <= x /\ x < z + ww /\ (y = 1 => z = ww) /\ (y # 1 => z >= 2 * ww)
      BY <1>4, <2>1, <2>2
    <2>4. PICK v \in Nat : v = w + z
      OBVIOUS
    <2>5. Rotated(<<w, c, p>>, us) = <<v, 0, IF y = 1 THEN c ELSE 0>>
      BY <1>1, <1>2, <1>3, <1>6, <2>2, <2>4 DEF Rotated
    <2>6. CASE y = 1
      <3>1. v = w + ww /\ w + ww <= us /\ us < w + 2 * ww
        BY <1>2, <2>3, <2>4, <2>6
      <3> QED
        BY <1>1, <2>5, <2>6, <3>1
    <2>7. CASE y # 1
      <3>1. w + 2 * ww <= v /\ v <= us /\ us < v + ww
        BY <1>2, <2>3, <2>4, <2>7
      <3> QED
        BY <1>1, <2>5, <2>7, <3>1
    <2> QED
      BY <2>6, <2>7
  <1> QED
    BY <1>4, <1>5, <1>6

(* What a reading finds is rotated. *)
LEMMA CountedRead ==
  ASSUME cfg \in Configs, ~IsBucket, NEW g \in Seq(Nat), NEW n \in Nat,
         NEW w, NEW c, NEW p, Counted(w, c, p, g, n), NEW us, Reading(us, n)
  PROVE  \E w1 \in Nat \ {0}, c1 \in 0..Limit, p1 \in 0..Limit :
            /\ Rotated(<<w, c, p>>, us) = <<w1, c1, p1>>
            /\ Counted(w1, c1, p1, g, n)
            /\ us < w1 + Window
  <1>1. PICK ww \in Nat \ {0}, s \in Nat, d \in Nat : ww = Window /\ s = MaxSkew /\ d = MaxDelay
    BY Chosen
  <1>2. us \in Nat \ {0} /\ us <= n + s /\ n <= us + d
    BY <1>1 DEF Reading
  <1>3. w \in Nat /\ w <= n + s /\ c \in 0..Limit /\ p \in 0..Limit /\ c + p <= Len(g)
    BY <1>1, CountedIs
  <1>4. 0 \in 0..Limit /\ Limit \in Nat
    BY Chosen
  <1>5. CASE w = 0
    <2>1. Rotated(<<w, c, p>>, us) = <<us, 0, 0>>
      BY <1>5 DEF Rotated
    <2>2. ASSUME NEW i \in 1..Len(g)
          PROVE  g[i] < us + ww + d /\ g[i] < us + d /\ g[i] < us - ww + d
      <3>1. n - g[i] > Lifetime
        BY <1>5, CountedIs
      <3>2. ww <= Lifetime /\ Lifetime \in Nat
        BY <1>1, Chosen
      <3>3. g[i] \in Nat
        BY ElementOfSeq
      <3> QED
        BY <1>2, <3>1, <3>2, <3>3
    <2>3. 0 + 0 <= Len(g)
      BY LenProperties
    <2>4. Counted(us, 0, 0, g, n)
      BY <1>1, <1>2, <1>4, <2>2, <2>3, CountedIs
    <2> QED
      BY <1>1, <1>2, <1>4, <2>1, <2>4
  <1>6. CASE w # 0
    <2>1. \A i \in 1..Len(g) :
             /\ g[i] < w + ww + d
             /\ i <= Len(g) - c => g[i] < w + d
             /\ i <= Len(g) - c - p => g[i] < w - ww + d
      BY <1>1, <1>6, CountedIs
    <2>2. CASE us < w + ww /\ Rotated(<<w, c, p>>, us) = <<w, c, p>>
      BY <1>1, <1>3, <1>6, <2>2
    <2>3. ASSUME NEW v \in Nat, v # 0, v <= us, us < v + ww, NEW q \in 0..Limit, q \in {0, c},
                 w + ww <= v, q = c \/ w + 2 * ww <= v,
                 Rotated(<<w, c, p>>, us) = <<v, 0, q>>
          PROVE  Counted(v, 0, q, g, n)
      <3>1. v <= n + s
        BY <1>2, <2>3
      <3>2. 0 + q <= Len(g)
        BY <1>3, <1>4, <2>3, LenProperties
      <3>3. ASSUME NEW i \in 1..Len(g)
            PROVE  /\ g[i] < v + ww + d
                   /\ i <= Len(g) - 0 => g[i] < v + d
                   /\ i <= Len(g) - 0 - q => g[i] < v - ww + d
        <4>1. PICK a \in Nat, l \in Nat : a = g[i] /\ l = Len(g)
          BY ElementOfSeq, LenProperties
        <4>2. a < w + ww + d /\ (i <= l - c => a < w + d) /\ i \in Nat
          BY <2>1, <4>1
        <4>3. a < v + ww + d /\ a < v + d
          BY <1>3, <2>3, <4>2
        <4>4. CASE q = c
          <5>1. i <= l - 0 - q => a < v - ww + d
            BY <1>3, <2>3, <4>2, <4>4
          <5> QED
            BY <4>1, <4>3, <5>1
        <4>5. CASE w + 2 * ww <= v
          <5>1. a < v - ww + d
            BY <1>3, <4>2, <4>5
          <5> QED
            BY <4>1, <4>3, <5>1
        <4> QED
          BY <2>3, <4>4, <4>5
      <3> QED
        BY <1>1, <1>4, <2>3, <3>1, <3>2, <3>3, CountedIs
    <2>4. CASE /\ w + ww <= us /\ us < w + 2 * ww
               /\ Rotated(<<w, c, p>>, us) = <<w + ww, 0, c>>
      <3>1. PICK v \in Nat : v = w + ww /\ v # 0 /\ v <= us /\ us < v + ww
        BY <1>2, <1>3, <2>4
      <3>2. Counted(v, 0, c, g, n)
        BY <1>3, <2>3, <2>4, <3>1
      <3> QED
        BY <1>1, <1>3, <1>4, <2>4, <3>1, <3>2
    <2>5. CASE \E v \in Nat : /\ w + 2 * ww <= v /\ v <= us /\ us < v + ww
                              /\ Rotated(<<w, c, p>>, us) = <<v, 0, 0>>
      <3>1. PICK v \in Nat : /\ w + 2 * ww <= v /\ v <= us /\ us < v + ww
                             /\ Rotated(<<w, c, p>>, us) = <<v, 0, 0>>
        BY <2>5
      <3>2. v # 0 /\ w + ww <= v
        BY <1>3, <3>1
      <3>3. Counted(v, 0, 0, g, n)
        BY <1>4, <2>3, <3>1, <3>2
      <3> QED
        BY <1>1, <1>4, <3>1, <3>2, <3>3
    <2>6. \/ us < w + Window /\ Rotated(<<w, c, p>>, us) = <<w, c, p>>
          \/ /\ w + Window <= us /\ us < w + 2 * Window
             /\ Rotated(<<w, c, p>>, us) = <<w + Window, 0, c>>
          \/ \E v \in Nat : /\ w + 2 * Window <= v /\ v <= us /\ us < v + Window
                            /\ Rotated(<<w, c, p>>, us) = <<v, 0, 0>>
      <3>1. w \in Nat \ {0} /\ us \in Nat
        BY <1>2, <1>3, <1>6
      <3> QED
        BY <3>1, RotatedCases
    <2> QED
      BY <1>1, <2>2, <2>4, <2>5, <2>6
  <1> QED
    BY <1>5, <1>6

(* One more call is granted at time n. *)
LEMMA CountedGrants ==
  ASSUME cfg \in Configs, NEW h \in Seq(Nat), NEW n \in Nat, NEW w \in Nat \ {0},
         NEW c \in Nat, c < Limit, NEW p \in Nat, Counted(w, c, p, h, n),
         NEW us, Reading(us, n), us < w + Window, NEW g, Longer(g, h, n)
  PROVE  Counted(w, c + 1, p, g, n)
  <1>1. PICK ww \in Nat \ {0}, s \in Nat, d \in Nat : ww = Window /\ s = MaxSkew /\ d = MaxDelay
    BY Chosen
  <1>2. us \in Nat /\ n <= us + d
    BY <1>1 DEF Reading
  <1>3. w <= n + s /\ p \in 0..Limit /\ c + p <= Len(h)
    BY <1>1, CountedIs
  <1>4. c + 1 \in 0..Limit
    BY Chosen
  <1>5. PICK k \in Nat : k = Len(h) /\ Len(g) = k + 1 /\ g[k + 1] = n
    BY DEF Longer
  <1>6. ASSUME NEW i \in 1..Len(g)
        PROVE  /\ g[i] < w + ww + d
               /\ i <= Len(g) - (c + 1) => g[i] < w + d
               /\ i <= Len(g) - (c + 1) - p => g[i] < w - ww + d
    <2>1. CASE i = k + 1
      <3>1. g[i] = n /\ n < w + ww + d
        BY <1>1, <1>2, <1>5, <2>1
      <3> QED
        BY <1>5, <2>1, <3>1
    <2>2. CASE i # k + 1
      <3>1. i \in 1..k
        BY <1>5, <2>2
      <3>2. g[i] = h[i]
        BY <1>5, <3>1 DEF Longer
      <3>3. /\ h[i] < w + ww + d
            /\ i <= k - c => h[i] < w + d
            /\ i <= k - c - p => h[i] < w - ww + d
        BY <1>1, <1>5, <3>1, CountedIs
      <3>4. (i <= Len(g) - (c + 1) => i <= k - c) /\ (i <= Len(g) - (c + 1) - p => i <= k - c - p)
        BY <1>5, <3>1
      <3> QED
        BY <3>2, <3>3, <3>4
    <2> QED
      BY <2>1, <2>2
  <1>7. c + 1 + p <= Len(g)
    BY <1>3, <1>5
  <1> QED
    BY <1>1, <1>3, <1>4, <1>6, <1>7, CountedIs

LEMMA ProductPositive ==
  ASSUME NEW a \in Nat \ {0}, NEW b \in Nat \ {0}
  PROVE  a * b \in Nat \ {0}
  <1>1. PICK y \in Nat : a = y + 1
    OBVIOUS
  <1>2. PICK z \in Nat : z = y * b
    BY ProductNat
  <1>3. a * b = z + b
    BY <1>1, <1>2
  <1> QED
    BY <1>2, <1>3

(* The estimate of an allowed call. *)
LetsThrough(s, p, c) == p * (Window - s) + c * Window <= Limit * Window

LEMMA AllowedBelow ==
  ASSUME cfg \in Configs, NEW s \in Nat, s < Window, NEW p \in Nat, NEW c \in Nat,
         NEW a \in Outcomes(s, p, c), a
  PROVE  LetsThrough(s, p, c) /\ c < Limit
  <1>1. PICK ll \in Nat, ww \in Nat : ll = Limit /\ ww = Window
    BY Chosen
  <1>2. PICK u \in Nat \ {0} : u = ww - s
    <2>1. ww - s \in Nat \ {0}
      BY <1>1
    <2> QED
      BY <2>1
  <1>3. PICK pu \in Nat, cw \in Nat, lw \in Nat : pu = p * u /\ cw = c * ww /\ lw = ll * ww
    BY <1>2, ProductNat
  <1>4. SlidingCount(s, p, c) = pu + cw
    BY <1>1, <1>2, <1>3 DEF SlidingCount
  <1>5. pu + cw < lw \/ (pu + cw = lw /\ p > 0)
    BY <1>1, <1>3, <1>4 DEF Outcomes
  <1>6. p > 0 => pu > 0
    BY <1>2, <1>3, ProductPositive
  <1>7. cw < lw
    BY <1>3, <1>5, <1>6
  <1>8. c < ll
    <2> SUFFICES ASSUME ll <= c PROVE FALSE
      BY <1>1
    <2>1. lw <= cw
      BY <1>1, <1>3, ProductMonotone
    <2> QED
      BY <1>3, <1>7, <2>1
  <1>9. pu + cw <= lw
    BY <1>3, <1>5
  <1> QED
    BY <1>1, <1>2, <1>3, <1>8, <1>9 DEF LetsThrough

(* What the estimate admits: a of the p calls of the previous window, and  *)
(* c of this one, a time s after its start.                                *)
LEMMA EstimateBound ==
  ASSUME NEW a \in Nat, NEW p \in Nat, NEW c \in Nat, NEW l \in Nat, NEW w \in Nat,
         NEW s \in Nat, s <= w, NEW x \in Nat, s <= x, a <= p, a <= l,
         p * (w - s) + c * w <= l * w
  PROVE  (a + c - l) * w <= l * x
  <1>1. PICK u \in Nat : u = w - s /\ w = s + u
    OBVIOUS
  <1>2. PICK pu \in Nat, cw \in Nat, lw \in Nat : pu = p * u /\ cw = c * w /\ lw = l * w
    BY ProductNat
  <1>3. PICK au \in Nat, aw \in Nat, lx \in Nat : au = a * u /\ aw = a * w /\ lx = l * x
    BY ProductNat
  <1>4. au <= pu
    BY <1>2, <1>3, ProductMonotone
  <1>5. pu + cw <= lw
    BY <1>1, <1>2
  <1>6. PICK as \in Nat, ls \in Nat : as = a * s /\ ls = l * s
    BY ProductNat
  <1>7. aw = as + au
    BY <1>1, <1>3, <1>6
  <1>8. as <= ls /\ ls <= lx
    BY <1>3, <1>6, ProductMonotone
  <1>9. (a + c - l) * w = aw + cw - lw
    BY <1>2, <1>3
  <1> QED
    BY <1>2, <1>3, <1>4, <1>5, <1>7, <1>8, <1>9

(* How many calls a window and the one before it give an interval of       *)
(* length e that ends with a call allowed at v: n of those before it.      *)
LEMMA IntervalBound ==
  ASSUME NEW limit \in Nat \ {0}, NEW window \in Nat \ {0}, NEW ahead \in Nat, NEW delay \in Nat,
         NEW w \in Nat, NEW c \in Nat, c < limit, NEW p \in Nat, p <= limit, NEW v \in Nat,
         NEW us \in Nat, us < w + window, us <= v + ahead, w <= v + ahead,
         NEW s \in Nat, s = IF us < w THEN 0 ELSE us - w,
         p * (window - s) + c * window <= limit * window,
         NEW n \in Nat, NEW e \in Nat, e <= window - (ahead + delay),
         n > c => v - e < w + delay,
         n > c + p => v - e < w - window + delay
  PROVE  n + 1 <= 2 * limit /\ (n - limit) * window <= limit * (e + (ahead + delay))
  <1>1. PICK x \in Nat : x = e + (ahead + delay)
    OBVIOUS
  <1>2. PICK lx \in Nat : lx = limit * x
    BY ProductNat
  <1>3. CASE n <= c
    <2>1. PICK y \in Nat : n - limit = -y
      BY <1>3
    <2>2. PICK z \in Nat : z = y * window
      BY ProductNat
    <2>3. (n - limit) * window = -z
      BY <2>1, <2>2
    <2>4. n + 1 <= 2 * limit
      BY <1>3
    <2> QED
      BY <1>1, <1>2, <2>2, <2>3, <2>4
  <1>4. CASE n > c
    <2>1. n <= c + p
      BY <1>4
    <2>2. PICK a \in Nat : n = a + c /\ a <= p /\ a <= limit
      BY <1>4, <2>1
    <2>3. s <= window /\ s <= x
      BY <1>1, <1>4
    <2>4. (a + c - limit) * window <= limit * x
      BY <2>2, <2>3, EstimateBound
    <2>5. n + 1 <= 2 * limit
      BY <2>2
    <2> QED
      BY <1>1, <2>2, <2>4, <2>5
  <1> QED
    BY <1>3, <1>4

LEMMA CountedPromises ==
  ASSUME cfg \in Configs, ~IsBucket, NEW h \in Seq(Nat), NEW n \in Nat, NEW w \in Nat \ {0},
         NEW c \in Nat, c < Limit, NEW p \in Nat, Counted(w, c, p, h, n),
         NEW us, Reading(us, n), us < w + Window,
         NEW s \in Nat, s = clampDuration(us - w), LetsThrough(s, p, c),
         \A i \in 1..Len(h) : h[i] <= n, NEW g, Longer(g, h, n)
  PROVE  PromisedTo(g, Len(g))
  <1>1. PICK ll \in Nat \ {0}, ww \in Nat \ {0} : ll = Limit /\ ww = Window
    BY Chosen
  <1>2. PICK sk \in Nat, de \in Nat : sk = MaxSkew /\ de = MaxDelay /\ Spread = sk + de
    BY Chosen
  <1>3. us \in Nat /\ us <= n + sk /\ us < w + ww
    BY <1>1, <1>2 DEF Reading
  <1>4. w <= n + sk /\ p <= ll
    BY <1>1, <1>2, CountedIs
  <1>5. s = IF us < w THEN 0 ELSE us - w
    BY <1>3 DEF clampDuration
  <1>6. PICK k \in Nat : k = Len(h) /\ Len(g) = k + 1 /\ g[k + 1] = n
    BY DEF Longer
  <1>7. ASSUME NEW i \in 1..(k + 1), n - g[i] <= Window - Spread
        PROVE  Rolling(k + 1 - i + 1, n - g[i])
    <2>1. PICK v \in Nat : v = g[i] /\ v <= n /\ (i # k + 1 => i \in 1..k /\ v = h[i])
      <3>1. CASE i = k + 1
        BY <1>6, <3>1
      <3>2. CASE i # k + 1
        <4>1. i \in 1..k
          BY <3>2
        <4>2. g[i] = h[i] /\ h[i] \in Nat /\ h[i] <= n
          BY <1>6, <4>1 DEF Longer
        <4> QED
          BY <4>1, <4>2
      <3> QED
        BY <3>1, <3>2
    <2>2. PICK m \in Nat : m = k + 1 - i
      OBVIOUS
    <2>3. PICK e \in Nat : e = n - v
      BY <2>1
    <2>4. e <= ww - (sk + de)
      BY <1>1, <1>2, <1>7, <2>1, <2>3
    <2>5. ASSUME m > c PROVE n - e < w + de
      <3>1. i \in 1..k /\ i <= k - c /\ v = h[i]
        BY <2>1, <2>2, <2>5
      <3>2. h[i] < w + de
        BY <1>2, <1>6, <3>1, CountedIs
      <3> QED
        BY <2>1, <2>3, <3>1, <3>2
    <2>6. ASSUME m > c + p PROVE n - e < w - ww + de
      <3>1. i \in 1..k /\ i <= k - c - p /\ v = h[i]
        BY <2>1, <2>2, <2>6
      <3>2. h[i] < w - ww + de
        BY <1>1, <1>2, <1>6, <3>1, CountedIs
      <3> QED
        BY <2>1, <2>3, <3>1, <3>2
    <2>7. p * (ww - s) + c * ww <= ll * ww
      BY <1>1 DEF LetsThrough
    <2>8. c < ll
      BY <1>1
    <2>9. m + 1 <= 2 * ll /\ (m - ll) * ww <= ll * (e + (sk + de))
      BY <1>3, <1>4, <1>5, <2>4, <2>5, <2>6, <2>7, <2>8, IntervalBound
    <2>10. m + 1 - ll - 1 = m - ll
      OBVIOUS
    <2>11. Rolling(m + 1, e)
      BY <1>1, <1>2, <2>9, <2>10 DEF Rolling
    <2> QED
      BY <2>1, <2>2, <2>3, <2>11
  <1> QED
    BY <1>6, <1>7 DEF PromisedTo

-----------------------------------------------------------------------------
(* The scripts. *)

(* What the script that runs at time n for the keys of the history h       *)
(* leaves, with its grant at the end of the history.                       *)
Decided(x, h, n) ==
    /\ x.keys \in Keys /\ x.allowed \in BOOLEAN /\ x.reset \in Nat /\ x.retryAfter \in Nat
    /\ ~x.allowed => Counts(x.keys, h, n)
    /\ x.allowed => \A g : Longer(g, h, n) => Counts(x.keys, g, n) /\ PromisedTo(g, Len(g))

LEMMA ClampedNat ==
  ASSUME NEW a \in Int
  PROVE  clampDuration(a) \in Nat
  BY DEF clampDuration

LEMMA RefillsNat ==
  ASSUME cfg \in Configs, NEW a \in Int, NEW since \in Int
  PROVE  Refills(a, since) \in Nat
  <1>1. PICK m \in Int : m = MicrosPerToken
    BY Chosen
  <1>2. PICK am \in Int : am = a * m
    OBVIOUS
  <1>3. clampDuration(am - since) \in Nat
    BY <1>2, ClampedNat
  <1> QED
    BY <1>1, <1>2, <1>3 DEF Refills

LEMMA RetryAfterNat ==
  ASSUME cfg \in Configs, NEW since \in Nat, NEW prev \in Nat, NEW curr \in Nat
  PROVE  RetryAfter(since, prev, curr) \in Nat
  <1>1. Limit \in Nat \ {0} /\ Window \in Nat \ {0}
    BY Chosen
  <1>2. PICK u \in Nat : u = UntilBoundary(since)
    BY <1>1 DEF UntilBoundary, clampDuration
  <1>3. CASE curr >= Limit \/ prev = 0
    BY <1>2, <1>3 DEF RetryAfter
  <1>4. CASE ~(curr >= Limit \/ prev = 0)
    <2>1. PICK e \in Int : e = (prev - (Limit - curr)) * Window - since * prev
      BY <1>1
    <2>2. PICK x \in Nat : x = clampDuration(e)
      BY DEF clampDuration
    <2>3. PICK d \in Nat : d = DivideUp(x, prev)
      BY <1>4, DivideUpNat
    <2>4. RetryAfter(since, prev, curr)
            = LET atLeast == IF d = 0 THEN 1 ELSE d IN IF atLeast > u THEN u ELSE atLeast
      BY <1>2, <1>4, <2>1, <2>2, <2>3 DEF RetryAfter
    <2> QED
      BY <1>2, <2>3, <2>4
  <1> QED
    BY <1>3, <1>4

(* What a reading finds of q used units and a level r: q1 and r1. *)
BroughtUp(q, r, us, q1, r1) ==
    IF r = 0 THEN q1 = 0 /\ r1 = us
    ELSE LET y == (us - r) \div MicrosPerToken IN
         IF y > 0 THEN q1 = (IF y > q THEN 0 ELSE q - y) /\ r1 = r + y * MicrosPerToken
         ELSE q1 = q /\ r1 = r

(* What a bucket's script does, in terms of the units that are used: q1 of *)
(* them and the level r1 before the decision.                              *)
BucketRuns(k, us, x, q1, r1) ==
    /\ q1 \in 0..Limit /\ r1 \in Int
    /\ BroughtUp(Used(k), k[2], us, q1, r1)
    /\ x.allowed = (q1 < Limit)
    /\ x.keys[1] \in Nat /\ x.keys[2] = r1 /\ x.keys = <<x.keys[1], x.keys[2], 0>>
    /\ Used(x.keys) = IF x.allowed THEN q1 + 1 ELSE q1
    /\ x.reset = Refills(Used(x.keys), us - r1)
    /\ x.retryAfter = IF x.allowed THEN 0 ELSE clampDuration(MicrosPerToken - (us - r1))

LEMMA BucketDecides ==
  ASSUME cfg \in Configs, IsBucket, NEW k, NEW h \in Seq(Nat), NEW n \in Nat, NEW us, Reading(us, n),
         Level(Used(k), k[2], h, n), NEW x, NEW q1, NEW r1, BucketRuns(k, us, x, q1, r1)
  PROVE  Decided(x, h, n)
  <1>1. PICK m \in Nat : m = MicrosPerToken
    BY Chosen
  <1>2. /\ q1 \in 0..Limit /\ q1 \in Int /\ r1 \in Int /\ us \in Nat
        /\ x.allowed = (q1 < Limit) /\ Used(x.keys) = IF x.allowed THEN q1 + 1 ELSE q1
    BY Chosen DEF BucketRuns, Reading
  <1>3. PICK q \in Nat, r \in Nat : q = Used(k) /\ r = k[2] /\ Level(q, r, h, n)
    BY Chosen, LevelIs
  <1>4. Level(q1, r1, h, n) /\ r1 \in Nat \ {0} /\ us < r1 + MicrosPerToken
    <2>1. BroughtUp(q, r, us, q1, r1)
      BY <1>3 DEF BucketRuns
    <2>2. r = 0 => r1 = us
      BY <2>1 DEF BroughtUp
    <2>3. r # 0 => LET y == (us - r) \div MicrosPerToken IN
                   IF y > 0 THEN q1 >= q - y /\ r1 = r + y * MicrosPerToken
                   ELSE q1 = q /\ r1 = r
      <3> SUFFICES ASSUME r # 0
                   PROVE  LET y == (us - r) \div MicrosPerToken IN
                          IF y > 0 THEN q1 >= q - y /\ r1 = r + y * MicrosPerToken
                          ELSE q1 = q /\ r1 = r
        OBVIOUS
      <3>1. us - r \in Int
        BY <1>2, <1>3
      <3>2. PICK y \in Int : y = (us - r) \div MicrosPerToken
        BY <3>1, Chosen, DivInt
      <3>3. IF y > 0 THEN q1 = (IF y > q THEN 0 ELSE q - y) /\ r1 = r + y * MicrosPerToken
            ELSE q1 = q /\ r1 = r
        BY <2>1, <3>2 DEF BroughtUp
      <3>4. y > 0 => q1 >= q - y
        BY <1>3, <3>2, <3>3
      <3> QED
        BY <3>2, <3>3, <3>4
    <2> QED
      BY <1>2, <1>3, <2>2, <2>3, LevelRead
  <1>5. x.keys \in Keys
    <2>1. PICK a \in Nat, b \in Nat : a = x.keys[1] /\ b = x.keys[2]
      BY <1>4 DEF BucketRuns
    <2>2. x.keys = <<a, b, 0>>
      BY <2>1 DEF BucketRuns
    <2> QED
      BY <2>2 DEF Keys
  <1>6. x.reset \in Nat /\ x.retryAfter \in Nat
    <2>1. PICK s \in Int, u \in Int : s = us - r1 /\ u = Used(x.keys)
      BY <1>2
    <2>2. m - s \in Int
      OBVIOUS
    <2>3. Refills(u, s) \in Nat /\ clampDuration(m - s) \in Nat
      BY <2>1, <2>2, ClampedNat, RefillsNat
    <2> QED
      BY <1>1, <2>1, <2>3 DEF BucketRuns
  <1>7. CASE x.allowed
    <2>1. q1 < Limit /\ Used(x.keys) = q1 + 1 /\ x.keys[2] = r1
      BY <1>2, <1>7 DEF BucketRuns
    <2>2. ASSUME NEW g, Longer(g, h, n) PROVE Counts(x.keys, g, n) /\ PromisedTo(g, Len(g))
      <3>1. Level(q1 + 1, r1, g, n)
        BY <1>4, <2>1, <2>2, LevelGrants
      <3>2. PromisedTo(g, Len(g))
        BY <1>4, <2>1, <2>2, LevelPromises
      <3> QED
        BY <2>1, <3>1, <3>2 DEF Counts
    <2> QED
      BY <1>2, <1>5, <1>6, <1>7, <2>2 DEF Decided
  <1>8. CASE ~x.allowed
    <2>1. Counts(x.keys, h, n)
      BY <1>2, <1>4, <1>8 DEF Counts, BucketRuns
    <2> QED
      BY <1>2, <1>5, <1>6, <1>8, <2>1 DEF Decided
  <1> QED
    BY <1>7, <1>8

(* token_bucket.lua *)
LEMMA TokenBucketRuns ==
  ASSUME cfg \in Configs, Strategy = "token_bucket", NEW k \in Keys, Used(k) \in 0..Limit,
         NEW us \in Nat, NEW x \in TokenBucketScript(k, us)
  PROVE  \E q1, r1 : BucketRuns(k, us, x, q1, r1)
  <1>1. PICK l \in Nat \ {0}, m \in Nat \ {0} : l = Limit /\ m = MicrosPerToken
    BY Chosen
  <1>2. PICK k1 \in Nat, k2 \in Nat, k3 \in Nat : k = <<k1, k2, k3>>
    BY DEF Keys
  <1>3. PICK q \in 0..l : q = Used(k) /\ q = l - k1
    BY <1>1, <1>2 DEF Used
  <1>4. PICK y \in Int : y = (us - k2) \div m
    <2>1. us - k2 \in Int
      OBVIOUS
    <2> QED
      BY <2>1, DivInt
  <1>5. PICK b1 \in 0..l, b2 \in Int :
           /\ Refilled(k, us) = <<b1, b2>>
           /\ k2 = 0 => b1 = l /\ b2 = us
           /\ k2 # 0 => IF y > 0 THEN b1 = (IF k1 + y < l THEN k1 + y ELSE l) /\ b2 = k2 + y * m
                        ELSE b1 = k1 /\ b2 = k2
    <2>1. CASE k2 = 0
      <3>1. Refilled(k, us) = <<l, us>>
        BY <1>1, <1>2, <2>1 DEF Refilled
      <3> QED
        BY <2>1, <3>1
    <2>2. CASE k2 # 0 /\ y > 0
      <3>1. PICK b \in 0..l : b = IF k1 + y < l THEN k1 + y ELSE l
        BY <2>2
      <3>2. PICK c \in Int : c = k2 + y * m
        OBVIOUS
      <3>3. Refilled(k, us) = <<b, c>>
        BY <1>1, <1>2, <1>4, <2>2, <3>1, <3>2 DEF Refilled, Smaller
      <3> QED
        BY <2>2, <3>1, <3>2, <3>3
    <2>3. CASE k2 # 0 /\ ~(y > 0)
      <3>1. Refilled(k, us) = <<k1, k2>>
        BY <1>1, <1>2, <1>4, <2>3 DEF Refilled
      <3>2. k1 \in 0..l
        BY <1>3
      <3> QED
        BY <2>3, <3>1, <3>2
    <2> QED
      BY <2>1, <2>2, <2>3
  <1>6. PICK q1 \in 0..l : q1 = l - b1
    OBVIOUS
  <1>7. BroughtUp(q, k2, us, q1, b2)
    <2>1. k2 = 0 => q1 = 0 /\ b2 = us
      BY <1>5, <1>6
    <2>2. k2 # 0 /\ y > 0 => q1 = (IF y > q THEN 0 ELSE q - y) /\ b2 = k2 + y * m
      BY <1>3, <1>5, <1>6
    <2>3. k2 # 0 /\ ~(y > 0) => q1 = q /\ b2 = k2
      BY <1>3, <1>5, <1>6
    <2> QED
      BY <1>1, <1>4, <2>1, <2>2, <2>3 DEF BroughtUp
  <1>8. PICK s \in Int : s = us - b2
    OBVIOUS
  <1>9. PICK t \in Nat : t = IF b1 > 0 THEN b1 - 1 ELSE b1
    OBVIOUS
  <1>10. x = [keys |-> <<t, b2, 0>>, allowed |-> b1 > 0, reset |-> Refills(l - t, s),
              retryAfter |-> IF b1 > 0 THEN 0 ELSE clampDuration(m - s)]
    BY <1>1, <1>5, <1>8, <1>9 DEF TokenBucketScript
  <1>11. x.keys = <<t, b2, 0>> /\ x.allowed = (b1 > 0) /\ x.reset = Refills(l - t, s)
    BY <1>10
  <1>12. Used(x.keys) = l - t
    BY <1>1, <1>11 DEF Used
  <1>13. x.allowed = (q1 < Limit)
    BY <1>1, <1>6, <1>11
  <1>14. Used(x.keys) = IF x.allowed THEN q1 + 1 ELSE q1
    <2>1. l - t = IF b1 > 0 THEN q1 + 1 ELSE q1
      BY <1>6, <1>9
    <2> QED
      BY <1>11, <1>12, <2>1
  <1>15. /\ x.reset = Refills(Used(x.keys), us - b2)
         /\ x.retryAfter = IF x.allowed THEN 0 ELSE clampDuration(MicrosPerToken - (us - b2))
    BY <1>1, <1>8, <1>10, <1>11, <1>12
  <1>16. BroughtUp(Used(k), k[2], us, q1, b2)
    BY <1>2, <1>3, <1>7
  <1> QED
    BY <1>1, <1>11, <1>13, <1>14, <1>15, <1>16 DEF BucketRuns

(* leaky_bucket.lua *)
LEMMA LeakyBucketRuns ==
  ASSUME cfg \in Configs, Strategy = "leaky_bucket", NEW k \in Keys, Used(k) \in 0..Limit,
         NEW us \in Nat, NEW x \in LeakyBucketScript(k, us)
  PROVE  \E q1, r1 : BucketRuns(k, us, x, q1, r1)
  <1>1. PICK l \in Nat \ {0}, m \in Nat \ {0} : l = Limit /\ m = MicrosPerToken
    BY Chosen
  <1>2. PICK k1 \in Nat, k2 \in Nat, k3 \in Nat : k = <<k1, k2, k3>>
    BY DEF Keys
  <1>3. k1 = Used(k) /\ k1 \in 0..l
    BY <1>1, <1>2 DEF Used
  <1>4. PICK y \in Int : y = (us - k2) \div m
    <2>1. us - k2 \in Int
      OBVIOUS
    <2> QED
      BY <2>1, DivInt
  <1>5. PICK b1 \in 0..l, b2 \in Int : Leaked(k, us) = <<b1, b2>> /\ BroughtUp(k1, k2, us, b1, b2)
    <2>1. CASE k2 = 0
      <3>1. Leaked(k, us) = <<0, us>>
        BY <1>1, <1>2, <2>1 DEF Leaked
      <3> QED
        BY <2>1, <3>1 DEF BroughtUp
    <2>2. CASE k2 # 0 /\ y > 0
      <3>1. PICK b \in 0..l : b = IF y > k1 THEN 0 ELSE k1 - y
        <4>1. CASE y > k1
          BY <4>1
        <4>2. CASE ~(y > k1)
          <5>1. k1 - y \in 0..l
            BY <1>3, <2>2, <4>2
          <5> QED
            BY <4>2, <5>1
        <4> QED
          BY <4>1, <4>2
      <3>2. PICK c \in Int : c = k2 + y * m
        OBVIOUS
      <3>3. Leaked(k, us) = <<b, c>>
        BY <1>1, <1>2, <1>4, <2>2, <3>1, <3>2 DEF Leaked
      <3>4. BroughtUp(k1, k2, us, b, c)
        BY <1>1, <1>4, <2>2, <3>1, <3>2 DEF BroughtUp
      <3> QED
        BY <3>3, <3>4
    <2>3. CASE k2 # 0 /\ ~(y > 0)
      <3>1. Leaked(k, us) = <<k1, k2>>
        BY <1>1, <1>2, <1>4, <2>3 DEF Leaked
      <3>2. BroughtUp(k1, k2, us, k1, k2)
        BY <1>1, <1>4, <2>3 DEF BroughtUp
      <3> QED
        BY <1>3, <3>1, <3>2
    <2> QED
      BY <2>1, <2>2, <2>3
  <1>6. PICK s \in Int : s = us - b2
    OBVIOUS
  <1>7. PICK t \in Nat : t = IF b1 < l THEN b1 + 1 ELSE b1
    OBVIOUS
  <1>8. x = [keys |-> <<t, b2, 0>>, allowed |-> b1 < l, reset |-> Refills(t, s),
             retryAfter |-> IF b1 < l THEN 0 ELSE clampDuration(m - s)]
    BY <1>1, <1>5, <1>6, <1>7 DEF LeakyBucketScript
  <1>9. x.keys = <<t, b2, 0>> /\ x.allowed = (b1 < l) /\ x.reset = Refills(t, s)
    BY <1>8
  <1>10. Used(x.keys) = t
    BY <1>9 DEF Used
  <1>11. Used(x.keys) = IF x.allowed THEN b1 + 1 ELSE b1
    BY <1>7, <1>9, <1>10
  <1>12. /\ x.reset = Refills(Used(x.keys), us - b2)
         /\ x.retryAfter = IF x.allowed THEN 0 ELSE clampDuration(MicrosPerToken - (us - b2))
    BY <1>1, <1>6, <1>8, <1>9, <1>10
  <1>13. BroughtUp(Used(k), k[2], us, b1, b2)
    BY <1>2, <1>3, <1>5
  <1> QED
    BY <1>1, <1>9, <1>11, <1>12, <1>13 DEF BucketRuns

LEMMA BucketScriptRuns ==
  ASSUME cfg \in Configs, IsBucket, NEW k \in Keys, Used(k) \in 0..Limit,
         NEW us \in Nat, NEW x \in Script(k, us)
  PROVE  \E q1, r1 : BucketRuns(k, us, x, q1, r1)
  <1>1. CASE Strategy = "token_bucket"
    BY <1>1, TokenBucketRuns DEF Script
  <1>2. CASE Strategy = "leaky_bucket"
    BY <1>2, LeakyBucketRuns DEF Script
  <1> QED
    BY <1>1, <1>2, Chosen DEF IsBucket

(* What the sliding window's script does: it finds the counts c and p of   *)
(* the window that starts at w and of the one before it, a time s after w. *)
SlidingRuns(k, us, x, w, c, p, s) ==
    /\ w \in Nat \ {0} /\ c \in 0..Limit /\ p \in 0..Limit
    /\ Rotated(k, us) = <<w, c, p>> /\ us < w + Window
    /\ s \in Nat /\ s < Window /\ s = clampDuration(us - w)
    /\ x.allowed \in Outcomes(s, p, c)
    /\ x.keys = <<w, IF x.allowed THEN c + 1 ELSE c, p>>
    /\ x.reset = IF (IF x.allowed THEN c + 1 ELSE c) > 0 THEN clampDuration(2 * Window - s)
                 ELSE IF p > 0 THEN UntilBoundary(s) ELSE 0
    /\ x.retryAfter = IF x.allowed THEN 0 ELSE RetryAfter(s, p, c)

(* sliding_window.lua *)
LEMMA SlidingWindowRuns ==
  ASSUME cfg \in Configs, ~IsBucket, NEW k \in Keys, NEW h \in Seq(Nat), NEW n \in Nat,
         Counts(k, h, n), NEW us, Reading(us, n), NEW x \in SlidingWindowScript(k, us)
  PROVE  \E w, c, p, s : SlidingRuns(k, us, x, w, c, p, s) /\ Counted(w, c, p, h, n)
  <1>1. us \in Nat /\ Window \in Nat \ {0}
    BY Chosen DEF Reading
  <1>2. PICK k1 \in Nat, k2 \in Nat, k3 \in Nat : k = <<k1, k2, k3>>
    BY DEF Keys
  <1>3. Counted(k1, k2, k3, h, n)
    BY <1>2 DEF Counts
  <1>4. PICK w \in Nat \ {0}, c \in 0..Limit, p \in 0..Limit :
           Rotated(k, us) = <<w, c, p>> /\ Counted(w, c, p, h, n) /\ us < w + Window
    BY <1>2, <1>3, CountedRead
  <1>5. PICK s \in Nat : s = clampDuration(us - w) /\ s < Window
    <2>1. PICK y \in Int : y = us - w
      BY <1>1
    <2>2. y < Window
      BY <1>1, <1>4, <2>1
    <2>3. clampDuration(y) \in Nat /\ clampDuration(y) < Window
      BY <1>1, <2>2 DEF clampDuration
    <2> QED
      BY <2>1, <2>3
  <1>6. PICK a \in Outcomes(s, p, c) :
           x = [keys |-> <<w, IF a THEN c + 1 ELSE c, p>>, allowed |-> a,
                reset |-> IF (IF a THEN c + 1 ELSE c) > 0 THEN clampDuration(2 * Window - s)
                          ELSE IF p > 0 THEN UntilBoundary(s) ELSE 0,
                retryAfter |-> IF a THEN 0 ELSE RetryAfter(s, p, c)]
    BY <1>4, <1>5 DEF SlidingWindowScript
  <1>7. SlidingRuns(k, us, x, w, c, p, s)
    BY <1>4, <1>5, <1>6 DEF SlidingRuns
  <1> QED
    BY <1>4, <1>7

LEMMA SlidingWindowDecides ==
  ASSUME cfg \in Configs, ~IsBucket, NEW k \in Keys, NEW h \in Seq(Nat), NEW n \in Nat,
         \A i \in 1..Len(h) : h[i] <= n,
         Counts(k, h, n), NEW us, Reading(us, n), NEW x \in SlidingWindowScript(k, us)
  PROVE  Decided(x, h, n)
  <1>1. us \in Nat /\ Window \in Nat \ {0} /\ Limit \in Nat
    BY Chosen DEF Reading
  <1>2. PICK w, c, p, s : SlidingRuns(k, us, x, w, c, p, s) /\ Counted(w, c, p, h, n)
    BY SlidingWindowRuns
  <1>3. /\ w \in Nat \ {0} /\ c \in Nat /\ p \in Nat /\ us < w + Window
        /\ s \in Nat /\ s < Window /\ s = clampDuration(us - w)
        /\ x.allowed \in Outcomes(s, p, c)
        /\ x.keys = <<w, IF x.allowed THEN c + 1 ELSE c, p>>
    BY <1>1, <1>2 DEF SlidingRuns
  <1>4. x.allowed \in BOOLEAN
    BY <1>3 DEF Outcomes
  <1>5. x.reset \in Nat /\ x.retryAfter \in Nat
    <2>1. 2 * Window - s \in Int /\ Window - s \in Int
      BY <1>1, <1>3
    <2>2. clampDuration(2 * Window - s) \in Nat /\ UntilBoundary(s) \in Nat
      BY <2>1, ClampedNat DEF UntilBoundary
    <2>3. RetryAfter(s, p, c) \in Nat
      BY <1>3, RetryAfterNat
    <2> QED
      BY <1>2, <2>2, <2>3 DEF SlidingRuns
  <1>6. x.keys \in Keys
    BY <1>3 DEF Keys
  <1>7. CASE x.allowed
    <2>1. LetsThrough(s, p, c) /\ c < Limit
      BY <1>3, <1>7, AllowedBelow
    <2>2. ASSUME NEW g, Longer(g, h, n) PROVE Counts(x.keys, g, n) /\ PromisedTo(g, Len(g))
      <3>1. Counted(w, c + 1, p, g, n)
        BY <1>2, <1>3, <2>1, <2>2, CountedGrants
      <3>2. PromisedTo(g, Len(g))
        BY <1>2, <1>3, <2>1, <2>2, CountedPromises
      <3> QED
        BY <1>3, <1>7, <3>1, <3>2 DEF Counts
    <2> QED
      BY <1>4, <1>5, <1>6, <1>7, <2>2 DEF Decided
  <1>8. CASE ~x.allowed
    <2>1. Counts(x.keys, h, n)
      BY <1>2, <1>3, <1>8 DEF Counts
    <2> QED
      BY <1>4, <1>5, <1>6, <1>8, <2>1 DEF Decided
  <1> QED
    BY <1>4, <1>7, <1>8

LEMMA ScriptDecides ==
  ASSUME cfg \in Configs, NEW k \in Keys, NEW h \in Seq(Nat), NEW n \in Nat,
         \A i \in 1..Len(h) : h[i] <= n,
         Counts(k, h, n), NEW us, Reading(us, n), NEW x \in Script(k, us)
  PROVE  Decided(x, h, n)
  <1>1. CASE IsBucket
    <2>1. Level(Used(k), k[2], h, n) /\ us \in Nat
      BY <1>1 DEF Counts, Reading
    <2>2. Used(k) \in 0..Limit
      BY <2>1, LevelIs
    <2>3. PICK q1, r1 : BucketRuns(k, us, x, q1, r1)
      BY <1>1, <2>1, <2>2, BucketScriptRuns
    <2> QED
      BY <1>1, <2>1, <2>3, BucketDecides
  <1>2. CASE ~IsBucket
    BY <1>2, SlidingWindowDecides DEF Script, IsBucket
  <1> QED
    BY <1>1, <1>2

-----------------------------------------------------------------------------
(* What depends on the configuration only, which never changes. *)
LEMMA SameConfiguration ==
  ASSUME UNCHANGED cfg
  PROVE  /\ Limit' = Limit /\ Window' = Window /\ MaxSkew' = MaxSkew /\ MaxDelay' = MaxDelay
         /\ MaxResends' = MaxResends /\ Spread' = Spread /\ MicrosPerToken' = MicrosPerToken
         /\ Strategy' = Strategy /\ (IsBucket' <=> IsBucket) /\ Lifetime' = Lifetime
  <1>1. /\ Limit' = Limit /\ Window' = Window /\ MaxSkew' = MaxSkew /\ MaxDelay' = MaxDelay
        /\ MaxResends' = MaxResends /\ Strategy' = Strategy
    BY DEF Limit, Window, MaxSkew, MaxDelay, MaxResends, Strategy
  <1>2. Spread' = Spread /\ MicrosPerToken' = MicrosPerToken /\ (IsBucket' <=> IsBucket)
    BY <1>1 DEF Spread, MicrosPerToken, IsBucket
  <1>3. TtlMs' = TtlMs
    BY <1>1 DEF TtlMs, Milliseconds
  <1>4. Lifetime' = Lifetime
    BY <1>3 DEF Lifetime
  <1> QED
    BY <1>1, <1>2, <1>4

LEMMA SameUnderway ==
  ASSUME UNCHANGED cfg, NEW r, NEW n
  PROVE  Underway(r, n)' <=> Underway(r, n)
  BY SameConfiguration DEF Underway

LEMMA SameStore ==
  ASSUME UNCHANGED cfg, NEW k, NEW e, NEW g, NEW n
  PROVE  StoreOK(k, e, g, n)' <=> StoreOK(k, e, g, n)
  <1>1. \A q, r : Level(q, r, g, n)' <=> Level(q, r, g, n)
    BY SameConfiguration DEF Level
  <1>2. \A w, c, p : Counted(w, c, p, g, n)' <=> Counted(w, c, p, g, n)
    BY SameConfiguration DEF Counted
  <1>3. Used(k)' = Used(k)
    BY SameConfiguration DEF Used
  <1>4. Counts(k, g, n)' <=> Counts(k, g, n)
    BY <1>1, <1>2, <1>3, SameConfiguration DEF Counts
  <1>5. \A m, d : (Rate(m, d)' <=> Rate(m, d)) /\ (Rolling(m, d)' <=> Rolling(m, d))
    BY SameConfiguration DEF Rate, Rolling
  <1>6. Promised(g)' <=> Promised(g)
    BY <1>5, SameConfiguration DEF Promised
  <1> QED
    BY <1>4, <1>6, SameConfiguration DEF StoreOK, Keys

-----------------------------------------------------------------------------
(* The keys. *)

(* What GET finds counts what the keys count: an expired key counts grants *)
(* that are a life of the keys ago.                                        *)
LEMMA FoundCounts ==
  ASSUME IInv
  PROVE  Current \in Keys /\ Counts(Current, grants, now)
  <1>1. PICK k, e, g, n : k = keys /\ e = expiresAt /\ g = grants /\ n = now
    OBVIOUS
  <1>2. cfg \in Configs /\ n \in Nat /\ StoreOK(k, e, g, n)
    BY <1>1 DEF IInv, TypeOK
  <1>3. /\ k \in Keys /\ e \in Nat /\ g \in Seq(Nat) /\ Counts(k, g, n)
        /\ \A i \in 1..Len(g) : g[i] <= n /\ g[i] + Lifetime <= e
    BY <1>2 DEF StoreOK
  <1>4. CASE e >= n
    BY <1>1, <1>3, <1>4 DEF Current
  <1>5. CASE ~(e >= n)
    <2>1. Current = <<0, 0, 0>>
      BY <1>1, <1>5 DEF Current, Absent
    <2>2. \A i \in 1..Len(g) : n - g[i] > Lifetime /\ ~(n - g[i] <= Lifetime)
      <3> SUFFICES ASSUME NEW i \in 1..Len(g) PROVE n - g[i] > Lifetime /\ ~(n - g[i] <= Lifetime)
        OBVIOUS
      <3>1. g[i] \in Nat /\ Lifetime \in Nat
        BY <1>2, <1>3, Chosen, ElementOfSeq
      <3>2. g[i] + Lifetime <= e
        BY <1>3
      <3> QED
        BY <1>2, <1>3, <1>5, <3>1, <3>2
    <2>3. Limit \in Nat /\ MaxSkew \in Nat /\ Len(g) \in Nat
      BY <1>2, <1>3, Chosen, LenProperties
    <2>4. PICK q \in 0..Limit : q = Used(<<0, 0, 0>>)
      BY <2>3 DEF Used
    <2>5. Level(q, 0, g, n)
      BY <1>2, <2>2, <2>3, LevelIs
    <2>6. Counted(0, 0, 0, g, n)
      BY <1>2, <2>2, <2>3, CountedIs
    <2>7. Counts(<<0, 0, 0>>, g, n)
      BY <2>4, <2>5, <2>6 DEF Counts
    <2> QED
      BY <1>1, <2>1, <2>7 DEF Keys
  <1> QED
    BY <1>4, <1>5

(* A script that runs on a reading keeps the invariant of the keys. *)
LEMMA ScriptRuns ==
  ASSUME IInv, NEW us, Reading(us, now), NEW x \in Script(Current, us), Run(us, x), UNCHANGED <<cfg, now>>
  PROVE  /\ StoreOK(keys, expiresAt, grants, now)'
         /\ x.allowed \in BOOLEAN
         /\ last' \in [allowed : BOOLEAN, us : Nat, retryAt : Nat, resetAt : Nat]
  <1>1. PICK n \in Nat, h \in {grants} : n = now /\ h = grants
    BY DEF IInv, TypeOK
  <1>2. PICK k, e, g : k = keys' /\ e = expiresAt' /\ g = grants'
    OBVIOUS
  <1>3. cfg \in Configs /\ h \in Seq(Nat) /\ Promised(h)
        /\ \A i \in 1..Len(h) : h[i] <= n /\ h[i] + Lifetime <= expiresAt
    BY <1>1 DEF IInv, TypeOK, StoreOK
  <1>4. Decided(x, h, n)
    BY <1>1, <1>3, FoundCounts, ScriptDecides
  <1>5. k = x.keys /\ e = ExpiryOf(n) /\ g = IF x.allowed THEN Append(h, n) ELSE h
    BY <1>1, <1>2 DEF Run
  <1>6. k \in Keys /\ x.allowed \in BOOLEAN /\ x.reset \in Nat /\ x.retryAfter \in Nat
    BY <1>4, <1>5 DEF Decided
  <1>7. e \in Nat /\ n + Lifetime <= e /\ Lifetime \in Nat
    BY <1>3, <1>5, Chosen, ExpiryLater
  <1>8. \A i \in 1..Len(h) : h[i] <= n /\ h[i] + Lifetime <= e
    <2> SUFFICES ASSUME NEW i \in 1..Len(h) PROVE h[i] <= n /\ h[i] + Lifetime <= e
      OBVIOUS
    <2>1. h[i] \in Nat /\ h[i] <= n
      BY <1>3, ElementOfSeq
    <2> QED
      BY <1>7, <2>1
  <1>9. StoreOK(k, e, g, n)
    <2>1. CASE x.allowed
      <3>1. g = Append(h, n)
        BY <1>5, <2>1
      <3>2. Longer(Append(h, n), h, n)
        BY <1>3, AppendLonger
      <3>3. Longer(g, h, n)
        BY <3>1, <3>2
      <3>4. Counts(k, g, n) /\ PromisedTo(g, Len(g))
        BY <1>4, <1>5, <2>1, <3>3 DEF Decided
      <3>5. Promised(g)
        BY <1>3, <3>3, <3>4, PromisedLonger
      <3>6. g \in Seq(Nat) /\ Len(g) = Len(h) + 1 /\ Len(h) \in Nat /\ g[Len(g)] = n
        BY <3>3 DEF Longer
      <3>7. ASSUME NEW i \in 1..Len(g) PROVE g[i] <= n /\ g[i] + Lifetime <= e
        <4>1. CASE i = Len(g)
          BY <1>7, <3>6, <4>1
        <4>2. CASE i # Len(g)
          <5>1. i \in 1..Len(h)
            BY <3>6, <4>2
          <5>2. g[i] = h[i]
            BY <3>3, <5>1 DEF Longer
          <5> QED
            BY <1>8, <5>1, <5>2
        <4> QED
          BY <4>1, <4>2
      <3> QED
        BY <1>6, <1>7, <3>4, <3>5, <3>6, <3>7 DEF StoreOK
    <2>2. CASE ~x.allowed
      <3>1. g = h
        BY <1>5, <2>2
      <3>2. Counts(k, h, n)
        BY <1>4, <1>5, <2>2 DEF Decided
      <3>3. StoreOK(k, e, h, n)
        BY <1>3, <1>6, <1>7, <1>8, <3>2 DEF StoreOK
      <3> QED
        BY <3>1, <3>3
    <2> QED
      BY <1>6, <2>1, <2>2
  <1>10. StoreOK(k, e, g, n)'
    BY <1>9, SameStore
  <1>11. StoreOK(keys, expiresAt, grants, now)'
    BY <1>1, <1>2, <1>10
  <1>12. last' \in [allowed : BOOLEAN, us : Nat, retryAt : Nat, resetAt : Nat]
    <2>1. us \in Nat
      BY DEF Reading
    <2>2. last.retryAt \in Nat
      BY DEF IInv, TypeOK
    <2>3. us + x.reset \in Nat /\ us + x.retryAfter \in Nat
      BY <1>6, <2>1
    <2>4. RetryAt(us + x.retryAfter) \in Nat
      BY <2>2, <2>3 DEF RetryAt
    <2> QED
      BY <1>6, <2>1, <2>3, <2>4 DEF Run
  <1> QED
    BY <1>6, <1>11, <1>12

LEMMA StoreStays ==
  ASSUME IInv, UNCHANGED <<cfg, now, keys, expiresAt, grants>>
  PROVE  StoreOK(keys, expiresAt, grants, now)'
  <1>1. PICK k, e, g, n : k = keys /\ e = expiresAt /\ g = grants /\ n = now
    OBVIOUS
  <1>2. StoreOK(k, e, g, n)
    BY <1>1 DEF IInv
  <1>3. StoreOK(k, e, g, n)'
    BY <1>2, SameStore
  <1> QED
    BY <1>1, <1>3

(* Later, the keys account for what they did. *)
LEMMA StoreLater ==
  ASSUME cfg \in Configs, NEW k, NEW e, NEW g, NEW n \in Nat, NEW m \in Nat, n <= m,
         StoreOK(k, e, g, n)
  PROVE  StoreOK(k, e, g, m)
  <1>1. /\ k \in Keys /\ e \in Nat /\ g \in Seq(Nat) /\ Counts(k, g, n) /\ Promised(g)
        /\ \A i \in 1..Len(g) : g[i] <= n /\ g[i] + Lifetime <= e
    BY DEF StoreOK
  <1>2. MaxSkew \in Nat /\ Lifetime \in Nat
    BY Chosen
  <1>3. \A i \in 1..Len(g) : /\ g[i] <= m
                             /\ n - g[i] > Lifetime => m - g[i] > Lifetime
                             /\ m - g[i] <= Lifetime => n - g[i] <= Lifetime
    <2> SUFFICES ASSUME NEW i \in 1..Len(g)
                 PROVE  /\ g[i] <= m
                        /\ n - g[i] > Lifetime => m - g[i] > Lifetime
                        /\ m - g[i] <= Lifetime => n - g[i] <= Lifetime
      OBVIOUS
    <2>1. g[i] \in Nat /\ g[i] <= n
      BY <1>1, ElementOfSeq
    <2> QED
      BY <1>2, <2>1
  <1>4. Counts(k, g, m)
    <2>1. CASE IsBucket
      <3>1. Level(Used(k), k[2], g, n)
        BY <1>1, <2>1 DEF Counts
      <3>2. PICK r \in Nat : r = k[2] /\ r <= n + MaxSkew
        BY <3>1, LevelIs
      <3>3. r <= m + MaxSkew
        BY <1>2, <3>2
      <3>4. /\ Used(k) \in 0..Limit
            /\ r = 0 => \A i \in 1..Len(g) : n - g[i] > Lifetime
            /\ \A i \in 1..Len(g) : n - g[i] <= Lifetime => Unpaid(Len(g) - i + 1, Used(k), r, g[i])
        BY <3>1, <3>2, LevelIs
      <3>5. /\ r = 0 => \A i \in 1..Len(g) : m - g[i] > Lifetime
            /\ \A i \in 1..Len(g) :
                  m - g[i] <= Lifetime => Unpaid(Len(g) - i + 1, Used(k), r, g[i])
        <4> SUFFICES ASSUME NEW i \in 1..Len(g)
                     PROVE  /\ r = 0 => m - g[i] > Lifetime
                            /\ m - g[i] <= Lifetime => Unpaid(Len(g) - i + 1, Used(k), r, g[i])
          OBVIOUS
        <4>1. /\ n - g[i] > Lifetime => m - g[i] > Lifetime
              /\ m - g[i] <= Lifetime => n - g[i] <= Lifetime
          BY <1>3
        <4>2. /\ r = 0 => n - g[i] > Lifetime
              /\ n - g[i] <= Lifetime => Unpaid(Len(g) - i + 1, Used(k), r, g[i])
          BY <3>4
        <4> QED
          BY <4>1, <4>2
      <3>6. Level(Used(k), r, g, m)
        BY <3>2, <3>3, <3>4, <3>5, LevelIs
      <3> QED
        BY <2>1, <3>2, <3>6 DEF Counts
    <2>2. CASE ~IsBucket
      <3>1. Counted(k[1], k[2], k[3], g, n)
        BY <1>1, <2>2 DEF Counts
      <3>2. PICK r \in Nat : r = k[1] /\ r <= n + MaxSkew
        BY <3>1, CountedIs
      <3>3. r <= m + MaxSkew
        BY <1>2, <3>2
      <3>4. PICK c, p : c = k[2] /\ p = k[3]
        OBVIOUS
      <3>5. Counted(r, c, p, g, n)
        BY <3>1, <3>2, <3>4
      <3>6. r = 0 => \A i \in 1..Len(g) : m - g[i] > Lifetime
        <4> SUFFICES ASSUME NEW i \in 1..Len(g), r = 0 PROVE m - g[i] > Lifetime
          OBVIOUS
        <4>1. n - g[i] > Lifetime => m - g[i] > Lifetime
          BY <1>3
        <4>2. n - g[i] > Lifetime
          BY <3>5 DEF Counted
        <4> QED
          BY <4>1, <4>2
      <3>7. Counted(r, c, p, g, m)
        BY <3>2, <3>3, <3>5, <3>6 DEF Counted
      <3> QED
        BY <2>2, <3>2, <3>4, <3>7 DEF Counts
    <2> QED
      BY <2>1, <2>2
  <1> QED
    BY <1>1, <1>3, <1>4 DEF StoreOK

-----------------------------------------------------------------------------
(* The requests. *)

Requests == [us : Nat, sentAt : Nat, call : Nat, resends : 0..MaxResends, allowed : BOOLEAN]

(* The invariant of the requests and of what has been sent twice. *)
RequestsOK ==
    /\ pc \in [Instances -> {"idle", "sent", "replied"}]
    /\ request \in [Instances -> Requests]
    /\ strays \subseteq Stray
    /\ \A i \in Instances : pc[i] = "sent" => Underway(request[i], now)
    /\ \A r \in strays : Underway(r, now)

LEMMA RequestsFacts ==
  ASSUME IInv
  PROVE  RequestsOK
  BY DEF IInv, TypeOK, RequestsOK, Requests

(* The reading of a request under way. *)
LEMMA UnderwayReading ==
  ASSUME cfg \in Configs, NEW r, NEW n \in Nat, Underway(r, n)
  PROVE  Reading(r.us, n)
  BY Chosen DEF Underway, Reading

(* A call moves to p with the request r; what may still run of it is f. *)
LEMMA RequestMoves ==
  ASSUME RequestsOK, UNCHANGED <<cfg, now>>, NEW i \in Instances,
         NEW p \in {"idle", "sent", "replied"}, NEW r \in Requests,
         pc' = [pc EXCEPT ![i] = p], request' = [request EXCEPT ![i] = r],
         p = "sent" => Underway(r, now),
         strays' \subseteq Stray, \A f \in strays' : Underway(f, now)
  PROVE  RequestsOK'
  <1>1. PICK n : n = now
    OBVIOUS
  <1>2. Requests' = Requests
    BY SameConfiguration DEF Requests
  <1>3. ASSUME NEW j \in Instances, pc'[j] = "sent" PROVE Underway(request[j], now)'
    <2>1. PICK f : f = request'[j]
      OBVIOUS
    <2>2. Underway(f, n)
      <3>1. CASE j = i
        BY <1>1, <1>3, <2>1, <3>1 DEF RequestsOK
      <3>2. CASE j # i
        BY <1>1, <1>3, <2>1, <3>2 DEF RequestsOK
      <3> QED
        BY <3>1, <3>2
    <2>3. Underway(f, n)'
      BY <2>2, SameUnderway
    <2> QED
      BY <1>1, <2>1, <2>3
  <1>4. ASSUME NEW f \in strays' PROVE Underway(f, now)'
    <2>1. Underway(f, n)
      BY <1>1, <1>4
    <2>2. Underway(f, n)'
      BY <2>1, SameUnderway
    <2> QED
      BY <1>1, <2>2
  <1>5. pc' \in [Instances -> {"idle", "sent", "replied"}] /\ request' \in [Instances -> Requests]
    BY DEF RequestsOK
  <1> QED
    BY <1>2, <1>3, <1>4, <1>5 DEF RequestsOK

(* What is left of the invariant once the keys and the requests are right. *)
LEMMA Rest ==
  ASSUME IInv, cfg' = cfg, now' \in Nat \ {0}, UNCHANGED skew,
         RequestsOK', StoreOK(keys, expiresAt, grants, now)',
         calls' \in Nat, metrics' \in [allow : Nat, deny : Nat],
         last' \in [allowed : BOOLEAN, us : Nat, retryAt : Nat, resetAt : Nat]
  PROVE  IInv'
  <1>1. cfg' \in Configs /\ skew' \in [Instances -> 0..MaxSkew']
    BY SameConfiguration DEF IInv, TypeOK
  <1>2. keys' \in Nat \X Nat \X Nat /\ expiresAt' \in Nat /\ grants' \in Seq(Nat)
    BY DEF StoreOK, Keys
  <1>3. TypeOK'
    BY <1>1, <1>2 DEF RequestsOK, Requests, TypeOK
  <1> QED
    BY <1>3 DEF RequestsOK, IInv

LEMMA IdleIs ==
  ASSUME cfg \in Configs
  PROVE  Idle \in Requests
  BY Chosen DEF Idle, Requests

-----------------------------------------------------------------------------
(* The actions. *)

LEMMA Initially == Init => IInv
  <1> SUFFICES ASSUME Init PROVE IInv
    OBVIOUS
  <1>1. cfg \in Configs /\ Milli \in Nat \ {0} /\ MaxSkew \in Nat /\ Limit \in Nat
    BY Chosen DEF Init
  <1>2. TypeOK
    <2>1. request \in [Instances -> [us : Nat, sentAt : Nat, call : Nat, resends : 0..MaxResends,
                                     allowed : BOOLEAN]]
      BY <1>1, IdleIs DEF Init, Requests
    <2>2. grants \in Seq(Nat) /\ metrics \in [allow : Nat, deny : Nat]
      BY DEF Init
    <2>3. last \in [allowed : BOOLEAN, us : Nat, retryAt : Nat, resetAt : Nat]
      BY DEF Init, NoDecision
    <2>4. keys \in Nat \X Nat \X Nat
      BY DEF Init, Absent
    <2> QED
      BY <1>1, <2>1, <2>2, <2>3, <2>4 DEF Init, TypeOK
  <1>3. StoreOK(keys, expiresAt, grants, now)
    <2>1. PICK n \in Nat : n = now
      BY <1>1 DEF Init
    <2>2. keys = <<0, 0, 0>> /\ expiresAt = 0 /\ grants = << >> /\ Len(grants) = 0
      BY DEF Init, Absent
    <2>3. PICK q \in 0..Limit : q = Used(<<0, 0, 0>>)
      BY <1>1 DEF Used
    <2>4. Level(q, 0, grants, n) /\ Counted(0, 0, 0, grants, n)
      BY <1>1, <2>1, <2>2, <2>3 DEF Level, Counted
    <2>5. Counts(keys, grants, n)
      BY <2>2, <2>3, <2>4 DEF Counts
    <2>6. Promised(grants)
      BY <2>2 DEF Promised
    <2> QED
      BY <1>2, <2>1, <2>2, <2>5, <2>6 DEF StoreOK, Keys, TypeOK
  <1>4. now # 0 /\ (\A i \in Instances : pc[i] # "sent") /\ strays = {}
    BY <1>1 DEF Init
  <1> QED
    BY <1>2, <1>3, <1>4 DEF IInv

LEMMA AllowKeeps ==
  ASSUME IInv, NEW i \in Instances, Allow(i)
  PROVE  IInv'
  <1>1. UNCHANGED <<cfg, now, skew, keys, expiresAt, strays, metrics, grants, last>>
    BY DEF Allow
  <1>2. cfg \in Configs /\ now \in Nat \ {0} /\ skew[i] \in 0..MaxSkew /\ calls \in Nat
    BY DEF IInv, TypeOK
  <1>3. MaxSkew \in Nat /\ MaxDelay \in Nat /\ MaxResends \in Nat
    BY <1>2, Chosen
  <1>4. PICK r : r = [Idle EXCEPT !.us = now + skew[i], !.sentAt = now, !.call = calls]
    OBVIOUS
  <1>5. r = [us |-> now + skew[i], sentAt |-> now, call |-> calls, resends |-> 0, allowed |-> FALSE]
    BY <1>4 DEF Idle
  <1>6. r \in Requests /\ Underway(r, now)
    BY <1>2, <1>3, <1>5 DEF Requests, Underway
  <1>7. RequestsOK'
    <2>1. RequestsOK
      BY RequestsFacts
    <2>2. pc' = [pc EXCEPT ![i] = "sent"] /\ request' = [request EXCEPT ![i] = r]
      BY <1>4 DEF Allow
    <2>3. strays' \subseteq Stray /\ \A f \in strays' : Underway(f, now)
      BY <1>1, <2>1 DEF RequestsOK
    <2>4. UNCHANGED <<cfg, now>> /\ "sent" \in {"idle", "sent", "replied"}
      BY <1>1
    <2> QED
      BY <1>6, <2>1, <2>2, <2>3, <2>4, RequestMoves
  <1>8. StoreOK(keys, expiresAt, grants, now)'
    BY <1>1, StoreStays
  <1>9. calls' \in Nat /\ now' \in Nat \ {0}
    BY <1>1, <1>2 DEF Allow
  <1>10. /\ metrics' \in [allow : Nat, deny : Nat]
         /\ last' \in [allowed : BOOLEAN, us : Nat, retryAt : Nat, resetAt : Nat]
    BY <1>1 DEF IInv, TypeOK
  <1> QED
    BY <1>1, <1>7, <1>8, <1>9, <1>10, Rest

LEMMA EvalKeeps ==
  ASSUME IInv, NEW i \in Instances, Eval(i)
  PROVE  IInv'
  <1>1. UNCHANGED <<cfg, now, skew, strays, calls, metrics>> /\ pc[i] = "sent"
    BY DEF Eval
  <1>2. cfg \in Configs /\ now \in Nat \ {0} /\ RequestsOK
    BY RequestsFacts DEF IInv, TypeOK
  <1>3. Reading(request[i].us, now)
    BY <1>1, <1>2, UnderwayReading DEF RequestsOK
  <1>4. PICK x \in Script(Current, request[i].us) :
           Run(request[i].us, x) /\ request' = [request EXCEPT ![i].allowed = x.allowed]
    BY DEF Eval
  <1>5. /\ StoreOK(keys, expiresAt, grants, now)'
        /\ x.allowed \in BOOLEAN
        /\ last' \in [allowed : BOOLEAN, us : Nat, retryAt : Nat, resetAt : Nat]
    BY <1>1, <1>3, <1>4, ScriptRuns
  <1>6. PICK r : r = [request[i] EXCEPT !.allowed = x.allowed]
    OBVIOUS
  <1>7. r \in Requests
    BY <1>2, <1>5, <1>6 DEF RequestsOK, Requests
  <1>8. RequestsOK'
    <2>1. pc' = [pc EXCEPT ![i] = "replied"] /\ request' = [request EXCEPT ![i] = r]
      BY <1>4, <1>6 DEF Eval
    <2>2. strays' \subseteq Stray /\ \A f \in strays' : Underway(f, now)
      BY <1>1, <1>2 DEF RequestsOK
    <2>3. /\ UNCHANGED <<cfg, now>> /\ "replied" \in {"idle", "sent", "replied"}
          /\ "replied" = "sent" => Underway(r, now)
      BY <1>1
    <2> QED
      BY <1>2, <1>7, <2>1, <2>2, <2>3, RequestMoves
  <1>9. now' \in Nat \ {0} /\ calls' \in Nat /\ metrics' \in [allow : Nat, deny : Nat]
    BY <1>1, <1>2 DEF IInv, TypeOK
  <1> QED
    BY <1>1, <1>5, <1>8, <1>9, Rest

(* A request of a call, as the server may still run it. *)
LEMMA StrayOf ==
  ASSUME NEW r \in Requests, NEW n, Underway(r, n)
  PROVE  AsStray(r) \in Stray /\ Underway(AsStray(r), n)
  <1>1. AsStray(r) \in Stray /\ AsStray(r).us = r.us /\ AsStray(r).sentAt = r.sentAt
    BY DEF AsStray, Stray, Requests
  <1> QED
    BY <1>1 DEF Underway

LEMMA ResendKeeps ==
  ASSUME IInv, NEW i \in Instances, Resend(i)
  PROVE  IInv'
  <1>1. UNCHANGED <<cfg, now, skew, keys, expiresAt, pc, calls, metrics, grants, last>>
    BY DEF Resend
  <1>2. cfg \in Configs /\ now \in Nat \ {0} /\ RequestsOK /\ pc[i] = "sent"
    BY RequestsFacts DEF IInv, TypeOK, Resend
  <1>3. request[i] \in Requests /\ Underway(request[i], now) /\ request[i].resends < MaxResends
    BY <1>2 DEF RequestsOK, Resend
  <1>4. PICK r : r = [request[i] EXCEPT !.resends = @ + 1]
    OBVIOUS
  <1>5. r \in Requests
    <2>1. MaxResends \in Nat
      BY <1>2, Chosen
    <2>2. request[i].resends + 1 \in 0..MaxResends
      BY <1>3, <2>1 DEF Requests
    <2> QED
      BY <1>3, <1>4, <2>2 DEF Requests
  <1>6. Underway(r, now)
    <2>1. r.us = request[i].us /\ r.sentAt = request[i].sentAt
      BY <1>3, <1>4 DEF Requests
    <2> QED
      BY <1>3, <2>1 DEF Underway
  <1>7. RequestsOK'
    <2>1. pc' = [pc EXCEPT ![i] = "sent"]
      BY <1>1, <1>2 DEF RequestsOK
    <2>2. request' = [request EXCEPT ![i] = r]
      BY <1>4 DEF Resend
    <2>3. strays' \subseteq Stray /\ \A f \in strays' : Underway(f, now)
      BY <1>2, <1>3, StrayOf DEF RequestsOK, Resend
    <2>4. UNCHANGED <<cfg, now>> /\ "sent" \in {"idle", "sent", "replied"}
      BY <1>1
    <2> QED
      BY <1>2, <1>5, <1>6, <2>1, <2>2, <2>3, <2>4, RequestMoves
  <1>8. StoreOK(keys, expiresAt, grants, now)'
    BY <1>1, StoreStays
  <1>9. /\ now' \in Nat \ {0} /\ calls' \in Nat /\ metrics' \in [allow : Nat, deny : Nat]
        /\ last' \in [allowed : BOOLEAN, us : Nat, retryAt : Nat, resetAt : Nat]
    BY <1>1, <1>2 DEF IInv, TypeOK
  <1> QED
    BY <1>1, <1>7, <1>8, <1>9, Rest

(* The requests when only what may still run changes. *)
LEMMA StraysChange ==
  ASSUME RequestsOK, UNCHANGED <<cfg, pc, request>>, strays' \subseteq Stray,
         \A i \in Instances : pc[i] = "sent" => Underway(request[i], now'),
         \A f \in strays' : Underway(f, now')
  PROVE  RequestsOK'
  <1>1. PICK n : n = now'
    OBVIOUS
  <1>2. Requests' = Requests
    BY SameConfiguration DEF Requests
  <1>3. ASSUME NEW j \in Instances, pc'[j] = "sent" PROVE Underway(request[j], now)'
    <2>1. PICK f : f = request[j]
      OBVIOUS
    <2>2. Underway(f, n)
      BY <1>1, <1>3, <2>1
    <2>3. Underway(f, n)'
      BY <2>2, SameUnderway
    <2>4. f = request'[j]
      BY <2>1
    <2> QED
      BY <1>1, <2>3, <2>4
  <1>4. ASSUME NEW f \in strays' PROVE Underway(f, now)'
    <2>1. Underway(f, n)
      BY <1>1, <1>4
    <2>2. Underway(f, n)'
      BY <2>1, SameUnderway
    <2> QED
      BY <1>1, <2>2
  <1> QED
    BY <1>2, <1>3, <1>4 DEF RequestsOK

LEMMA EvalStrayKeeps ==
  ASSUME IInv, NEW r \in strays, EvalStray(r)
  PROVE  IInv'
  <1>1. UNCHANGED <<cfg, now, skew, pc, request, calls, metrics>> /\ strays' = strays \ {r}
    BY DEF EvalStray
  <1>2. cfg \in Configs /\ now \in Nat \ {0} /\ RequestsOK
    BY RequestsFacts DEF IInv, TypeOK
  <1>3. Reading(r.us, now)
    BY <1>2, UnderwayReading DEF RequestsOK
  <1>4. PICK x \in Script(Current, r.us) : Run(r.us, x)
    BY DEF EvalStray
  <1>5. /\ StoreOK(keys, expiresAt, grants, now)'
        /\ last' \in [allowed : BOOLEAN, us : Nat, retryAt : Nat, resetAt : Nat]
    BY <1>1, <1>3, <1>4, ScriptRuns
  <1>6. RequestsOK'
    <2>1. strays' \subseteq Stray
      BY <1>1, <1>2 DEF RequestsOK
    <2>2. \A f \in strays' : Underway(f, now')
      BY <1>1, <1>2 DEF RequestsOK
    <2>3. \A i \in Instances : pc[i] = "sent" => Underway(request[i], now')
      BY <1>1, <1>2 DEF RequestsOK
    <2>4. UNCHANGED <<cfg, pc, request>>
      BY <1>1
    <2> QED
      BY <1>2, <2>1, <2>2, <2>3, <2>4, StraysChange
  <1>7. now' \in Nat \ {0} /\ calls' \in Nat /\ metrics' \in [allow : Nat, deny : Nat]
    BY <1>1, <1>2 DEF IInv, TypeOK
  <1> QED
    BY <1>1, <1>5, <1>6, <1>7, Rest

(* A call ends: what may still run of it is f. *)
LEMMA CallEnds ==
  ASSUME IInv, NEW i \in Instances, Finish(i),
         UNCHANGED <<cfg, now, skew, keys, expiresAt, calls, grants, last>>,
         strays' \subseteq Stray, \A f \in strays' : Underway(f, now),
         metrics' \in [allow : Nat, deny : Nat]
  PROVE  IInv'
  <1>1. cfg \in Configs /\ now \in Nat \ {0} /\ RequestsOK
    BY RequestsFacts DEF IInv, TypeOK
  <1>2. RequestsOK'
    <2>1. pc' = [pc EXCEPT ![i] = "idle"] /\ request' = [request EXCEPT ![i] = Idle]
      BY DEF Finish
    <2>2. /\ UNCHANGED <<cfg, now>> /\ "idle" \in {"idle", "sent", "replied"}
          /\ "idle" = "sent" => Underway(Idle, now)
      OBVIOUS
    <2>3. Idle \in Requests
      BY <1>1, IdleIs
    <2> QED
      BY <1>1, <2>1, <2>2, <2>3, RequestMoves
  <1>3. StoreOK(keys, expiresAt, grants, now)'
    BY StoreStays
  <1>4. /\ now' \in Nat \ {0} /\ calls' \in Nat
        /\ last' \in [allowed : BOOLEAN, us : Nat, retryAt : Nat, resetAt : Nat]
    BY <1>1 DEF IInv, TypeOK
  <1> QED
    BY <1>2, <1>3, <1>4, Rest

LEMMA CountedOnce ==
  ASSUME NEW m \in [allow : Nat, deny : Nat]
  PROVE  /\ [m EXCEPT !.allow = @ + 1] \in [allow : Nat, deny : Nat]
         /\ [m EXCEPT !.deny = @ + 1] \in [allow : Nat, deny : Nat]
  OBVIOUS

LEMMA ReturnKeeps ==
  ASSUME IInv, NEW i \in Instances, Return(i)
  PROVE  IInv'
  <1>1. /\ UNCHANGED <<cfg, now, skew, keys, expiresAt, calls, grants, last>>
        /\ Finish(i) /\ strays' = strays
    BY DEF Return
  <1>2. strays' \subseteq Stray /\ \A f \in strays' : Underway(f, now)
    BY <1>1, RequestsFacts DEF RequestsOK
  <1>3. metrics' \in [allow : Nat, deny : Nat]
    <2>1. metrics \in [allow : Nat, deny : Nat]
      BY DEF IInv, TypeOK
    <2> QED
      BY <2>1, CountedOnce DEF Return
  <1> QED
    BY <1>1, <1>2, <1>3, CallEnds

LEMMA StoreErrorKeeps ==
  ASSUME IInv, NEW i \in Instances, StoreError(i)
  PROVE  IInv'
  <1>1. /\ UNCHANGED <<cfg, now, skew, keys, expiresAt, calls, grants, last>>
        /\ Finish(i) /\ strays' = strays \union {AsStray(request[i])} /\ pc[i] = "sent"
    BY DEF StoreError
  <1>2. RequestsOK /\ request[i] \in Requests /\ Underway(request[i], now)
    BY <1>1, RequestsFacts DEF RequestsOK
  <1>3. strays' \subseteq Stray /\ \A f \in strays' : Underway(f, now)
    BY <1>1, <1>2, StrayOf DEF RequestsOK
  <1>4. metrics' \in [allow : Nat, deny : Nat]
    <2>1. metrics \in [allow : Nat, deny : Nat]
      BY DEF IInv, TypeOK
    <2> QED
      BY <2>1, CountedOnce DEF StoreError
  <1> QED
    BY <1>1, <1>3, <1>4, CallEnds

LEMMA TickKeeps ==
  ASSUME IInv, Tick
  PROVE  IInv'
  <1>1. UNCHANGED <<cfg, skew, keys, expiresAt, pc, request, calls, metrics, grants, last>>
    BY DEF Tick
  <1>2. PICK n \in Nat \ {0} : n = now
    BY DEF IInv, TypeOK
  <1>3. PICK m \in Nat \ {0} : m = now' /\ m = n + 1
    BY <1>2 DEF Tick
  <1>4. cfg \in Configs /\ RequestsOK /\ MaxDelay \in Nat
    BY RequestsFacts, Chosen DEF IInv, TypeOK
  <1>5. ASSUME NEW r, Underway(r, n), n < r.sentAt + MaxDelay PROVE Underway(r, m)
    BY <1>2, <1>3, <1>4, <1>5 DEF Underway
  <1>6. RequestsOK'
    <2>1. \A i \in Instances : pc[i] = "sent" => Underway(request[i], now')
      BY <1>2, <1>3, <1>4, <1>5 DEF RequestsOK, Tick
    <2>2. strays' \subseteq Stray /\ \A f \in strays' : Underway(f, now')
      BY <1>2, <1>3, <1>4, <1>5 DEF RequestsOK, Tick
    <2>3. UNCHANGED <<cfg, pc, request>>
      BY <1>1
    <2> QED
      BY <1>4, <2>1, <2>2, <2>3, StraysChange
  <1>7. StoreOK(keys, expiresAt, grants, now)'
    <2>1. PICK k, e, g : k = keys /\ e = expiresAt /\ g = grants
      OBVIOUS
    <2>2. StoreOK(k, e, g, n)
      BY <1>2, <2>1 DEF IInv
    <2>3. StoreOK(k, e, g, m)
      BY <1>3, <1>4, <2>2, StoreLater
    <2>4. StoreOK(k, e, g, m)'
      BY <1>1, <2>3, SameStore
    <2> QED
      BY <1>1, <1>3, <2>1, <2>4
  <1>8. /\ now' \in Nat \ {0} /\ calls' \in Nat /\ metrics' \in [allow : Nat, deny : Nat]
        /\ last' \in [allowed : BOOLEAN, us : Nat, retryAt : Nat, resetAt : Nat]
    BY <1>1, <1>3 DEF IInv, TypeOK
  <1> QED
    BY <1>1, <1>6, <1>7, <1>8, Rest

LEMMA StutterKeeps ==
  ASSUME IInv, UNCHANGED vars
  PROVE  IInv'
  <1>1. UNCHANGED <<cfg, now, skew, keys, expiresAt, pc, request, strays, calls, metrics, grants, last>>
    BY DEF vars
  <1>2. now \in Nat \ {0} /\ RequestsOK
    BY RequestsFacts DEF IInv, TypeOK
  <1>3. RequestsOK'
    <2>1. \A i \in Instances : pc[i] = "sent" => Underway(request[i], now')
      BY <1>1, <1>2 DEF RequestsOK
    <2>2. strays' \subseteq Stray /\ \A f \in strays' : Underway(f, now')
      BY <1>1, <1>2 DEF RequestsOK
    <2> QED
      BY <1>1, <1>2, <2>1, <2>2, StraysChange
  <1>4. StoreOK(keys, expiresAt, grants, now)'
    BY <1>1, StoreStays
  <1>5. /\ now' \in Nat \ {0} /\ calls' \in Nat /\ metrics' \in [allow : Nat, deny : Nat]
        /\ last' \in [allowed : BOOLEAN, us : Nat, retryAt : Nat, resetAt : Nat]
    BY <1>1, <1>2 DEF IInv, TypeOK
  <1> QED
    BY <1>1, <1>3, <1>4, <1>5, Rest

LEMMA StepKeeps == IInv /\ [Next]_vars => IInv'
  <1> SUFFICES ASSUME IInv, [Next]_vars PROVE IInv'
    OBVIOUS
  <1>1. CASE \E i \in Instances : Allow(i) \/ Eval(i) \/ Resend(i) \/ Return(i) \/ StoreError(i)
    BY <1>1, AllowKeeps, EvalKeeps, ResendKeeps, ReturnKeeps, StoreErrorKeeps
  <1>2. CASE \E r \in strays : EvalStray(r)
    BY <1>2, EvalStrayKeeps
  <1>3. CASE Tick
    BY <1>3, TickKeeps
  <1>4. CASE UNCHANGED vars
    BY <1>4, StutterKeeps
  <1> QED
    BY <1>1, <1>2, <1>3, <1>4 DEF Next

-----------------------------------------------------------------------------
(* The keys account for the grants that the server made in their life,     *)
(* whoever sent the requests and however often they run.                   *)
THEOREM InductiveInvariant == Spec => []IInv
  BY Initially, StepKeeps, PTL DEF Spec

(* The keys, the requests and the histories keep their types. *)
THEOREM TypeCorrect == Spec => []TypeOK
  <1>1. IInv => TypeOK
    BY DEF IInv
  <1> QED
    BY <1>1, InductiveInvariant, PTL

(* No interleaving of late, repeated and abandoned requests, on clocks     *)
(* that are apart, makes a bucket grant beyond its rate                    *)
(* (token_bucket.lua, leaky_bucket.lua).                                   *)
THEOREM SharedRateHolds == Spec => []SharedRate
  <1>1. IInv => SharedRate
    <2> SUFFICES ASSUME IInv, IsBucket, NEW i \in 1..Len(grants), NEW j \in 1..Len(grants), i <= j,
                        (j - i + 1) - Limit > 0, grants[j] - grants[i] <= Lifetime
                 PROVE  ((j - i + 1) - Limit - 1) * MicrosPerToken < grants[j] - grants[i] + Spread
      BY DEF SharedRate
    <2>1. Promised(grants)
      BY DEF IInv, StoreOK
    <2>2. Rate(j - i + 1, grants[j] - grants[i])
      BY <2>1 DEF Promised
    <2> QED
      BY <2>2 DEF Rate
  <1> QED
    BY <1>1, InductiveInvariant, PTL

(* Nor does it make the sliding window grant more than twice the limit in  *)
(* an interval of nearly a window, or beyond the rate and one more in a    *)
(* shorter one (sliding_window.lua).                                       *)
THEOREM SharedRollingLimitHolds == Spec => []SharedRollingLimit
  <1>1. IInv => SharedRollingLimit
    <2> SUFFICES ASSUME IInv, ~IsBucket, NEW i \in 1..Len(grants), NEW j \in 1..Len(grants), i <= j,
                        grants[j] - grants[i] <= Window - Spread
                 PROVE  Rolling(j - i + 1, grants[j] - grants[i])
      BY DEF SharedRollingLimit, Rolling
    <2>1. Promised(grants)
      BY DEF IInv, StoreOK
    <2> QED
      BY <2>1 DEF Promised
  <1> QED
    BY <1>1, InductiveInvariant, PTL

-----------------------------------------------------------------------------
(* What a script announces. *)

(* A clock reading that a delay until t lets through. *)
After(t, us) == IF IsBucket THEN t <= us ELSE t + Short < us

(* The estimate is below the limit. *)
Below(since, prev, curr) == SlidingCount(since, prev, curr) < Limit * Window

(* A window that starts at w admits a call in it, or in the next one. *)
Light(w, c, p, us) ==
    /\ us < w + Window => Below(clampDuration(us - w), p, c)
    /\ (w + Window <= us /\ us < w + 2 * Window) => Below(us - (w + Window), c, 0)

(* The keys k admit a call on the reading us. *)
Admits(k, us) ==
    IF IsBucket THEN k[2] # 0 => k[2] + MicrosPerToken <= us
    ELSE k[1] # 0 => Light(k[1], k[2], k[3], us)

(* For the reading us, nothing that k counts is left. *)
Empties(k, us) ==
    IF IsBucket THEN k[2] # 0 => k[2] + Used(k) * MicrosPerToken <= us
    ELSE k[1] # 0 => \/ k[1] + 2 * Window <= us
                     \/ k[2] = 0 /\ k[1] + Window <= us

(* The keys of a first call. *)
Fresh(k) ==
    CASE Strategy = "token_bucket"   -> k[1] = Limit - 1
      [] Strategy = "leaky_bucket"   -> k[1] = 1
      [] Strategy = "sliding_window" -> k[2] = 1 /\ k[3] = 0

(* What the last script l announced holds for the keys k. *)
Announced(k, l) ==
    /\ ~l.allowed => \A us \in Nat : After(l.retryAt, us) => Admits(k, us)
    /\ \A us \in Nat : us >= l.resetAt + Short => Empties(k, us)

(* A script that finds k and leaves x keeps what was announced of k, and   *)
(* what it announces itself.                                               *)
KeepsDelays(k, us, x) ==
    /\ Admits(k, us) => x.allowed
    /\ Empties(k, us) => x.allowed /\ Fresh(x.keys)
    /\ ~x.allowed => \A v \in Nat : (After(us + x.retryAfter, v) \/ Admits(k, v)) => Admits(x.keys, v)
    /\ \A v \in Nat : v >= us + x.reset + Short => Empties(x.keys, v)

DInv == IInv /\ Announced(keys, last)

LEMMA ClampedAtLeast ==
  ASSUME NEW a \in Int
  PROVE  clampDuration(a) \in Nat /\ a <= clampDuration(a)
  BY DEF clampDuration

LEMMA BucketKeepsDelays ==
  ASSUME cfg \in Configs, IsBucket, NEW k \in Keys, Used(k) \in 0..Limit, NEW us \in Nat,
         NEW x, NEW q1, NEW r1, BucketRuns(k, us, x, q1, r1)
  PROVE  KeepsDelays(k, us, x)
  <1>1. PICK l \in Nat \ {0}, m \in Nat \ {0} : l = Limit /\ m = MicrosPerToken
    BY Chosen
  <1>2. PICK q \in 0..l, r \in Nat : q = Used(k) /\ r = k[2]
    BY <1>1 DEF Keys
  <1>3. /\ q1 \in 0..l /\ r1 \in Int /\ BroughtUp(q, r, us, q1, r1) /\ x.keys[2] = r1
        /\ q1 < l => x.allowed /\ Used(x.keys) = q1 + 1
        /\ ~(q1 < l) => ~x.allowed /\ Used(x.keys) = q1
    <2>1. /\ q1 \in 0..l /\ r1 \in Int /\ BroughtUp(q, r, us, q1, r1) /\ x.keys[2] = r1
          /\ x.allowed = (q1 < l) /\ Used(x.keys) = IF x.allowed THEN q1 + 1 ELSE q1
      BY <1>1, <1>2 DEF BucketRuns
    <2>2. CASE q1 < l
      BY <2>1, <2>2
    <2>3. CASE ~(q1 < l)
      BY <2>1, <2>3
    <2> QED
      BY <2>1, <2>2, <2>3
  <1>4. PICK u \in Nat \ {0} : u = Used(x.keys)
    <2>1. CASE q1 < l
      BY <1>3, <2>1
    <2>2. CASE ~(q1 < l)
      BY <1>1, <1>3, <2>2
    <2> QED
      BY <2>1, <2>2
  <1>5. PICK t \in Int, y \in {(us - r) \div m} : t = us - r /\ y = t \div m
    OBVIOUS
  <1>6. /\ y \in Int
        /\ y >= 1 => y \in Nat /\ y * m <= t /\ t < y * m + m
        /\ ~(y >= 1) => t < m
    BY <1>5, WholeUnits
  <1>7. /\ r = 0 => q1 = 0 /\ r1 = us
        /\ r # 0 /\ y > 0 => q1 = (IF y > q THEN 0 ELSE q - y)
        /\ r # 0 /\ ~(y > 0) => q1 = q /\ r1 = r
    BY <1>1, <1>3, <1>5 DEF BroughtUp
  <1>8. Admits(k, us) => x.allowed
    <2> SUFFICES ASSUME Admits(k, us) PROVE q1 < l
      BY <1>3
    <2>1. r # 0 => r + m <= us
      BY <1>1, <1>2 DEF Admits
    <2>2. r # 0 => y >= 1
      BY <1>2, <1>5, <1>6, <2>1
    <2> QED
      BY <1>2, <1>6, <1>7, <2>2
  <1>9. Empties(k, us) => x.allowed /\ Fresh(x.keys)
    <2> SUFFICES ASSUME Empties(k, us) PROVE x.allowed /\ Fresh(x.keys)
      OBVIOUS
    <2>1. r # 0 => r + q * m <= us
      BY <1>1, <1>2 DEF Empties
    <2>2. q1 = 0
      <3>1. CASE r = 0
        BY <1>7, <3>1
      <3>2. CASE r # 0 /\ y >= 1
        <4>1. PICK z \in Nat : y = z
          BY <1>6, <3>2
        <4>2. PICK qm \in Nat, zm \in Nat : qm = q * m /\ zm = z * m
          BY ProductNat
        <4>3. (z + 1) * m = zm + m
          BY <4>2
        <4>4. qm < zm + m
          BY <1>2, <1>5, <1>6, <2>1, <3>2, <4>1, <4>2
        <4>5. ~(z + 1 <= q)
          <5> SUFFICES ASSUME z + 1 <= q PROVE FALSE
            OBVIOUS
          <5>1. (z + 1) * m <= q * m
            BY ProductMonotone
          <5> QED
            BY <4>2, <4>3, <4>4, <5>1
        <4> QED
          BY <1>2, <1>7, <3>2, <4>1, <4>5
      <3>3. CASE r # 0 /\ ~(y >= 1)
        <4>1. q * m < m
          <5>1. q * m \in Nat
            BY ProductNat
          <5> QED
            BY <1>2, <1>5, <1>6, <2>1, <3>3, <5>1
        <4>2. ~(1 <= q)
          <5> SUFFICES ASSUME 1 <= q PROVE FALSE
            OBVIOUS
          <5>1. PICK z \in Nat : z = q * m
            BY ProductNat
          <5>2. 1 * m <= q * m
            BY ProductMonotone
          <5> QED
            BY <4>1, <5>1, <5>2
        <4> QED
          BY <1>2, <1>6, <1>7, <3>3, <4>2
      <3> QED
        BY <3>1, <3>2, <3>3
    <2>3. x.allowed /\ Used(x.keys) = 1
      BY <1>1, <1>3, <2>2
    <2>4. x.keys[1] \in Nat
      BY DEF BucketRuns
    <2>5. CASE Strategy = "token_bucket"
      <3>1. x.keys[1] = Limit - 1
        BY <1>1, <2>3, <2>4, <2>5 DEF Used
      <3> QED
        BY <2>3, <2>5, <3>1 DEF Fresh
    <2>6. CASE Strategy = "leaky_bucket"
      BY <2>3, <2>6 DEF Used, Fresh
    <2> QED
      BY <2>5, <2>6, Chosen DEF IsBucket
  <1>10. ASSUME ~x.allowed, NEW v \in Nat, After(us + x.retryAfter, v) \/ Admits(k, v)
         PROVE  Admits(x.keys, v)
    <2> SUFFICES r1 + m <= v
      BY <1>1, <1>3 DEF Admits
    <2>1. r # 0 /\ q1 = l
      BY <1>1, <1>3, <1>7, <1>10
    <2>2. r1 = r
      BY <1>2, <1>6, <1>7, <2>1
    <2>3. CASE After(us + x.retryAfter, v)
      <3>1. PICK e \in Int, d \in Nat : e = m - (us - r1) /\ d = clampDuration(e) /\ e <= d
        BY <1>3, ClampedAtLeast
      <3>2. x.retryAfter = d
        BY <1>1, <1>10, <3>1 DEF BucketRuns
      <3>3. us + d <= v
        BY <2>3, <3>2 DEF After
      <3> QED
        BY <1>3, <3>1, <3>3
    <2>4. CASE Admits(k, v)
      BY <1>1, <1>2, <2>1, <2>2, <2>4 DEF Admits
    <2> QED
      BY <1>10, <2>3, <2>4
  <1>11. ASSUME NEW v \in Nat, v >= us + x.reset + Short
         PROVE  Empties(x.keys, v)
    <2>1. PICK um \in Nat : um = u * m
      BY ProductNat
    <2>2. PICK e \in Int, d \in Nat : e = um - (us - r1) /\ d = clampDuration(e) /\ e <= d
      BY <1>3, ClampedAtLeast
    <2>3. x.reset = d /\ Short = 0
      BY <1>1, <1>4, <2>1, <2>2 DEF BucketRuns, Refills, Short
    <2>4. r1 + um <= v
      BY <1>3, <1>11, <2>2, <2>3
    <2> QED
      BY <1>1, <1>3, <1>4, <2>1, <2>4 DEF Empties
  <1> QED
    BY <1>8, <1>9, <1>10, <1>11 DEF KeepsDelays

LEMMA BelowNone ==
  ASSUME cfg \in Configs, NEW s \in Nat
  PROVE  Below(s, 0, 0)
  <1>1. PICK l \in Nat \ {0}, w \in Nat \ {0} : l = Limit /\ w = Window
    BY Chosen
  <1>2. 0 * (w - s) + 0 * w = 0
    OBVIOUS
  <1>3. l * w \in Nat \ {0}
    BY ProductPositive
  <1> QED
    BY <1>1, <1>2, <1>3 DEF Below, SlidingCount

LEMMA BelowAdmits ==
  ASSUME cfg \in Configs, NEW s \in Nat, s < Window, NEW p \in Nat, NEW c \in Nat,
         Below(s, p, c), NEW a \in Outcomes(s, p, c)
  PROVE  a
  <1>1. PICK l \in Nat \ {0}, w \in Nat \ {0} : l = Limit /\ w = Window
    BY Chosen
  <1>2. PICK u \in Nat : u = w - s
    BY <1>1
  <1>3. PICK pu \in Nat, cw \in Nat, lw \in Nat : pu = p * u /\ cw = c * w /\ lw = l * w
    BY <1>2, ProductNat
  <1>4. PICK e \in Nat : e = SlidingCount(s, p, c) /\ e = pu + cw
    BY <1>1, <1>2, <1>3 DEF SlidingCount
  <1>5. e < lw
    BY <1>1, <1>3, <1>4 DEF Below
  <1>6. SlidingCount(s, p, c) < Limit * Window /\ SlidingCount(s, p, c) # Limit * Window
    BY <1>1, <1>3, <1>4, <1>5
  <1> QED
    BY <1>6 DEF Outcomes

(* Once its successor has begun, a window weighs less than its limit. *)
LEMMA BelowLater ==
  ASSUME cfg \in Configs, NEW c \in 0..Limit, NEW t \in Nat, t <= Window, c < Limit \/ t > 0
  PROVE  Below(t, c, 0)
  <1>1. PICK l \in Nat \ {0}, w \in Nat \ {0} : l = Limit /\ w = Window
    BY Chosen
  <1>2. PICK u \in Nat : u = w - t /\ w = u + t
    BY <1>1
  <1>3. PICK cu \in Nat, lu \in Nat, lw \in Nat : cu = c * u /\ lu = l * u /\ lw = l * w
    BY <1>1, ProductNat
  <1>4. c \in Nat /\ c <= l
    BY <1>1
  <1>5. cu < lw
    <2>1. CASE t > 0
      <3>1. PICK lt \in Nat \ {0} : lt = l * t
        BY <2>1, ProductPositive
      <3>2. lw = lu + lt
        BY <1>2, <1>3, <3>1
      <3>3. cu <= lu
        BY <1>3, <1>4, ProductMonotone
      <3> QED
        BY <3>1, <3>2, <3>3
    <2>2. CASE c < l
      <3>1. PICK cw \in Nat, dw \in Nat : cw = c * w /\ dw = (c + 1) * w
        BY <1>4, ProductNat
      <3>2. dw = cw + w
        BY <3>1
      <3>3. dw <= lw
        BY <1>3, <1>4, <2>2, <3>1, ProductMonotone
      <3>4. cu <= cw
        BY <1>2, <1>3, <1>4, <3>1, ProductMonotone
      <3> QED
        BY <3>2, <3>3, <3>4
    <2> QED
      BY <1>1, <2>1, <2>2
  <1>6. c * (w - t) + 0 * w = cu
    BY <1>2, <1>3
  <1> QED
    BY <1>1, <1>3, <1>5, <1>6 DEF Below, SlidingCount

LEMMA BelowCurrent ==
  ASSUME cfg \in Configs, NEW s \in Nat, s < Window, NEW p \in Nat, NEW c \in Nat, Below(s, p, c)
  PROVE  c < Limit
  <1>1. PICK l \in Nat \ {0}, w \in Nat \ {0} : l = Limit /\ w = Window
    BY Chosen
  <1>2. PICK u \in Nat : u = w - s
    BY <1>1
  <1>3. PICK pu \in Nat, cw \in Nat, lw \in Nat : pu = p * u /\ cw = c * w /\ lw = l * w
    BY <1>2, ProductNat
  <1>4. pu + cw < lw
    BY <1>1, <1>2, <1>3 DEF Below, SlidingCount
  <1>5. l <= c => lw <= cw
    BY <1>3, ProductMonotone
  <1> QED
    BY <1>1, <1>3, <1>4, <1>5

LEMMA DividedUp ==
  ASSUME NEW a \in Nat, NEW b \in Nat \ {0}
  PROVE  DivideUp(a, b) \in Nat /\ a <= DivideUp(a, b) * b
  <1>1. PICK n \in Int : n = -a
    OBVIOUS
  <1>2. PICK q \in Int : q = n \div b
    OBVIOUS
  <1>3. PICK r \in Nat : r = n % b
    OBVIOUS
  <1>4. PICK qb \in Int : qb = q * b
    OBVIOUS
  <1>5. n = qb + r
    BY <1>2, <1>3, <1>4
  <1>6. (-q) * b = -qb
    BY <1>4
  <1>7. DivideUp(a, b) = -q
    BY <1>1, <1>2 DEF DivideUp
  <1> QED
    BY <1>1, <1>3, <1>5, <1>6, <1>7, DivideUpNat

(* What RetryAfter promises of the windows, in and after the current one.  *)
LEMMA RetryBelow ==
  ASSUME cfg \in Configs, NEW s \in Nat, s < Window, NEW p \in 0..Limit, NEW c \in 0..Limit,
         NEW t \in Nat, s + RetryAfter(s, p, c) < t
  PROVE  /\ t < Window => Below(t, p, c)
         /\ (Window <= t /\ t < 2 * Window) => Below(t - Window, c, 0)
  <1>1. PICK l \in Nat \ {0}, w \in Nat \ {0} : l = Limit /\ w = Window
    BY Chosen
  <1>2. PICK u \in Nat : u = w - s /\ UntilBoundary(s) = u
    BY <1>1 DEF UntilBoundary, clampDuration
  <1>3. PICK ra : ra = RetryAfter(s, p, c)
    OBVIOUS
  <1>4. CASE ra = u
    <2>1. w < t
      BY <1>2, <1>3, <1>4
    <2>2. ASSUME t < 2 * w PROVE Below(t - w, c, 0)
      <3>1. PICK v \in Nat : v = t - w /\ v <= w /\ v > 0
        BY <2>1, <2>2
      <3> QED
        BY <1>1, <3>1, BelowLater
    <2> QED
      BY <1>1, <2>1, <2>2
  <1>5. CASE ra # u
    <2>1. ~(c >= l \/ p = 0)
      BY <1>1, <1>2, <1>3, <1>5 DEF RetryAfter
    <2>2. c \in Nat /\ c < l /\ p \in Nat \ {0}
      BY <1>1, <2>1
    <2>3. PICK free \in Nat : free = l - c
      BY <2>2
    <2>4. PICK sp \in Nat, ow \in Int : sp = s * p /\ ow = (p - free) * w
      BY <2>2, ProductNat
    <2>5. PICK e \in Int, ce \in Nat : e = ow - sp /\ ce = clampDuration(e) /\ e <= ce
      BY ClampedAtLeast
    <2>6. PICK d \in Nat : d = DivideUp(ce, p) /\ ce <= d * p
      BY <2>2, DividedUp
    <2>7. ra \in Nat /\ d <= ra
      <3>1. ra = LET atLeast == IF d = 0 THEN 1 ELSE d IN IF atLeast > u THEN u ELSE atLeast
        BY <1>1, <1>2, <1>3, <2>1, <2>3, <2>4, <2>5, <2>6 DEF RetryAfter
      <3> QED
        BY <1>5, <3>1
    <2>8. ASSUME t < w PROVE Below(t, p, c)
      <3>1. PICK y \in Nat : t = s + d + 1 + y
        BY <1>3, <2>7
      <3>2. PICK dp \in Nat, yp \in Nat, pt \in Nat : dp = d * p /\ yp = y * p /\ pt = p * t
        BY <2>2, ProductNat
      <3>3. pt = sp + dp + p + yp
        BY <2>4, <3>1, <3>2
      <3>4. PICK pw \in Nat, cw \in Nat, lw \in Nat : pw = p * w /\ cw = c * w /\ lw = l * w
        BY <2>2, ProductNat
      <3>5. ow = pw - lw + cw
        BY <2>3, <2>4, <3>4
      <3>6. ow - sp <= dp
        BY <2>5, <2>6, <3>2
      <3>7. pw - pt + cw < lw
        BY <2>2, <3>2, <3>3, <3>5, <3>6
      <3>8. p * (w - t) = pw - pt
        BY <2>2, <3>2, <3>4
      <3> QED
        BY <1>1, <3>4, <3>7, <3>8 DEF Below, SlidingCount
    <2>9. ASSUME w <= t, t < 2 * w PROVE Below(t - w, c, 0)
      <3>1. PICK v \in Nat : v = t - w /\ v <= w
        BY <2>9
      <3> QED
        BY <1>1, <2>2, <3>1, BelowLater
    <2> QED
      BY <1>1, <2>8, <2>9
  <1> QED
    BY <1>4, <1>5

(* In the windows that follow, a window that is light stays so. *)
LEMMA LightRotated ==
  ASSUME cfg \in Configs, NEW w \in Nat \ {0}, NEW c \in 0..Limit, NEW p \in Nat, NEW us \in Nat,
         NEW v \in Nat, Light(w, c, p, v),
         NEW w1 \in Nat, NEW c1, NEW p1,
         \/ w1 = w /\ c1 = c /\ p1 = p
         \/ w1 = w + Window /\ c1 = 0 /\ p1 = c
         \/ c1 = 0 /\ p1 = 0
  PROVE  Light(w1, c1, p1, v)
  <1>1. PICK ww \in Nat \ {0} : ww = Window
    BY Chosen
  <1>2. CASE w1 = w /\ c1 = c /\ p1 = p
    BY <1>2
  <1>3. CASE w1 = w + Window /\ c1 = 0 /\ p1 = c
    <2>1. ASSUME v < w1 + ww PROVE Below(clampDuration(v - w1), c, 0)
      <3>1. CASE v < w1
        <4>1. clampDuration(v - w1) = 0
          BY <3>1 DEF clampDuration
        <4>2. PICK s \in Nat : s = clampDuration(v - w) /\ s < ww
          <5>1. PICK y \in Int : y = v - w /\ y < ww
            BY <1>1, <1>3, <3>1
          <5>2. clampDuration(y) \in Nat /\ clampDuration(y) < ww
            BY <5>1 DEF clampDuration
          <5> QED
            BY <5>1, <5>2
        <4>3. Below(s, p, c)
          BY <1>1, <1>3, <3>1, <4>2 DEF Light
        <4>4. c \in Nat
          BY Chosen
        <4>5. c < Limit
          BY <1>1, <4>2, <4>3, <4>4, BelowCurrent
        <4>6. Below(0, c, 0)
          BY <1>1, <4>5, BelowLater
        <4> QED
          BY <4>1, <4>6
      <3>2. CASE ~(v < w1)
        <4>1. w + ww <= v /\ v < w + 2 * ww
          BY <1>1, <1>3, <2>1, <3>2
        <4>2. PICK y \in Nat : y = v - w1 /\ y = v - (w + ww)
          BY <1>1, <1>3, <3>2
        <4>3. Below(y, c, 0)
          BY <1>1, <4>1, <4>2 DEF Light
        <4>4. clampDuration(y) = y
          BY DEF clampDuration
        <4> QED
          BY <4>2, <4>3, <4>4
      <3> QED
        BY <3>1, <3>2
    <2>2. ASSUME w1 + ww <= v PROVE Below(v - (w1 + ww), 0, 0)
      <3>1. v - (w1 + ww) \in Nat
        BY <2>2
      <3> QED
        BY <3>1, BelowNone
    <2> QED
      BY <1>1, <1>3, <2>1, <2>2 DEF Light
  <1>4. CASE c1 = 0 /\ p1 = 0
    <2>1. clampDuration(v - w1) \in Nat
      BY ClampedNat
    <2>2. ASSUME w1 + ww <= v PROVE v - (w1 + ww) \in Nat
      BY <2>2
    <2> QED
      BY <1>1, <1>4, <2>1, <2>2, BelowNone DEF Light
  <1> QED
    BY <1>2, <1>3, <1>4

LEMMA SlidingKeepsDelays ==
  ASSUME cfg \in Configs, ~IsBucket, NEW k \in Keys, k[2] \in 0..Limit, NEW us \in Nat,
         NEW x, NEW w, NEW c, NEW p, NEW s, SlidingRuns(k, us, x, w, c, p, s), w <= us + Spread
  PROVE  KeepsDelays(k, us, x)
  <1>1. PICK l \in Nat \ {0}, ww \in Nat \ {0}, d \in Nat : l = Limit /\ ww = Window /\ d = Spread
    BY Chosen
  <1>2. PICK k1 \in Nat, k2 \in 0..l, k3 \in Nat : k = <<k1, k2, k3>>
    BY <1>1 DEF Keys
  <1>3. /\ w \in Nat \ {0} /\ c \in 0..l /\ p \in 0..l /\ c \in Nat /\ p \in Nat
        /\ Rotated(k, us) = <<w, c, p>> /\ us < w + ww /\ w <= us + d
        /\ s \in Nat /\ s < ww /\ s = clampDuration(us - w)
        /\ x.allowed \in Outcomes(s, p, c)
        /\ x.keys = <<w, IF x.allowed THEN c + 1 ELSE c, p>>
    BY <1>1 DEF SlidingRuns
  <1>4. w + s <= us + d
    BY <1>3 DEF clampDuration
  <1>5. \/ k1 = 0 /\ c = 0 /\ p = 0
        \/ k1 # 0 /\ us < k1 + ww /\ w = k1 /\ c = k2 /\ p = k3
        \/ k1 # 0 /\ k1 + ww <= us /\ us < k1 + 2 * ww /\ w = k1 + ww /\ c = 0 /\ p = k2
        \/ k1 # 0 /\ k1 + 2 * ww <= us /\ c = 0 /\ p = 0
    <2>1. CASE k1 = 0
      <3>1. Rotated(k, us) = <<us, 0, 0>>
        BY <1>2, <2>1 DEF Rotated
      <3> QED
        BY <1>3, <2>1, <3>1
    <2>2. CASE k1 # 0
      <3>1. \/ us < k1 + ww /\ Rotated(k, us) = <<k1, k2, k3>>
            \/ /\ k1 + ww <= us /\ us < k1 + 2 * ww
               /\ Rotated(k, us) = <<k1 + ww, 0, k2>>
            \/ \E v \in Nat : /\ k1 + 2 * ww <= v /\ v <= us /\ us < v + ww
                              /\ Rotated(k, us) = <<v, 0, 0>>
        BY <1>1, <1>2, <2>2, RotatedCases
      <3>2. CASE us < k1 + ww /\ Rotated(k, us) = <<k1, k2, k3>>
        BY <1>3, <2>2, <3>2
      <3>3. CASE /\ k1 + ww <= us /\ us < k1 + 2 * ww
                 /\ Rotated(k, us) = <<k1 + ww, 0, k2>>
        BY <1>3, <2>2, <3>3
      <3>4. CASE \E v \in Nat : /\ k1 + 2 * ww <= v /\ v <= us /\ us < v + ww
                                /\ Rotated(k, us) = <<v, 0, 0>>
        <4>1. PICK v \in Nat : k1 + 2 * ww <= v /\ v <= us /\ Rotated(k, us) = <<v, 0, 0>>
          BY <3>4
        <4>2. k1 + 2 * ww <= us /\ c = 0 /\ p = 0
          BY <1>3, <4>1
        <4> QED
          BY <2>2, <4>2
      <3> QED
        BY <3>1, <3>2, <3>3, <3>4
    <2> QED
      BY <2>1, <2>2
  <1>6. Below(s, p, c) => x.allowed
    BY <1>1, <1>3, BelowAdmits
  <1>7. (c = 0 /\ p = 0) => x.allowed
    BY <1>3, <1>6, BelowNone
  <1>8. Admits(k, us) => x.allowed
    <2> SUFFICES ASSUME Admits(k, us) PROVE x.allowed
      OBVIOUS
    <2>1. k1 # 0 => Light(k1, k2, k3, us)
      BY <1>2 DEF Admits
    <2>2. k1 # 0 => Light(w, c, p, us)
      BY <1>1, <1>2, <1>3, <1>5, <2>1, LightRotated
    <2>3. k1 # 0 => Below(s, p, c)
      BY <1>1, <1>3, <2>2 DEF Light
    <2> QED
      BY <1>5, <1>6, <1>7, <2>3
  <1>9. Empties(k, us) => x.allowed /\ Fresh(x.keys)
    <2> SUFFICES ASSUME Empties(k, us) PROVE x.allowed /\ Fresh(x.keys)
      OBVIOUS
    <2>1. k1 # 0 => (k1 + 2 * ww <= us \/ (k2 = 0 /\ k1 + ww <= us))
      BY <1>1, <1>2 DEF Empties
    <2>2. c = 0 /\ p = 0
      BY <1>2, <1>5, <2>1
    <2>3. x.keys = <<w, 1, 0>>
      BY <1>3, <1>7, <2>2
    <2>4. Strategy = "sliding_window"
      BY DEF IsBucket
    <2> QED
      BY <1>7, <2>2, <2>3, <2>4 DEF Fresh
  <1>10. ASSUME ~x.allowed, NEW v \in Nat, After(us + x.retryAfter, v) \/ Admits(k, v)
         PROVE  Admits(x.keys, v)
    <2>1. x.keys = <<w, c, p>> /\ x.retryAfter = RetryAfter(s, p, c) /\ x.retryAfter \in Nat
      <3>1. x.keys = <<w, c, p>>
        BY <1>3, <1>10
      <3>2. x.retryAfter = RetryAfter(s, p, c)
        BY <1>10 DEF SlidingRuns
      <3>3. RetryAfter(s, p, c) \in Nat
        BY <1>1, <1>3, RetryAfterNat
      <3> QED
        BY <3>1, <3>2, <3>3
    <2> SUFFICES Light(w, c, p, v)
      BY <2>1 DEF Admits
    <2>2. CASE After(us + x.retryAfter, v)
      <3>1. us + x.retryAfter + d < v
        BY <1>1, <2>2 DEF After, Short
      <3>2. PICK t \in Nat : t = v - w /\ s + x.retryAfter < t
        BY <1>3, <1>4, <2>1, <3>1
      <3>3. /\ t < ww => Below(t, p, c)
            /\ (ww <= t /\ t < 2 * ww) => Below(t - ww, c, 0)
        BY <1>1, <1>3, <2>1, <3>2, RetryBelow
      <3>4. clampDuration(v - w) = t /\ v - (w + ww) = t - ww
        BY <1>3, <3>2 DEF clampDuration
      <3>5. v < w + ww => t < ww
        BY <1>3, <3>2
      <3>6. (w + ww <= v /\ v < w + 2 * ww) => (ww <= t /\ t < 2 * ww)
        BY <1>3, <3>2
      <3> QED
        BY <1>1, <3>3, <3>4, <3>5, <3>6 DEF Light
    <2>3. CASE Admits(k, v)
      <3>1. k1 # 0 => Light(k1, k2, k3, v)
        BY <1>2, <2>3 DEF Admits
      <3>2. k1 # 0
        BY <1>5, <1>7, <1>10
      <3> QED
        BY <1>1, <1>2, <1>3, <1>5, <3>1, <3>2, LightRotated
    <2> QED
      BY <1>10, <2>2, <2>3
  <1>11. ASSUME NEW v \in Nat, v >= us + x.reset + Short
         PROVE  Empties(x.keys, v)
    <2>1. PICK c1 \in Nat : c1 = (IF x.allowed THEN c + 1 ELSE c) /\ x.keys = <<w, c1, p>>
      BY <1>3
    <2>2. Short = d
      BY <1>1 DEF Short
    <2>3. CASE c1 > 0
      <3>1. PICK e \in Int : e = 2 * ww - s /\ e <= clampDuration(e) /\ clampDuration(e) \in Nat
        BY <1>3, ClampedAtLeast
      <3>2. x.reset = clampDuration(e)
        BY <1>1, <2>1, <2>3, <3>1 DEF SlidingRuns
      <3>3. w + 2 * ww <= v
        BY <1>3, <1>4, <1>11, <2>2, <3>1, <3>2
      <3> QED
        BY <1>1, <2>1, <3>3 DEF Empties
    <2>4. CASE ~(c1 > 0)
      <3>1. c1 = 0 /\ p > 0
        BY <1>3, <1>7, <2>1, <2>4
      <3>2. PICK e \in Int : e = ww - s /\ e <= clampDuration(e) /\ clampDuration(e) \in Nat
        BY <1>3, ClampedAtLeast
      <3>3. x.reset = clampDuration(e)
        BY <1>1, <2>1, <3>1, <3>2 DEF SlidingRuns, UntilBoundary
      <3>4. w + ww <= v
        BY <1>3, <1>4, <1>11, <2>2, <3>2, <3>3
      <3> QED
        BY <1>1, <2>1, <3>1, <3>4 DEF Empties
    <2> QED
      BY <2>3, <2>4
  <1> QED
    BY <1>8, <1>9, <1>10, <1>11 DEF KeepsDelays

LEMMA ScriptKeepsDelays ==
  ASSUME cfg \in Configs, NEW k \in Keys, NEW h \in Seq(Nat), NEW n \in Nat,
         Counts(k, h, n), NEW us, Reading(us, n), NEW x \in Script(k, us)
  PROVE  KeepsDelays(k, us, x)
  <1>1. us \in Nat
    BY DEF Reading
  <1>2. CASE IsBucket
    <2>1. Used(k) \in 0..Limit
      BY <1>2, LevelIs DEF Counts
    <2>2. PICK q1, r1 : BucketRuns(k, us, x, q1, r1)
      BY <1>1, <1>2, <2>1, BucketScriptRuns
    <2> QED
      BY <1>1, <1>2, <2>1, <2>2, BucketKeepsDelays
  <1>3. CASE ~IsBucket
    <2>1. x \in SlidingWindowScript(k, us)
      BY <1>3 DEF Script, IsBucket
    <2>2. PICK w, c, p, s : SlidingRuns(k, us, x, w, c, p, s) /\ Counted(w, c, p, h, n)
      BY <1>3, <2>1, SlidingWindowRuns
    <2>3. k[2] \in 0..Limit
      BY <1>3, CountedIs DEF Counts
    <2>4. w <= us + Spread
      <3>1. PICK sk \in Nat, de \in Nat : sk = MaxSkew /\ de = MaxDelay /\ Spread = sk + de
        BY Chosen
      <3>2. w \in Nat /\ w <= n + sk
        BY <2>2, <3>1, CountedIs
      <3>3. n <= us + de
        BY <3>1 DEF Reading
      <3>4. w <= us + (sk + de)
        BY <1>1, <3>2, <3>3
      <3> QED
        BY <3>1, <3>4
    <2> QED
      BY <1>1, <1>3, <2>2, <2>3, <2>4, SlidingKeepsDelays
  <1> QED
    BY <1>2, <1>3

LEMMA SameAnnounced ==
  ASSUME UNCHANGED cfg, NEW k, NEW l
  PROVE  Announced(k, l)' <=> Announced(k, l)
  <1>1. Short' = Short
    BY SameConfiguration DEF Short
  <1>2. \A s, p, c : Below(s, p, c)' <=> Below(s, p, c)
    BY SameConfiguration DEF Below, SlidingCount
  <1>3. \A w, c, p, us : Light(w, c, p, us)' <=> Light(w, c, p, us)
    BY <1>2, SameConfiguration DEF Light
  <1>4. Used(k)' = Used(k)
    BY SameConfiguration DEF Used
  <1>5. \A us : /\ Admits(k, us)' <=> Admits(k, us)
                /\ Empties(k, us)' <=> Empties(k, us)
    BY <1>3, <1>4, SameConfiguration DEF Admits, Empties
  <1>6. \A t, us : After(t, us)' <=> After(t, us)
    BY <1>1, SameConfiguration DEF After
  <1> QED
    BY <1>1, <1>5, <1>6 DEF Announced

(* What SharedDelaysKept says of a step that changes last. *)
Keeping ==
    /\ (~last'.allowed /\ ~last.allowed) =>
          \/ last'.us < last.retryAt
          \/ ~IsBucket /\ last'.us <= last.retryAt + Short
    /\ last'.us >= last.resetAt + Short => last'.allowed /\ AsAfterFirstCall'

LEMMA RunAnnounces ==
  ASSUME DInv, NEW us, Reading(us, now), NEW x \in Script(Current, us), Run(us, x), UNCHANGED cfg
  PROVE  Announced(keys, last)' /\ Keeping
  <1>1. PICK k, l, f : k = Current /\ l = last /\ f = last'
    OBVIOUS
  <1>2. cfg \in Configs /\ us \in Nat /\ k \in Keys
    BY <1>1, FoundCounts DEF DInv, IInv, TypeOK, Reading
  <1>3. Short \in Nat
    BY <1>2, Chosen DEF Short
  <1>4. KeepsDelays(k, us, x)
    <2>1. grants \in Seq(Nat) /\ now \in Nat /\ Counts(k, grants, now)
      BY <1>1, FoundCounts DEF DInv, IInv, TypeOK
    <2> QED
      BY <1>1, <1>2, <2>1, ScriptKeepsDelays
  <1>5. l.retryAt \in Nat /\ l.resetAt \in Nat
    BY <1>1 DEF DInv, IInv, TypeOK
  <1>6. x.retryAfter \in Nat /\ x.reset \in Nat /\ x.allowed \in BOOLEAN
    <2>1. PICK h, n : h = grants /\ n = now
      OBVIOUS
    <2>2. h \in Seq(Nat) /\ n \in Nat /\ \A i \in 1..Len(h) : h[i] <= n
      BY <2>1 DEF DInv, IInv, TypeOK, StoreOK
    <2>3. Counts(k, h, n)
      BY <1>1, <2>1, FoundCounts DEF DInv
    <2>4. Decided(x, h, n)
      BY <1>1, <1>2, <2>1, <2>2, <2>3, ScriptDecides
    <2> QED
      BY <2>4 DEF Decided
  <1>7. f = [allowed |-> x.allowed, us |-> us, resetAt |-> us + x.reset,
             retryAt |-> IF x.allowed THEN 0 ELSE RetryAt(us + x.retryAfter)]
    BY <1>1 DEF Run
  <1>8. /\ f.allowed = x.allowed /\ f.us = us /\ f.resetAt = us + x.reset
        /\ ~x.allowed => \/ f.retryAt = l.retryAt /\ ~l.allowed
                         \/ f.retryAt = us + x.retryAfter
    BY <1>1, <1>7 DEF RetryAt
  <1>9. Announced(k, l)
    <2>1. Announced(keys, l)
      BY <1>1 DEF DInv
    <2>2. Announced(Absent, l)
      BY DEF Announced, Admits, Empties, Absent
    <2> QED
      BY <1>1, <2>1, <2>2 DEF Current
  <1>10. Announced(x.keys, f)
    <2>1. ASSUME ~f.allowed, NEW v \in Nat, After(f.retryAt, v) PROVE Admits(x.keys, v)
      <3>1. CASE f.retryAt = l.retryAt /\ ~l.allowed
        <4>1. Admits(k, v)
          BY <1>9, <2>1, <3>1 DEF Announced
        <4> QED
          BY <1>4, <1>8, <2>1, <4>1 DEF KeepsDelays
      <3>2. CASE f.retryAt = us + x.retryAfter
        BY <1>4, <1>8, <2>1, <3>2 DEF KeepsDelays
      <3> QED
        BY <1>8, <2>1, <3>1, <3>2
    <2>2. ASSUME NEW v \in Nat, v >= f.resetAt + Short PROVE Empties(x.keys, v)
      BY <1>4, <1>8, <2>2 DEF KeepsDelays
    <2> QED
      BY <2>1, <2>2 DEF Announced
  <1>11. Announced(keys, last)'
    <2>1. PICK kk : kk = x.keys
      OBVIOUS
    <2>2. Announced(kk, f)'
      BY <1>10, <2>1, SameAnnounced
    <2>3. keys' = kk
      BY <2>1 DEF Run
    <2> QED
      BY <1>1, <2>2, <2>3
  <1>12. Keeping
    <2>1. ASSUME ~x.allowed, ~l.allowed
          PROVE  us < l.retryAt \/ (~IsBucket /\ us <= l.retryAt + Short)
      <3>1. ~After(l.retryAt, us)
        BY <1>2, <1>4, <1>9, <2>1 DEF Announced, KeepsDelays
      <3> QED
        BY <1>2, <1>3, <1>5, <3>1 DEF After
    <2>2. ASSUME us >= l.resetAt + Short PROVE x.allowed /\ AsAfterFirstCall'
      <3>1. x.allowed /\ Fresh(x.keys)
        BY <1>2, <1>4, <1>9, <2>2 DEF Announced, KeepsDelays
      <3>2. keys' = x.keys
        BY DEF Run
      <3> QED
        BY <3>1, <3>2, SameConfiguration DEF Fresh, AsAfterFirstCall
    <2> QED
      BY <1>1, <1>8, <2>1, <2>2 DEF Keeping
  <1> QED
    BY <1>11, <1>12

(* A step that runs no script leaves what was announced. *)
LEMMA Unannounced ==
  ASSUME DInv, UNCHANGED <<cfg, keys, last>>
  PROVE  Announced(keys, last)'
  <1>1. PICK k, l : k = keys /\ l = last
    OBVIOUS
  <1>2. Announced(k, l)'
    BY <1>1, SameAnnounced DEF DInv
  <1> QED
    BY <1>1, <1>2

LEMMA AnnouncedStep ==
  ASSUME DInv, [Next]_vars
  PROVE  Announced(keys, last)' /\ (last' # last => Keeping)
  <1>1. cfg \in Configs /\ now \in Nat /\ RequestsOK
    BY RequestsFacts DEF DInv, IInv, TypeOK
  <1>2. ASSUME NEW i \in Instances, Eval(i) PROVE Announced(keys, last)' /\ Keeping
    <2>1. Reading(request[i].us, now)
      BY <1>1, <1>2, UnderwayReading DEF RequestsOK, Eval
    <2> QED
      BY <1>2, <2>1, RunAnnounces DEF Eval
  <1>3. ASSUME NEW r \in strays, EvalStray(r) PROVE Announced(keys, last)' /\ Keeping
    <2>1. Reading(r.us, now)
      BY <1>1, UnderwayReading DEF RequestsOK
    <2> QED
      BY <1>3, <2>1, RunAnnounces DEF EvalStray
  <1>4. ASSUME NEW i \in Instances, Allow(i) \/ Resend(i) \/ Return(i) \/ StoreError(i)
        PROVE  UNCHANGED <<cfg, keys, last>>
    BY <1>4 DEF Allow, Resend, Return, StoreError
  <1>5. Tick => UNCHANGED <<cfg, keys, last>>
    BY DEF Tick
  <1>6. UNCHANGED vars => UNCHANGED <<cfg, keys, last>>
    BY DEF vars
  <1> QED
    BY <1>2, <1>3, <1>4, <1>5, <1>6, Unannounced DEF Next

(* Whichever instances ask, and across an expiry of the keys, a denied     *)
(* call that waits RetryAfter is granted if none was before, and after     *)
(* Reset the limiter is as new (the three scripts).                        *)
THEOREM SharedDelaysAreKept == Spec => SharedDelaysKept
  <1>1. Init => Announced(keys, last)
    BY DEF Init, Announced, Admits, Empties, Absent, NoDecision
  <1>2. DInv /\ [Next]_vars => Announced(keys, last)' /\ (last' # last => Keeping)
    BY AnnouncedStep
  <1>3. DInv /\ [Next]_vars => DInv'
    BY <1>2, StepKeeps DEF DInv
  <1>4. Init => DInv
    BY <1>1, Initially DEF DInv
  <1>5. DInv /\ [Next]_vars => [last' # last => Keeping]_vars
    BY <1>2
  <1>6. Spec => [][last' # last => Keeping]_vars
    BY <1>3, <1>4, <1>5, PTL DEF Spec
  <1> QED
    BY <1>6 DEF SharedDelaysKept, Keeping
=============================================================================
