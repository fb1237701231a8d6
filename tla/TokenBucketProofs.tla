------------------------- MODULE TokenBucketProofs -------------------------
(***************************************************************************)
(* Proofs about TokenBucket for any goroutines, limits, windows, stalls,   *)
(* precisions of float64 and clocks that are set back.                     *)
(*                                                                         *)
(* The invariant says what the locals of a call are worth at each of its   *)
(* program points: the values in the store are those of locals, and the    *)
(* locals those of the store.                                              *)
(***************************************************************************)
EXTENDS TokenBucket, SequenceTheorems, TLAPS

(* The clock is never set back to before the epoch. *)
ClockOK == now >= Grain + MaxBack /\ back <= MaxBack

LocalsOK ==
    \A t \in Threads : LET d == loc[t] IN
        /\ d.now \in Nat /\ d.back \in Nat
        /\ pc[t] \in {"getRefill", "setTokens", "setRefill"} => d.tokens \in 0..Limit
        /\ pc[t] \in {"setTokens", "setRefill"} =>
             d.lastRefill \in Nat /\ d.nextTokenDelay \in Nat /\ d.reset \in Nat

IInv == TypeOK /\ ClockOK /\ LocalsOK /\ MutexReleased

-----------------------------------------------------------------------------
(* Arithmetic. *)

LEMMA DivBounds ==
  ASSUME NEW a \in Nat, NEW w \in Nat \ {0}
  PROVE  a \div w \in Nat /\ a % w \in 0..(w - 1)
  OBVIOUS

LEMMA Division ==
  ASSUME NEW a \in Nat, NEW w \in Nat \ {0}
  PROVE  /\ a \div w \in Nat /\ a % w \in 0..(w - 1)
         /\ (a \div w) * w \in Nat /\ a = (a \div w) * w + (a % w)
         /\ (a \div w + 1) * w = (a \div w) * w + w
  OBVIOUS

LEMMA ProductNat ==
  ASSUME NEW a \in Nat, NEW b \in Nat
  PROVE  a * b \in Nat
  OBVIOUS

LEMMA Float64Nat ==
  ASSUME NEW x \in Nat, NEW g \in Nat \ {0}
  PROVE  Float64(x, g) \in Nat
  <1>1. x \div g \in Nat /\ x \div g + 1 \in Nat
    BY DivBounds
  <1>2. (x \div g) * g \in Nat /\ (x \div g + 1) * g \in Nat
    BY <1>1, ProductNat
  <1> QED
    BY <1>2 DEF Float64

LEMMA Chosen ==
  ASSUME cfg \in Configs
  PROVE  /\ Limit \in Nat \ {0} /\ Window \in Nat \ {0} /\ Grain \in Nat \ {0} /\ MaxBack \in Nat
         /\ TimePerToken \in Nat \ {0}
  <1>1. Limit \in Nat \ {0} /\ Window \in Nat \ {0} /\ Grain \in Nat \ {0} /\ MaxBack \in Nat
    BY ConfigsAssumption, EnvironmentAssumption DEF Limit, Window, Grain, MaxBack
  <1>2. Window \div Limit \in Nat
    BY <1>1, DivBounds
  <1> QED
    BY <1>1, <1>2 DEF TimePerToken

(* A decision leaves between no tokens and Limit of them, and announces    *)
(* delays that are not negative.                                           *)
LEMMA Decision ==
  ASSUME cfg \in Configs, NEW l \in Local, l.now \in Nat, l.tokens \in 0..Limit,
         NEW r \in Nat, NEW d, d = Decide(l, r)
  PROVE  /\ d \in Local /\ d.now = l.now /\ d.back = l.back
         /\ d.tokens \in 0..Limit
         /\ d.lastRefill \in Nat /\ d.nextTokenDelay \in Nat /\ d.reset \in Nat
  <1>1. Limit \in Nat \ {0} /\ TimePerToken \in Nat \ {0}
    BY Chosen
  <1> DEFINE new   == NewTokens(l.now - r)
             avail == Available(l.now, l.tokens, r)
             ok    == avail > 0
             left  == IF ok THEN avail - 1 ELSE avail
             refil == LastRefill(l.now, r)
             wait  == clampDuration(TimePerToken - (l.now - refil))
             full  == Reset(left, l.now - refil)
  <1>2. new \in Nat
    <2>1. CASE l.now - r > 0
      <3>1. l.now - r \in Nat
        BY <2>1
      <3>2. (l.now - r) \div TimePerToken \in Nat
        BY <1>1, <3>1, DivBounds
      <3> QED
        BY <2>1, <3>2 DEF NewTokens
    <2>2. CASE ~(l.now - r > 0)
      BY <2>2 DEF NewTokens
    <2> QED
      BY <2>1, <2>2
  <1>3. avail \in 0..Limit
    BY <1>1, <1>2 DEF Available, Smaller
  <1>4. left \in 0..Limit /\ ok \in BOOLEAN
    BY <1>1, <1>3
  <1>5. refil \in Nat
    <2>1. new * TimePerToken \in Nat
      BY <1>1, <1>2, ProductNat
    <2> QED
      BY <2>1 DEF LastRefill
  <1>6. wait \in Nat
    BY <1>1, <1>5 DEF clampDuration
  <1>7. full \in Nat
    <2>1. Limit - left \in Nat
      BY <1>1, <1>4
    <2>2. (Limit - left) * TimePerToken \in Nat
      BY <1>1, <2>1, ProductNat
    <2> HIDE DEF left, refil
    <2> QED
      BY <1>5, <2>2 DEF Reset, clampDuration
  <1>8. d = [now |-> l.now, back |-> l.back, tokens |-> left, lastRefill |-> refil,
             allowed |-> ok, nextTokenDelay |-> wait, reset |-> full]
    BY DEF Decide
  <1> HIDE DEF left, refil, ok, wait, full
  <1> QED
    BY <1>1, <1>4, <1>5, <1>6, <1>7, <1>8 DEF Local

-----------------------------------------------------------------------------
LEMMA SameConfiguration ==
  ASSUME UNCHANGED cfg
  PROVE  Limit' = Limit /\ Window' = Window /\ Grain' = Grain /\ MaxBack' = MaxBack
  BY DEF Limit, Window, Grain, MaxBack

LEMMA ClockFacts ==
  ASSUME IInv
  PROVE  /\ cfg \in Configs /\ now \in Nat /\ back \in Nat /\ Wall \in Nat /\ Window \in Nat \ {0}
         /\ Limit \in Nat \ {0} /\ Grain \in Nat \ {0} /\ MaxBack \in Nat
  <1>1. cfg \in Configs /\ now \in Nat /\ back \in Nat
    BY DEF IInv, TypeOK
  <1>2. /\ Window \in Nat \ {0} /\ Limit \in Nat \ {0} /\ Grain \in Nat \ {0} /\ MaxBack \in Nat
    BY <1>1, Chosen
  <1> QED
    BY <1>1, <1>2 DEF IInv, ClockOK, Wall

(* What is written to the store. *)
LEMMA WrittenTokens ==
  ASSUME IInv, NEW t \in Threads, pc[t] \in {"setTokens", "setRefill"}
  PROVE  Written(loc[t].tokens, Wall, Window) \in [value : 0..Limit, expiresAt : Nat]
  <1>1. loc[t].tokens \in 0..Limit
    BY DEF IInv, LocalsOK
  <1> QED
    BY <1>1, ClockFacts DEF Written

LEMMA WrittenRefill ==
  ASSUME IInv, NEW t \in Threads, pc[t] = "setRefill"
  PROVE  Written(Float64(loc[t].lastRefill, Grain), Wall, Window) \in [value : Nat, expiresAt : Nat]
  <1>1. loc[t].lastRefill \in Nat
    BY DEF IInv, LocalsOK
  <1>2. Float64(loc[t].lastRefill, Grain) \in Nat
    BY <1>1, ClockFacts, Float64Nat
  <1> QED
    BY <1>2, ClockFacts DEF Written

(* The invariant after a step that moves one goroutine, outside the store  *)
(* and the history.                                                        *)
Others(t) == \A u \in Threads \ {t} : pc'[u] = pc[u] /\ loc'[u] = loc[u]

LEMMA Entering ==
  ASSUME IInv, NEW t \in Threads, Allow(t) \/ Lock(t)
  PROVE  IInv'
  <1> USE DEF IInv
  <1>1. /\ UNCHANGED <<cfg, now, back, tokensCell, refillCell, metrics, failures, grants, last>>
        /\ pc[t] \in {"idle", "lock"}
    BY DEF Allow, Lock
  <1>2. Wall \in Nat /\ now \in Nat /\ back \in Nat
    BY ClockFacts
  <1>3. CASE Allow(t)
    <2>1. TypeOK' /\ ClockOK'
      BY <1>1, <1>3, SameConfiguration DEF Allow, Goto, TypeOK, ClockOK, PCs
    <2>2. LocalsOK' /\ MutexReleased'
      BY <1>1, <1>3, SameConfiguration DEF Allow, Goto, LocalsOK, MutexReleased, TypeOK
    <2> QED
      BY <2>1, <2>2
  <1>4. CASE Lock(t)
    <2>1. PICK w \in Nat : w = Wall
      BY <1>2
    <2>2. PICK d : d = [loc[t] EXCEPT !.now = w, !.back = back]
      OBVIOUS
    <2>3. d \in Local /\ d.now = w /\ d.back = back /\ d.tokens = loc[t].tokens
      <3>1. loc[t] \in Local
        BY DEF TypeOK
      <3>2. PICK c : c = [loc[t] EXCEPT !.now = w]
        OBVIOUS
      <3>3. c \in Local /\ c.now = w /\ c.tokens = loc[t].tokens
        BY <3>1, <3>2 DEF Local
      <3>4. d = [c EXCEPT !.back = back]
        BY <2>2, <3>2
      <3>5. back \in Int
        BY <1>2
      <3> QED
        BY <3>3, <3>4, <3>5 DEF Local
    <2>4. /\ loc' \in [Threads -> Local] /\ loc'[t].now = w /\ loc'[t].back = back
          /\ \A u \in Threads \ {t} : loc'[u] = loc[u]
      <3>1. loc' = [loc EXCEPT ![t] = d]
        BY <1>4, <2>1, <2>2 DEF Lock, TypeOK
      <3> QED
        BY <2>3, <3>1 DEF TypeOK
    <2>5. /\ pc' \in [Threads -> PCs] /\ pc'[t] = "getTokens"
          /\ \A u \in Threads \ {t} : pc'[u] = pc[u]
          /\ mu = Nobody /\ mu' = t
      BY <1>4 DEF Lock, Goto, TypeOK, PCs
    <2>6. TypeOK' /\ ClockOK'
      BY <1>1, <1>4, <2>4, <2>5, SameConfiguration DEF Lock, TypeOK, ClockOK
    <2>7. LocalsOK'
      BY <1>1, <1>2, <2>4, <2>5, SameConfiguration DEF LocalsOK
    <2>8. MutexReleased'
      BY <2>5, EnvironmentAssumption DEF MutexReleased
    <2> QED
      BY <2>6, <2>7, <2>8
  <1> QED
    BY <1>3, <1>4

LEMMA Reading ==
  ASSUME IInv, NEW t \in Threads, GetTokens(t) \/ GetRefill(t)
  PROVE  IInv'
  <1> USE DEF IInv
  <1>1. /\ UNCHANGED <<cfg, now, back, tokensCell, refillCell, mu, calls, metrics, failures, grants, last>>
        /\ pc[t] \in {"getTokens", "getRefill"}
    BY DEF GetTokens, GetRefill
  <1>2. /\ cfg \in Configs /\ Wall \in Nat /\ loc[t] \in Local
        /\ loc[t].now \in Nat /\ loc[t].back \in Nat /\ Limit \in Nat \ {0}
    BY ClockFacts DEF TypeOK, LocalsOK
  <1>3. PICK d : /\ loc' = [loc EXCEPT ![t] = d] /\ d \in Local
                 /\ d.now \in Nat /\ d.back \in Nat /\ d.tokens \in 0..Limit
                 /\ GetRefill(t) => d.lastRefill \in Nat /\ d.nextTokenDelay \in Nat /\ d.reset \in Nat
    <2>1. CASE GetTokens(t)
      <3>1. Read(tokensCell, Wall) \in 0..Limit
        BY <1>2 DEF TypeOK, Read
      <3>2. PICK d : d = [loc[t] EXCEPT !.tokens = Read(tokensCell, Wall)]
        OBVIOUS
      <3>3. /\ d \in Local /\ d.now = loc[t].now /\ d.back = loc[t].back
            /\ d.tokens = Read(tokensCell, Wall)
        BY <1>2, <3>1, <3>2 DEF Local
      <3>4. loc' = [loc EXCEPT ![t] = d]
        BY <2>1, <3>2 DEF GetTokens
      <3>5. ~GetRefill(t)
        BY <2>1 DEF GetTokens, GetRefill
      <3> QED
        BY <1>2, <3>1, <3>3, <3>4, <3>5
    <2>2. CASE GetRefill(t)
      <3>1. Read(refillCell, Wall) \in Nat
        BY <1>2 DEF TypeOK, Read
      <3>2. PICK d : d = Decide(loc[t], Read(refillCell, Wall))
        OBVIOUS
      <3>3. loc' = [loc EXCEPT ![t] = d]
        BY <2>2, <3>2 DEF GetRefill
      <3>4. loc[t].tokens \in 0..Limit
        BY <2>2 DEF GetRefill, LocalsOK
      <3> QED
        BY <1>2, <3>1, <3>2, <3>3, <3>4, Decision
    <2> QED
      BY <2>1, <2>2
  <1>4. loc' \in [Threads -> Local] /\ loc'[t] = d /\ \A u \in Threads \ {t} : loc'[u] = loc[u]
    BY <1>3 DEF TypeOK
  <1>5. /\ pc' \in [Threads -> PCs] /\ \A u \in Threads \ {t} : pc'[u] = pc[u]
        /\ pc'[t] = IF GetRefill(t) THEN "setTokens" ELSE "getRefill"
    <2>1. CASE GetTokens(t)
      BY <2>1 DEF GetTokens, GetRefill, Goto, TypeOK, PCs
    <2>2. CASE GetRefill(t)
      BY <2>2 DEF GetTokens, GetRefill, Goto, TypeOK, PCs
    <2> QED
      BY <2>1, <2>2
  <1>6. TypeOK' /\ ClockOK'
    BY <1>1, <1>4, <1>5, SameConfiguration DEF TypeOK, ClockOK
  <1>7. LocalsOK'
    BY <1>1, <1>3, <1>4, <1>5, SameConfiguration DEF LocalsOK
  <1>8. MutexReleased'
    BY <1>1, <1>5 DEF MutexReleased
  <1> QED
    BY <1>6, <1>7, <1>8

LEMMA Writing ==
  ASSUME IInv, NEW t \in Threads, SetTokens(t)
  PROVE  IInv'
  <1> USE DEF IInv
  <1>1. /\ UNCHANGED <<cfg, now, back, refillCell, mu, loc, calls, metrics, failures, grants, last>>
        /\ pc[t] = "setTokens" /\ pc' = [pc EXCEPT ![t] = "setRefill"]
    BY DEF SetTokens, Goto
  <1>2. tokensCell' \in [value : 0..Limit, expiresAt : Nat]
    BY <1>1, WrittenTokens DEF SetTokens
  <1>3. TypeOK' /\ ClockOK'
    BY <1>1, <1>2, SameConfiguration DEF TypeOK, ClockOK, PCs
  <1>4. LocalsOK'
    BY <1>1, SameConfiguration DEF LocalsOK, TypeOK
  <1>5. MutexReleased'
    BY <1>1 DEF MutexReleased, TypeOK
  <1> QED
    BY <1>3, <1>4, <1>5

(* The end of a call, whatever its result. *)
LEMMA Returning ==
  ASSUME IInv, NEW t \in Threads, Return(t), mu = t, UNCHANGED <<cfg, now, back, calls>>,
         tokensCell' \in [value : 0..Limit, expiresAt : Nat],
         refillCell' \in [value : Nat, expiresAt : Nat],
         metrics' \in [allow : Nat, deny : Nat], failures' \in Nat,
         grants' \in Seq([at : Nat, failures : Nat]),
         last' \in [made : BOOLEAN, allowed : BOOLEAN, retryAt : Nat, fullAt : Nat]
  PROVE  IInv'
  <1> USE DEF IInv
  <1>1. /\ pc' = [pc EXCEPT ![t] = "idle"] /\ loc' = [loc EXCEPT ![t] = IdleLocal] /\ mu' = Nobody
    BY DEF Return, Goto
  <1>2. IdleLocal \in Local /\ IdleLocal.now = 0 /\ IdleLocal.back = 0
    BY DEF IdleLocal, Local
  <1>3. TypeOK'
    BY <1>1, <1>2, SameConfiguration DEF TypeOK, PCs
  <1>4. ClockOK'
    BY SameConfiguration DEF ClockOK
  <1>5. LocalsOK'
    <2>1. /\ pc'[t] = "idle" /\ loc'[t] = IdleLocal
          /\ \A u \in Threads \ {t} : pc'[u] = pc[u] /\ loc'[u] = loc[u]
      BY <1>1 DEF TypeOK
    <2>2. ASSUME NEW u \in Threads, u # t
          PROVE  /\ loc'[u].now \in Nat /\ loc'[u].back \in Nat
                 /\ pc'[u] \in {"getRefill", "setTokens", "setRefill"} => loc'[u].tokens \in 0..Limit
                 /\ pc'[u] \in {"setTokens", "setRefill"} =>
                      loc'[u].lastRefill \in Nat /\ loc'[u].nextTokenDelay \in Nat /\ loc'[u].reset \in Nat
      BY <2>1, <2>2 DEF LocalsOK
    <2>3. loc'[t].now \in Nat /\ loc'[t].back \in Nat /\ pc'[t] = "idle"
      BY <1>2, <2>1
    <2> QED
      BY <2>2, <2>3, SameConfiguration DEF LocalsOK
  <1>6. MutexReleased'
    <2>1. ASSUME NEW u \in Threads PROVE mu' # u /\ pc'[u] \in {"idle", "lock"}
      BY <1>1, EnvironmentAssumption DEF MutexReleased, TypeOK
    <2> QED
      BY <2>1 DEF MutexReleased
  <1> QED
    BY <1>3, <1>4, <1>5, <1>6

LEMMA Completing ==
  ASSUME IInv, NEW t \in Threads, SetRefill(t)
  PROVE  IInv'
  <1> USE DEF IInv
  <1>1. /\ pc[t] = "setRefill" /\ UNCHANGED <<cfg, now, back, tokensCell, calls, failures>> /\ Return(t)
    BY DEF SetRefill
  <1>2. refillCell' \in [value : Nat, expiresAt : Nat]
    BY <1>1, WrittenRefill DEF SetRefill
  <1>3. /\ loc[t].now \in Nat /\ loc[t].back \in Nat /\ loc[t].nextTokenDelay \in Nat
        /\ loc[t].reset \in Nat /\ loc[t].allowed \in BOOLEAN /\ ReadAt(loc[t]) \in Nat
    <2>1. /\ loc[t].now \in Nat /\ loc[t].back \in Nat /\ loc[t].nextTokenDelay \in Nat
          /\ loc[t].reset \in Nat
      BY <1>1 DEF LocalsOK
    <2>2. loc[t] \in Local
      BY DEF TypeOK
    <2>3. loc[t].allowed \in BOOLEAN
      BY <2>2 DEF Local
    <2> QED
      BY <2>1, <2>3 DEF ReadAt
  <1>4. mu = t
    BY <1>1 DEF MutexReleased
  <1>5. /\ metrics' \in [allow : Nat, deny : Nat]
        /\ grants' \in Seq([at : Nat, failures : Nat])
    <2>1. PICK g : g = [at |-> ReadAt(loc[t]), failures |-> failures]
      OBVIOUS
    <2>2. g \in [at : Nat, failures : Nat]
      BY <1>3, <2>1 DEF TypeOK
    <2>3. grants \in Seq([at : Nat, failures : Nat])
      BY DEF TypeOK
    <2>4. Append(grants, g) \in Seq([at : Nat, failures : Nat])
      BY <2>2, <2>3, AppendProperties
    <2>5. grants' = Append(grants, g) \/ grants' = grants
      BY <2>1 DEF SetRefill
    <2>6. metrics' \in [allow : Nat, deny : Nat]
      <3>1. metrics \in [allow : Nat, deny : Nat]
        BY DEF TypeOK
      <3>2. metrics' \in {[metrics EXCEPT !.allow = @ + 1], [metrics EXCEPT !.deny = @ + 1]}
        BY DEF SetRefill
      <3> QED
        BY <3>1, <3>2
    <2> QED
      BY <2>3, <2>4, <2>5, <2>6
  <1>6. last' \in [made : BOOLEAN, allowed : BOOLEAN, retryAt : Nat, fullAt : Nat]
    <2>1. PICK r : r = RetryAt(loc[t])
      OBVIOUS
    <2>2. r \in Nat
      <3>1. last.retryAt \in Nat
        BY DEF TypeOK
      <3>2. PICK at \in Nat : at = ReadAt(loc[t]) + loc[t].nextTokenDelay
        BY <1>3 DEF ReadAt
      <3>3. r \in {0, at, Smaller(last.retryAt, at)}
        BY <2>1, <3>2 DEF RetryAt
      <3> QED
        BY <3>1, <3>2, <3>3 DEF Smaller
    <2>3. PICK f : f = FullAt(loc[t])
      OBVIOUS
    <2>4. PICK a \in BOOLEAN : a = loc[t].allowed
      BY <1>3
    <2>5. PICK y \in BOOLEAN : y = TRUE
      OBVIOUS
    <2>6. \/ last' = NoDecision
          \/ last' = [made |-> y, allowed |-> a, retryAt |-> r, fullAt |-> f]
      BY <2>1, <2>3, <2>4, <2>5 DEF SetRefill
    <2>7. f \in Nat
      <3>1. Limit * TimePerToken \in Nat
        BY ClockFacts, Chosen, ProductNat
      <3>2. loc[t].lastRefill \in Nat
        BY <1>1 DEF LocalsOK
      <3> QED
        BY <1>3, <2>3, <3>1, <3>2 DEF FullAt
    <2>8. NoDecision \in [made : BOOLEAN, allowed : BOOLEAN, retryAt : Nat, fullAt : Nat]
      BY DEF NoDecision
    <2> QED
      BY <2>2, <2>6, <2>7, <2>8
  <1>7. tokensCell' \in [value : 0..Limit, expiresAt : Nat] /\ failures' \in Nat
    BY <1>1 DEF TypeOK
  <1> QED
    BY <1>1, <1>2, <1>4, <1>5, <1>6, <1>7, Returning

LEMMA Failing ==
  ASSUME IInv, NEW t \in Threads, StoreError(t)
  PROVE  IInv'
  <1> USE DEF IInv
  <1>1. /\ pc[t] \in {"getTokens", "getRefill", "setTokens", "setRefill"}
        /\ UNCHANGED <<cfg, now, back, calls, grants>> /\ Return(t)
    BY DEF StoreError
  <1>2. tokensCell' \in [value : 0..Limit, expiresAt : Nat]
    <2>1. tokensCell \in [value : 0..Limit, expiresAt : Nat]
      BY DEF TypeOK
    <2>2. \/ tokensCell' = tokensCell
          \/ pc[t] = "setTokens" /\ tokensCell' = Written(loc[t].tokens, Wall, Window)
      BY DEF StoreError
    <2> QED
      BY <2>1, <2>2, WrittenTokens
  <1>3. refillCell' \in [value : Nat, expiresAt : Nat]
    <2>1. refillCell \in [value : Nat, expiresAt : Nat]
      BY DEF TypeOK
    <2>2. \/ refillCell' = refillCell
          \/ pc[t] = "setRefill" /\ refillCell' = Written(Float64(loc[t].lastRefill, Grain), Wall, Window)
      BY DEF StoreError
    <2> QED
      BY <2>1, <2>2, WrittenRefill
  <1>4. metrics' \in [allow : Nat, deny : Nat]
    <2>1. metrics \in [allow : Nat, deny : Nat]
      BY DEF TypeOK
    <2>2. metrics' \in {metrics, [metrics EXCEPT !.allow = @ + 1]}
      BY DEF StoreError
    <2> QED
      BY <2>1, <2>2
  <1>5. failures' \in Nat /\ grants' \in Seq([at : Nat, failures : Nat])
    BY <1>1 DEF StoreError, TypeOK
  <1>6. last' \in [made : BOOLEAN, allowed : BOOLEAN, retryAt : Nat, fullAt : Nat]
    BY DEF StoreError, NoDecision
  <1>7. mu = t
    BY <1>1 DEF MutexReleased
  <1> QED
    BY <1>1, <1>2, <1>3, <1>4, <1>5, <1>6, <1>7, Returning

LEMMA Passing ==
  ASSUME IInv, Tick \/ StepBack
  PROVE  IInv'
  <1> USE DEF IInv
  <1>1. UNCHANGED <<cfg, tokensCell, refillCell, mu, pc, loc, calls, metrics, failures, grants>>
    BY DEF Tick, StepBack
  <1>2. now' \in Nat /\ now' >= now /\ back' \in Nat /\ back' <= MaxBack
    BY ClockFacts DEF Tick, StepBack, ClockOK
  <1>3. last' \in [made : BOOLEAN, allowed : BOOLEAN, retryAt : Nat, fullAt : Nat]
    <2>1. NoDecision \in [made : BOOLEAN, allowed : BOOLEAN, retryAt : Nat, fullAt : Nat]
      BY DEF NoDecision
    <2>2. last' = NoDecision \/ last' = last
      BY DEF Tick, StepBack
    <2> QED
      BY <2>1, <2>2 DEF TypeOK
  <1>4. TypeOK'
    BY <1>1, <1>2, <1>3, SameConfiguration DEF TypeOK
  <1>5. ClockOK'
    BY <1>1, <1>2, ClockFacts, SameConfiguration DEF ClockOK
  <1>6. LocalsOK' /\ MutexReleased'
    BY <1>1, SameConfiguration DEF LocalsOK, MutexReleased
  <1> QED
    BY <1>4, <1>5, <1>6

LEMMA InitHolds ==
  ASSUME Init
  PROVE  IInv
  <1>1. cfg \in Configs
    BY DEF Init
  <1>2. Limit \in Nat \ {0} /\ Grain \in Nat \ {0} /\ MaxBack \in Nat
    BY <1>1, Chosen
  <1>3. TypeOK
    <2>1. IdleLocal \in Local
      BY DEF IdleLocal, Local
    <2>2. grants \in Seq([at : Nat, failures : Nat])
      BY DEF Init
    <2> QED
      BY <1>2, <2>1, <2>2 DEF Init, TypeOK, EmptyCell, PCs, NoDecision
  <1>4. ClockOK
    BY <1>2 DEF Init, ClockOK
  <1>5. LocalsOK
    BY DEF Init, LocalsOK, IdleLocal
  <1>6. MutexReleased
    BY EnvironmentAssumption DEF Init, MutexReleased
  <1> QED
    BY <1>3, <1>4, <1>5, <1>6 DEF IInv

LEMMA StepKeeps ==
  ASSUME IInv, [Next]_vars
  PROVE  IInv'
  <1>1. ASSUME NEW t \in Threads, Allow(t) \/ Step(t) PROVE IInv'
    BY <1>1, Entering, Reading, Writing, Completing, Failing DEF Step
  <1>2. CASE Tick \/ StepBack
    BY <1>2, Passing
  <1>3. CASE UNCHANGED vars
    <2>1. TypeOK' /\ ClockOK'
      BY <1>3, SameConfiguration DEF vars, IInv, TypeOK, ClockOK
    <2>2. LocalsOK' /\ MutexReleased'
      BY <1>3, SameConfiguration DEF vars, IInv, LocalsOK, MutexReleased
    <2> QED
      BY <2>1, <2>2 DEF IInv
  <1> QED
    BY <1>1, <1>2, <1>3 DEF Next

(* The mutex is held exactly from Lock to Return, and what a call has read *)
(* stays between nothing and Limit, through errors, expiries and steps     *)
(* back of the clock (token_bucket.go:46-139).                             *)
THEOREM InductiveInvariant == Spec => []IInv
  <1> QED
    BY InitHolds, StepKeeps, PTL DEF Spec

(* What the store holds is always a count from 0 to Limit and a refill     *)
(* time, however the clock is set back (token_bucket.go:57-114).           *)
THEOREM TypeCorrect == Spec => []TypeOK
  <1>1. IInv => TypeOK
    BY DEF IInv
  <1> QED
    BY <1>1, InductiveInvariant, PTL

(* Exactly the goroutine in the critical section holds the mutex, so every *)
(* return releases it (token_bucket.go:51-52).                             *)
THEOREM MutexIsReleased == Spec => []MutexReleased
  <1>1. IInv => MutexReleased
    BY DEF IInv
  <1> QED
    BY <1>1, InductiveInvariant, PTL
-----------------------------------------------------------------------------
(* What a result announces.  The second invariant ties it to the two keys: *)
(* in the store between two calls, in the hands of a call during one.  All *)
(* of it holds for announcements that no step back of the clock has made   *)
(* void.                                                                   *)

(* The time to fill a bucket of k tokens. *)
Room(k) == (Limit - k) * TimePerToken

(* What the decision d announced is kept by the decision l of a call that  *)
(* has read the count k where the store holds tv.                          *)
KeptBy(l, k, d, tv) ==
    d.made =>
        /\ (~l.allowed /\ ~d.allowed) => ReadAt(l) < d.retryAt
        /\ ReadAt(l) >= d.fullAt + Err =>
             Found(l) >= IF k = tv THEN Limit ELSE Smaller(Limit, Sure)

(* A denial leaves the refill time v as it is, and what is announced is    *)
(* enough for the next token, and for all that are missing.                *)
Settled(l, v) ==
    /\ ~l.allowed => l.lastRefill = v /\ l.nextTokenDelay = TimePerToken - (l.now - v)
    /\ l.reset >= Room(l.tokens) - (l.now - l.lastRefill)

(* A call at p with the locals l, the two cells, the last decision, and    *)
(* the clock.                                                              *)
InHand(p, l, tc, rv, d, n, b) ==
    p \notin {"idle", "lock"} =>
        /\ l.back <= b /\ ReadAt(l) <= n
        /\ d.made => l.back = b
        /\ p \in {"getTokens", "getRefill"} => n <= ReadAt(l) + MaxStall
        /\ (p = "getRefill" /\ d.made) =>
             l.tokens = tc.value \/ (l.tokens = 0 /\ tc.expiresAt < l.now + MaxStall)
        /\ p \in {"setTokens", "setRefill"} => Settled(l, rv)
        /\ p = "setRefill" =>
             l.tokens = tc.value /\ (l.back = b => tc.expiresAt >= l.now + Window)

(* The refill time that denials leave where it is. *)
RetryOK(rv, d, b) ==
    /\ rv % Grain = 0
    /\ (d.made /\ ~d.allowed) => d.retryAt = rv + b + TimePerToken

(* From the announced time on, time since the stored refill is enough for  *)
(* the tokens that are missing, and for all of them if the count is gone.  *)
FullOK(tc, rv, d, b) ==
    d.made =>
        /\ rv + b + Room(tc.value) <= d.fullAt + Err
        /\ \/ rv + b + Room(0) <= d.fullAt + Err
           \/ rv + Window <= tc.expiresAt + Err

KInv ==
    /\ IInv
    /\ RetryOK(refillCell.value, last, back)
    /\ (\A t \in Threads : pc[t] # "setRefill") => FullOK(tokensCell, refillCell.value, last, back)
    /\ \A t \in Threads : InHand(pc[t], loc[t], tokensCell, refillCell.value, last, now, back)

LEMMA Durations ==
  ASSUME cfg \in Configs
  PROVE  /\ Limit \in Nat \ {0} /\ Window \in Nat \ {0} /\ Grain \in Nat \ {0}
         /\ TimePerToken \in Nat \ {0} /\ Err \in Nat /\ MaxStall \in Nat
         /\ Limit * TimePerToken \in Nat
         /\ \A k \in 0..Limit : Room(k) \in Nat /\ Room(k) <= Room(0)
         /\ Room(0) = Limit * TimePerToken
  <1>1. /\ Limit \in Nat \ {0} /\ Window \in Nat \ {0} /\ Grain \in Nat \ {0}
        /\ TimePerToken \in Nat \ {0}
    BY Chosen
  <1>2. MaxStall \in Nat
    BY EnvironmentAssumption DEF MaxStall
  <1>3. Err \in Nat
    BY <1>1 DEF Err
  <1>4. PICK n \in Nat \ {0}, w \in Nat \ {0} : n = Limit /\ w = TimePerToken
    BY <1>1
  <1>5. n * w \in Nat /\ (n - 0) * w = n * w
    BY ProductNat
  <1>6. ASSUME NEW k \in 0..Limit PROVE Room(k) \in Nat /\ Room(k) <= n * w
    <2>1. k \in Nat /\ n - k \in Nat
      BY <1>4
    <2>2. (n - k) * w \in Nat /\ k * w \in Nat /\ n * w = (n - k) * w + k * w
      BY <2>1, ProductNat
    <2> QED
      BY <1>4, <1>5, <2>2 DEF Room
  <1> QED
    BY <1>1, <1>2, <1>3, <1>4, <1>5, <1>6 DEF Room

(* Time for m tokens yields m tokens, and a yield of none is no time. *)
LEMMA Yield ==
  ASSUME cfg \in Configs, NEW e \in Int
  PROVE  /\ NewTokens(e) \in Nat
         /\ NewTokens(e) = 0 => e < TimePerToken
         /\ NewTokens(e) = 0 \/ NewTokens(e) * TimePerToken <= e
         /\ \A m \in Nat : e >= m * TimePerToken => NewTokens(e) >= m
  <1>1. PICK w \in Nat \ {0} : w = TimePerToken
    BY Chosen
  <1>2. CASE e > 0
    <2>1. PICK q \in Nat, r \in 0..(w - 1) : q = e \div w /\ q * w \in Nat /\ e = q * w + r
      <3>1. e \in Nat
        BY <1>2
      <3>2. /\ e \div w \in Nat /\ e % w \in 0..(w - 1)
            /\ (e \div w) * w \in Nat /\ e = (e \div w) * w + (e % w)
        BY <3>1, Division
      <3> QED
        BY <3>2
    <2>2. NewTokens(e) = q
      BY <1>1, <1>2, <2>1 DEF NewTokens
    <2>3. (q = 0 => e < w) /\ q * w <= e
      BY <2>1
    <2>4. ASSUME NEW m \in Nat, e >= m * w PROVE q >= m
      <3>1. ASSUME q < m PROVE FALSE
        <4>1. PICK k \in Nat : m = q + 1 + k
          <5>1. m - q - 1 \in Nat /\ m = q + 1 + (m - q - 1)
            BY <3>1
          <5> QED
            BY <5>1
        <4>2. m * w = q * w + w + k * w /\ k * w \in Nat
          BY <4>1, ProductNat
        <4> QED
          BY <2>1, <2>4, <4>2
      <3> QED
        BY <3>1
    <2> QED
      BY <1>1, <2>2, <2>3, <2>4
  <1>3. CASE ~(e > 0)
    <2>1. NewTokens(e) = 0
      BY <1>3 DEF NewTokens
    <2>2. ASSUME NEW m \in Nat, e >= m * w PROVE m = 0
      <3>1. ASSUME m # 0 PROVE FALSE
        <4>1. PICK k \in Nat : m = k + 1
          <5>1. m - 1 \in Nat /\ m = (m - 1) + 1
            BY <3>1
          <5> QED
            BY <5>1
        <4>2. m * w = k * w + w /\ k * w \in Nat
          BY <4>1, ProductNat
        <4> QED
          BY <1>3, <2>2, <4>2
      <3> QED
        BY <3>1
    <2> QED
      BY <1>1, <1>3, <2>1, <2>2
  <1> QED
    BY <1>2, <1>3

LEMMA YieldGrows ==
  ASSUME cfg \in Configs, NEW e \in Int, NEW f \in Int, e <= f
  PROVE  NewTokens(e) \in Nat /\ NewTokens(f) \in Nat /\ NewTokens(e) <= NewTokens(f)
  <1>1. PICK w \in Nat \ {0} : w = TimePerToken
    BY Chosen
  <1>2. PICK m \in Nat, n \in Nat : m = NewTokens(e) /\ n = NewTokens(f)
    BY Yield
  <1>3. m = 0 \/ m * w <= e
    BY <1>1, <1>2, Yield
  <1>4. m * w \in Nat /\ (f >= m * w => n >= m)
    BY <1>1, <1>2, Yield, ProductNat
  <1> QED
    BY <1>2, <1>3, <1>4

(* What a call decides and announces, from the two values it has read. *)
LEMMA Announced ==
  ASSUME cfg \in Configs, NEW l \in Local, l.now \in Nat, l.tokens \in 0..Limit,
         NEW v \in Nat, NEW d, d = Decide(l, v)
  PROVE  /\ ~d.allowed => v # 0 /\ d.now - v < TimePerToken
         /\ Settled(d, v)
         /\ (v = 0 \/ d.now >= v + Room(l.tokens)) => Found(d) = Limit
         /\ v # 0 => Found(d) >= Smaller(Limit, NewTokens(d.now - v))
  <1>1. /\ d \in Local /\ d.now = l.now /\ d.back = l.back /\ d.tokens \in 0..Limit
        /\ d.lastRefill \in Nat /\ d.nextTokenDelay \in Nat /\ d.reset \in Nat
    BY Decision
  <1>2. PICK lim \in Nat \ {0}, w \in Nat \ {0} : lim = Limit /\ w = TimePerToken
    BY Chosen
  <1>3. PICK e \in Int, k \in 0..lim : e = l.now - v /\ k = l.tokens
    BY <1>2
  <1>4. PICK n : n = NewTokens(e)
    OBVIOUS
  <1>5. n \in Nat /\ (n = 0 => e < w) /\ \A m \in Nat : e >= m * w => n >= m
    BY <1>2, <1>3, <1>4, Yield
  <1>6. PICK a : a = Available(l.now, l.tokens, v)
    OBVIOUS
  <1>7. /\ a \in 0..lim
        /\ v = 0 => a = lim
        /\ a = 0 => n = 0
        /\ (v # 0 /\ n >= lim - k) => a = lim
    BY <1>2, <1>3, <1>4, <1>5, <1>6 DEF Available, Smaller
  <1>8. PICK x \in Int : x = LastRefill(l.now, v) /\ x = d.lastRefill
    BY <1>1 DEF Decide
  <1>9. (v # 0 /\ n = 0) => x = v
    BY <1>2, <1>3, <1>4, <1>8 DEF LastRefill
  <1>10. /\ d.allowed <=> a > 0
         /\ d.tokens = IF a > 0 THEN a - 1 ELSE a
         /\ d.nextTokenDelay = clampDuration(w - (l.now - x))
         /\ d.reset = Reset(d.tokens, l.now - x)
    BY <1>2, <1>6, <1>8 DEF Decide
  <1>11. ~d.allowed => v # 0 /\ n = 0 /\ x = v
    BY <1>2, <1>7, <1>9, <1>10
  <1>12. ~d.allowed => d.nextTokenDelay = w - (l.now - v)
    BY <1>3, <1>5, <1>10, <1>11 DEF clampDuration
  <1>13. d.reset >= Room(d.tokens) - (l.now - x)
    <2>1. PICK f \in 0..Limit, r \in Nat : f = d.tokens /\ r = Room(f)
      BY <1>1, Durations
    <2>2. d.reset = IF Limit - f > 0 THEN clampDuration(r - (l.now - x)) ELSE 0
      BY <1>10, <2>1 DEF Reset, Room
    <2>3. Limit - f > 0
      BY <1>2, <1>7, <1>10, <2>1
    <2> QED
      BY <2>1, <2>2, <2>3 DEF clampDuration
  <1>14. (v = 0 \/ d.now >= v + Room(l.tokens)) => a = lim
    <2>1. PICK m \in Nat : m = lim - k
      BY <1>3
    <2>2. Room(l.tokens) = m * w /\ m * w \in Nat
      BY <1>2, <1>3, <2>1, ProductNat DEF Room
    <2>3. d.now >= v + Room(l.tokens) => n >= m
      BY <1>1, <1>3, <1>5, <2>2
    <2> QED
      BY <1>7, <2>1, <2>3
  <1>15. Found(d) = a
    BY <1>2, <1>7, <1>10 DEF Found
  <1>16. v # 0 => a >= Smaller(lim, n)
    <2>1. v # 0 => a = IF n > 0 THEN Smaller(k + n, lim) ELSE k
      BY <1>2, <1>3, <1>4, <1>6 DEF Available
    <2> QED
      BY <1>2, <1>3, <1>5, <2>1 DEF Smaller
  <1>17. n = NewTokens(d.now - v)
    BY <1>1, <1>3, <1>4
  <1> QED
    BY <1>1, <1>2, <1>3, <1>5, <1>8, <1>10, <1>11, <1>12, <1>13, <1>14, <1>15, <1>16, <1>17 DEF Settled

(* A stored time is a multiple of the grain, half of it too late at most,  *)
(* and stored again it stays what it is.                                   *)
LEMMA Stored ==
  ASSUME NEW x \in Nat, NEW g \in Nat \ {0}, NEW y, y = Float64(x, g)
  PROVE  /\ y \in Nat /\ y % g = 0 /\ y <= x + g \div 2
         /\ x % g = 0 => y = x
  <1>1. PICK q \in Nat, r \in 0..(g - 1) :
           /\ q = x \div g /\ r = x % g
           /\ q * g \in Nat /\ x = q * g + r /\ (q + 1) * g = q * g + g
    BY Division
  <1>2. (q * g) % g = 0 /\ ((q + 1) * g) % g = 0
    OBVIOUS
  <1>3. CASE 2 * r < g \/ (2 * r = g /\ q % 2 = 0)
    <2>1. y = q * g
      BY <1>1, <1>3 DEF Float64
    <2>2. g \div 2 \in Nat
      OBVIOUS
    <2> QED
      BY <1>1, <1>2, <2>1, <2>2
  <1>4. CASE ~(2 * r < g \/ (2 * r = g /\ q % 2 = 0))
    <2>1. y = (q + 1) * g
      BY <1>1, <1>4 DEF Float64
    <2>2. g - r <= g \div 2 /\ g \div 2 \in Nat /\ r # 0
      BY <1>1, <1>4
    <2> QED
      BY <1>1, <1>2, <2>1, <2>2
  <1> QED
    BY <1>3, <1>4

LEMMA KFacts ==
  ASSUME KInv
  PROVE  /\ cfg \in Configs /\ now \in Nat /\ back \in Nat /\ Wall \in Nat
         /\ Window \in Nat \ {0} /\ Limit \in Nat \ {0} /\ Grain \in Nat \ {0}
         /\ TimePerToken \in Nat \ {0} /\ Err \in Nat /\ MaxStall \in Nat
         /\ tokensCell.value \in 0..Limit /\ tokensCell.expiresAt \in Nat
         /\ refillCell.value \in Nat
         /\ last.made \in BOOLEAN /\ last.allowed \in BOOLEAN
         /\ last.retryAt \in Nat /\ last.fullAt \in Nat
         /\ \A t \in Threads :
              /\ loc[t] \in Local /\ loc[t].now \in Nat /\ loc[t].back \in Nat
              /\ loc[t].allowed \in BOOLEAN
              /\ InHand(pc[t], loc[t], tokensCell, refillCell.value, last, now, back)
  <1>1. IInv
    BY DEF KInv
  <1>2. /\ tokensCell \in [value : 0..Limit, expiresAt : Nat]
        /\ refillCell \in [value : Nat, expiresAt : Nat]
        /\ last \in [made : BOOLEAN, allowed : BOOLEAN, retryAt : Nat, fullAt : Nat]
        /\ \A t \in Threads : loc[t] \in Local
    BY <1>1 DEF IInv, TypeOK
  <1>3. \A t \in Threads : loc[t].now \in Nat /\ loc[t].back \in Nat
    BY <1>1 DEF IInv, LocalsOK
  <1>4. \A t \in Threads : loc[t].allowed \in BOOLEAN
    BY <1>2 DEF Local
  <1>5. \A t \in Threads : InHand(pc[t], loc[t], tokensCell, refillCell.value, last, now, back)
    BY DEF KInv
  <1> QED
    BY <1>1, <1>2, <1>3, <1>4, <1>5, ClockFacts, Durations

(* The other goroutines are outside the critical section. *)
Alone(t) == \A u \in Threads \ {t} : pc[u] \in {"idle", "lock"}

LEMMA HolderAlone ==
  ASSUME IInv, NEW t \in Threads, pc[t] \notin {"idle", "lock"} \/ mu = Nobody
  PROVE  Alone(t)
  BY EnvironmentAssumption DEF IInv, Alone, MutexReleased

LEMMA SameDurations ==
  ASSUME UNCHANGED cfg
  PROVE  /\ Limit' = Limit /\ Window' = Window /\ Grain' = Grain /\ Err' = Err
         /\ TimePerToken' = TimePerToken /\ MaxStall' = MaxStall
         /\ \A k : Room(k)' = Room(k)
  BY DEF Limit, Window, Grain, Err, TimePerToken, MaxStall, Room

(* The second invariant after a step of one goroutine. *)
LEMMA Moved ==
  ASSUME KInv, IInv', NEW t \in Threads, UNCHANGED <<cfg, now, back>>,
         NEW p, NEW l, pc' = [pc EXCEPT ![t] = p], loc' = [loc EXCEPT ![t] = l],
         Alone(t) \/ UNCHANGED <<tokensCell, refillCell, last>>,
         NEW tc, NEW rv, NEW d, tc = tokensCell', rv = refillCell'.value, d = last',
         RetryOK(rv, d, back),
         (p # "setRefill" /\ \A u \in Threads \ {t} : pc[u] # "setRefill") => FullOK(tc, rv, d, back),
         InHand(p, l, tc, rv, d, now, back)
  PROVE  KInv'
  <1>1. pc \in [Threads -> PCs] /\ loc \in [Threads -> Local]
    BY DEF KInv, IInv, TypeOK
  <1>2. /\ pc'[t] = p /\ loc'[t] = l
        /\ \A u \in Threads \ {t} : pc'[u] = pc[u] /\ loc'[u] = loc[u]
    BY <1>1
  <1>3. ASSUME NEW u \in Threads PROVE InHand(pc'[u], loc'[u], tc, rv, d, now, back)
    <2>1. CASE u = t
      BY <1>2, <2>1
    <2>2. CASE u # t /\ Alone(t)
      <3>1. pc'[u] \in {"idle", "lock"}
        BY <1>2, <2>2 DEF Alone
      <3> QED
        BY <3>1 DEF InHand
    <2>3. CASE u # t /\ UNCHANGED <<tokensCell, refillCell, last>>
      BY <1>2, <2>3, KFacts
    <2> QED
      BY <2>1, <2>2, <2>3
  <1>4. \A u \in Threads : InHand(pc[u], loc[u], tokensCell, refillCell.value, last, now, back)'
    BY <1>3, SameDurations DEF InHand, Settled, ReadAt
  <1>5. RetryOK(refillCell.value, last, back)'
    BY SameDurations DEF RetryOK
  <1>6. ((\A u \in Threads : pc[u] # "setRefill") => FullOK(tokensCell, refillCell.value, last, back))'
    BY <1>2, SameDurations DEF FullOK
  <1> QED
    BY <1>4, <1>5, <1>6 DEF KInv

(* A step that leaves the store alone. *)
LEMMA MovedOn ==
  ASSUME KInv, IInv', NEW t \in Threads, UNCHANGED <<cfg, now, back, tokensCell, refillCell, last>>,
         NEW p, NEW l, pc' = [pc EXCEPT ![t] = p], loc' = [loc EXCEPT ![t] = l],
         pc[t] # "setRefill", InHand(p, l, tokensCell, refillCell.value, last, now, back)
  PROVE  KInv'
  <1>1. PICK tc, rv, d : tc = tokensCell /\ rv = refillCell.value /\ d = last
    OBVIOUS
  <1>2. RetryOK(rv, d, back) /\ InHand(p, l, tc, rv, d, now, back)
    BY <1>1 DEF KInv
  <1>3. (p # "setRefill" /\ \A u \in Threads \ {t} : pc[u] # "setRefill") => FullOK(tc, rv, d, back)
    BY <1>1 DEF KInv
  <1> QED
    BY <1>1, <1>2, <1>3, Moved

LEMMA EnteringKeeps ==
  ASSUME KInv, IInv', NEW t \in Threads, Allow(t) \/ Lock(t)
  PROVE  KInv'
  <1>1. /\ UNCHANGED <<cfg, now, back, tokensCell, refillCell, last>>
        /\ pc[t] # "setRefill"
    BY DEF Allow, Lock
  <1>2. CASE Allow(t)
    <2>1. PICK p, l : p = "lock" /\ l = loc[t] /\ pc' = [pc EXCEPT ![t] = p] /\ loc' = [loc EXCEPT ![t] = l]
      <3>1. loc \in [Threads -> Local]
        BY DEF KInv, IInv, TypeOK
      <3>2. loc = [loc EXCEPT ![t] = loc[t]]
        BY <3>1
      <3>3. loc' = loc /\ pc' = [pc EXCEPT ![t] = "lock"]
        BY <1>2 DEF Allow, Goto
      <3> QED
        BY <3>2, <3>3
    <2>2. InHand(p, l, tokensCell, refillCell.value, last, now, back)
      BY <2>1 DEF InHand
    <2> QED
      BY <1>1, <2>1, <2>2, MovedOn
  <1>3. CASE Lock(t)
    <2>1. PICK w \in Nat, k \in Nat : w = Wall /\ k = back
      BY KFacts
    <2>2. PICK c : c = [loc[t] EXCEPT !.now = w]
      OBVIOUS
    <2>3. PICK l : l = [c EXCEPT !.back = k]
      OBVIOUS
    <2>4. c \in Local /\ c.now = w
      BY <2>2, KFacts DEF Local
    <2>5. l \in Local /\ l.now = w /\ l.back = k
      BY <2>3, <2>4 DEF Local
    <2>6. PICK p : p = "getTokens" /\ pc' = [pc EXCEPT ![t] = p]
      BY <1>3 DEF Lock, Goto
    <2>7. loc' = [loc EXCEPT ![t] = l]
      <3>1. loc' = [loc EXCEPT ![t].now = w, ![t].back = k]
        BY <1>3, <2>1 DEF Lock
      <3> QED
        BY <2>2, <2>3, <3>1 DEF KInv, IInv, TypeOK
    <2>8. ReadAt(l) = now
      BY <2>1, <2>5, KFacts DEF ReadAt, Wall
    <2>9. InHand(p, l, tokensCell, refillCell.value, last, now, back)
      BY <2>1, <2>5, <2>6, <2>8, KFacts DEF InHand
    <2> QED
      BY <1>1, <2>6, <2>7, <2>9, MovedOn
  <1> QED
    BY <1>2, <1>3

LEMMA ReadingKeeps ==
  ASSUME KInv, IInv', NEW t \in Threads, GetTokens(t)
  PROVE  KInv'
  <1>1. /\ UNCHANGED <<cfg, now, back, tokensCell, refillCell, last>>
        /\ pc[t] = "getTokens"
    BY DEF GetTokens
  <1>2. PICK v : v = Read(tokensCell, Wall)
    OBVIOUS
  <1>3. PICK l : l = [loc[t] EXCEPT !.tokens = v]
    OBVIOUS
  <1>4. /\ v \in 0..Limit
        /\ v = tokensCell.value \/ (v = 0 /\ tokensCell.expiresAt < Wall)
    BY <1>2, KFacts DEF Read, Live
  <1>5. l.now = loc[t].now /\ l.back = loc[t].back /\ l.tokens = v
    BY <1>3, <1>4, KFacts DEF Local
  <1>6. PICK p : p = "getRefill" /\ pc' = [pc EXCEPT ![t] = p]
    BY DEF GetTokens, Goto
  <1>7. loc' = [loc EXCEPT ![t] = l]
    BY <1>2, <1>3 DEF GetTokens
  <1>8. /\ loc[t].back <= back /\ ReadAt(loc[t]) <= now /\ now <= ReadAt(loc[t]) + MaxStall
        /\ last.made => loc[t].back = back
    BY <1>1, KFacts DEF InHand
  <1>9. last.made => Wall <= l.now + MaxStall
    BY <1>5, <1>8, KFacts DEF ReadAt, Wall
  <1>10. InHand(p, l, tokensCell, refillCell.value, last, now, back)
    <2>1. ReadAt(l) = ReadAt(loc[t])
      BY <1>5 DEF ReadAt
    <2>2. last.made => l.tokens = tokensCell.value \/ (l.tokens = 0 /\ tokensCell.expiresAt < l.now + MaxStall)
      BY <1>4, <1>5, <1>9, KFacts
    <2> QED
      BY <1>5, <1>6, <1>8, <2>1, <2>2 DEF InHand
  <1> QED
    BY <1>1, <1>6, <1>7, <1>10, MovedOn

(* The decision keeps what the last one announced. *)
LEMMA DecisionKeeps ==
  ASSUME KInv, NEW t \in Threads, pc[t] = "getRefill", NEW v,
         v = Read(refillCell, Wall), NEW d, d = Decide(loc[t], v)
  PROVE  Settled(d, refillCell.value) /\ KeptBy(d, loc[t].tokens, last, tokensCell.value)
  <1>1. v \in {0, refillCell.value} /\ v \in Nat
    BY KFacts DEF Read
  <1>2. loc[t].tokens \in 0..Limit
    BY DEF KInv, IInv, LocalsOK
  <1>3. d.now = loc[t].now /\ d.back = loc[t].back
    BY <1>1, <1>2, KFacts, Decision
  <1>4. /\ ~d.allowed => v # 0 /\ d.now - v < TimePerToken
        /\ Settled(d, v)
        /\ (v = 0 \/ d.now >= v + Room(loc[t].tokens)) => Found(d) = Limit
        /\ v # 0 => Found(d) >= Smaller(Limit, NewTokens(d.now - v))
    BY <1>1, <1>2, KFacts, Announced
  <1>5. Settled(d, refillCell.value)
    BY <1>1, <1>4 DEF Settled
  <1>6. ASSUME last.made PROVE loc[t].back = back
    BY <1>6, KFacts DEF InHand
  <1>7. PICK m \in Nat, b \in Nat : m = d.now /\ b = back
    BY <1>3, KFacts
  <1>8. ASSUME last.made, ~d.allowed, ~last.allowed PROVE ReadAt(d) < last.retryAt
    <2>1. v = refillCell.value
      BY <1>1, <1>4, <1>8
    <2>2. last.retryAt = v + b + TimePerToken
      BY <1>7, <1>8, <2>1 DEF KInv, RetryOK
    <2>3. ReadAt(d) = m + b
      BY <1>3, <1>6, <1>7, <1>8 DEF ReadAt
    <2>4. m - v < TimePerToken
      BY <1>4, <1>7, <1>8
    <2> QED
      BY <1>1, <1>7, <2>2, <2>3, <2>4, KFacts
  <1>9. ASSUME last.made, ReadAt(d) >= last.fullAt + Err
        PROVE  Found(d) >= IF loc[t].tokens = tokensCell.value THEN Limit ELSE Smaller(Limit, Sure)
    <2> DEFINE enough == IF loc[t].tokens = tokensCell.value THEN Limit ELSE Smaller(Limit, Sure)
    <2>0. enough \in Int /\ enough <= Limit /\ Limit \in Nat
      <3>1. PICK e \in Int : e = Window + 1 - Err - MaxStall
        BY KFacts
      <3>2. Sure \in Nat
        BY <3>1, KFacts, Yield DEF Sure
      <3> QED
        BY <3>2, KFacts DEF Smaller
    <2> HIDE DEF enough
    <2> SUFFICES Found(d) >= enough
      BY DEF enough
    <2>1. CASE v = 0
      BY <1>4, <2>0, <2>1
    <2>2. CASE v # 0
      <3>1. v = refillCell.value
        BY <1>1, <2>2
      <3>2. \A u \in Threads : pc[u] # "setRefill"
        BY HolderAlone DEF KInv, Alone
      <3>3. FullOK(tokensCell, v, last, b)
        BY <1>7, <3>1, <3>2 DEF KInv
      <3>4. PICK f \in Nat, h \in Nat : f = last.fullAt /\ h = Err
        BY KFacts
      <3>5. ReadAt(d) = m + b /\ m + b >= f + h
        BY <1>3, <1>6, <1>7, <1>9, <3>4 DEF ReadAt
      <3>6. PICK r0 \in Nat, r1 \in Nat : r0 = Room(0) /\ r1 = Room(tokensCell.value) /\ r1 <= r0
        <4>1. 0 \in 0..Limit
          BY KFacts
        <4> QED
          BY <4>1, KFacts, Durations
      <3>7. v + b + r1 <= f + h
        BY <1>9, <3>3, <3>4, <3>6 DEF FullOK
      <3>8. v + b + r0 <= f + h \/ v + Window <= tokensCell.expiresAt + h
        BY <1>9, <3>3, <3>4, <3>6 DEF FullOK
      <3>9. \/ loc[t].tokens = tokensCell.value
            \/ loc[t].tokens = 0 /\ tokensCell.expiresAt < m + MaxStall
        BY <1>3, <1>7, <1>9, KFacts DEF InHand
      <3>10. CASE loc[t].tokens = tokensCell.value
        <4>1. m >= v + r1
          BY <1>1, <1>7, <3>4, <3>5, <3>6, <3>7
        <4> QED
          BY <1>4, <1>7, <2>0, <3>6, <3>10, <4>1
      <3>11. CASE loc[t].tokens # tokensCell.value /\ v + b + r0 <= f + h
        <4>1. loc[t].tokens = 0 /\ m >= v + r0
          BY <1>1, <1>7, <3>4, <3>5, <3>6, <3>9, <3>11
        <4> QED
          BY <1>4, <1>7, <2>0, <3>6, <4>1
      <3>12. CASE loc[t].tokens # tokensCell.value /\ v + Window <= tokensCell.expiresAt + h
        <4>1. PICK x \in Nat, w \in Nat, z \in Nat : x = tokensCell.expiresAt /\ w = Window /\ z = MaxStall
          BY KFacts
        <4>2. m - v >= w + 1 - h - z
          BY <1>1, <1>7, <3>4, <3>9, <3>12, <4>1
        <4>3. PICK e \in Int : e = w + 1 - h - z
          BY <4>1
        <4>4. NewTokens(e) = Sure
          BY <3>4, <4>1, <4>3 DEF Sure
        <4>5. PICK k \in Nat, j \in Nat : k = Sure /\ j = NewTokens(m - v) /\ k <= j
          <5>1. m - v \in Int /\ e <= m - v
            BY <1>1, <1>7, <4>1, <4>2, <4>3
          <5> QED
            BY <4>4, <5>1, KFacts, YieldGrows
        <4>6. Found(d) >= Smaller(Limit, j)
          BY <1>4, <1>7, <2>2, <4>5
        <4>7. enough = Smaller(Limit, k)
          BY <3>12, <4>5 DEF enough
        <4>8. Found(d) \in Int
          BY <1>1, <1>2, KFacts, Decision DEF Found
        <4> QED
          BY <2>0, <4>5, <4>6, <4>7, <4>8 DEF Smaller
      <3> QED
        BY <3>8, <3>10, <3>11, <3>12
    <2> QED
      BY <2>1, <2>2
  <1> QED
    BY <1>5, <1>8, <1>9 DEF KeptBy

LEMMA DecidingKeeps ==
  ASSUME KInv, IInv', NEW t \in Threads, GetRefill(t)
  PROVE  KInv'
  <1>1. UNCHANGED <<cfg, now, back, tokensCell, refillCell, last>> /\ pc[t] = "getRefill"
    BY DEF GetRefill
  <1>2. PICK v : v = Read(refillCell, Wall)
    OBVIOUS
  <1>3. PICK d : d = Decide(loc[t], v)
    OBVIOUS
  <1>4. loc' = [loc EXCEPT ![t] = d]
    BY <1>2, <1>3 DEF GetRefill
  <1>5. PICK p : p = "setTokens" /\ pc' = [pc EXCEPT ![t] = p]
    BY DEF GetRefill, Goto
  <1>6. Settled(d, refillCell.value)
    BY <1>1, <1>2, <1>3, DecisionKeeps
  <1>7. d.now = loc[t].now /\ d.back = loc[t].back
    <2>1. v \in Nat
      BY <1>2, KFacts DEF Read
    <2>2. loc[t].tokens \in 0..Limit
      BY <1>1 DEF KInv, IInv, LocalsOK
    <2> QED
      BY <1>3, <2>1, <2>2, KFacts, Decision
  <1>8. InHand(p, d, tokensCell, refillCell.value, last, now, back)
    <2>1. /\ loc[t].back <= back /\ ReadAt(loc[t]) <= now
          /\ last.made => loc[t].back = back
      BY <1>1, KFacts DEF InHand
    <2>2. ReadAt(d) = ReadAt(loc[t])
      BY <1>7 DEF ReadAt
    <2> QED
      BY <1>5, <1>6, <1>7, <2>1, <2>2 DEF InHand
  <1> QED
    BY <1>1, <1>4, <1>5, <1>8, MovedOn

LEMMA WritingKeeps ==
  ASSUME KInv, IInv', NEW t \in Threads, SetTokens(t)
  PROVE  KInv'
  <1>1. UNCHANGED <<cfg, now, back, refillCell, loc, last>> /\ pc[t] = "setTokens"
    BY DEF SetTokens
  <1>2. PICK p, l : p = "setRefill" /\ l = loc[t] /\ pc' = [pc EXCEPT ![t] = p] /\ loc' = [loc EXCEPT ![t] = l]
    <2>1. loc \in [Threads -> Local]
      BY DEF KInv, IInv, TypeOK
    <2>2. loc = [loc EXCEPT ![t] = loc[t]]
      BY <2>1
    <2>3. loc' = loc /\ pc' = [pc EXCEPT ![t] = "setRefill"]
      BY DEF SetTokens, Goto
    <2> QED
      BY <2>2, <2>3
  <1>3. PICK tc, rv, d : tc = tokensCell' /\ rv = refillCell'.value /\ d = last'
    OBVIOUS
  <1>4. tc.value = l.tokens /\ tc.expiresAt = Wall + Window
    BY <1>2, <1>3 DEF SetTokens, Written
  <1>5. /\ l.back <= back /\ ReadAt(l) <= now /\ (d.made => l.back = back)
        /\ Settled(l, rv)
    BY <1>1, <1>2, <1>3, KFacts DEF InHand
  <1>6. l.back = back => tc.expiresAt >= l.now + Window
    <2>1. PICK m \in Nat, k \in Nat, n \in Nat, b \in Nat, w \in Nat :
             m = l.now /\ k = l.back /\ n = now /\ b = back /\ w = Window
      BY <1>2, KFacts
    <2>2. tc.expiresAt = n - b + w
      BY <1>4, <2>1 DEF Wall
    <2>3. m + k <= n
      BY <1>5, <2>1 DEF ReadAt
    <2> QED
      BY <2>1, <2>2, <2>3
  <1>7. InHand(p, l, tc, rv, d, now, back)
    <2>1. p = "setRefill"
      BY <1>2
    <2>2. p \notin {"idle", "lock", "getTokens", "getRefill"} /\ p \in {"setTokens", "setRefill"}
      BY <2>1
    <2> QED
      BY <1>4, <1>5, <1>6, <2>2 DEF InHand
  <1>8. RetryOK(rv, d, back)
    BY <1>1, <1>3 DEF KInv
  <1>9. Alone(t)
    BY <1>1, HolderAlone DEF KInv
  <1> QED
    BY <1>1, <1>2, <1>3, <1>7, <1>8, <1>9, Moved

(* What is in the store when a call has returned. *)
LEMMA ReturningKeeps ==
  ASSUME KInv, IInv', NEW t \in Threads, pc[t] \notin {"idle", "lock"}, Return(t),
         UNCHANGED <<cfg, now, back>>,
         NEW tc, NEW rv, NEW d, tc = tokensCell', rv = refillCell'.value, d = last',
         RetryOK(rv, d, back), FullOK(tc, rv, d, back)
  PROVE  KInv'
  <1>1. PICK p, l : p = "idle" /\ l = IdleLocal /\ pc' = [pc EXCEPT ![t] = p] /\ loc' = [loc EXCEPT ![t] = l]
    BY DEF Return, Goto
  <1>2. InHand(p, l, tc, rv, d, now, back)
    BY <1>1 DEF InHand
  <1>3. Alone(t)
    BY HolderAlone DEF KInv
  <1> QED
    BY <1>1, <1>2, <1>3, Moved

(* A call that completes: what it announces is what the store now holds. *)
LEMMA CompletingKeeps ==
  ASSUME KInv, IInv', NEW t \in Threads, SetRefill(t)
  PROVE  KInv'
  <1>1. pc[t] = "setRefill" /\ UNCHANGED <<cfg, now, back, tokensCell>> /\ Return(t)
    BY DEF SetRefill
  <1>2. PICK l : l = loc[t]
    OBVIOUS
  <1>3. /\ l.now \in Nat /\ l.back \in Nat /\ l.allowed \in BOOLEAN /\ l.back <= back
        /\ l.tokens \in 0..Limit /\ l.lastRefill \in Nat /\ l.reset \in Nat
        /\ Settled(l, refillCell.value)
        /\ l.tokens = tokensCell.value
        /\ l.back = back => tokensCell.expiresAt >= l.now + Window
    <2>1. l.tokens \in 0..Limit /\ l.lastRefill \in Nat /\ l.reset \in Nat
      BY <1>1, <1>2 DEF KInv, IInv, LocalsOK
    <2>2. PICK p : p = "setRefill" /\ p = pc[t]
      BY <1>1
    <2>3. InHand(p, l, tokensCell, refillCell.value, last, now, back)
      BY <1>2, <2>2, KFacts
    <2>4. p \notin {"idle", "lock"} /\ p \in {"setTokens", "setRefill"}
      BY <2>2
    <2> QED
      BY <1>2, <2>1, <2>2, <2>3, <2>4, KFacts DEF InHand
  <1>4. PICK tc, rv, d : tc = tokensCell' /\ rv = refillCell'.value /\ d = last'
    OBVIOUS
  <1>5. PICK x \in Nat, g \in Nat \ {0}, e \in Nat :
           x = l.lastRefill /\ g = Grain /\ e = Err /\ e = g \div 2
    BY <1>3, KFacts DEF Err
  <1>6. /\ rv \in Nat /\ rv % g = 0 /\ rv <= x + e
        /\ x % g = 0 => rv = x
    <2>1. rv = Float64(x, g)
      BY <1>2, <1>4, <1>5 DEF SetRefill, Written
    <2> QED
      BY <1>5, <2>1, Stored
  <1>7. CASE l.back # back
    <2>1. d = NoDecision
      BY <1>2, <1>4, <1>7 DEF SetRefill
    <2>2. ~d.made
      BY <2>1 DEF NoDecision
    <2>3. RetryOK(rv, d, back) /\ FullOK(tc, rv, d, back)
      BY <1>5, <1>6, <2>2 DEF RetryOK, FullOK
    <2> QED
      BY <1>1, <1>4, <2>3, ReturningKeeps
  <1>8. CASE l.back = back
    <2>1. PICK m \in Nat, b \in Nat, w \in Nat, k \in 0..Limit :
             m = l.now /\ b = back /\ w = TimePerToken /\ k = l.tokens
      BY <1>3, KFacts
    <2>2. PICK r : r = RetryAt(l)
      OBVIOUS
    <2>3. PICK f : f = FullAt(l)
      OBVIOUS
    <2>4. PICK a \in BOOLEAN : a = l.allowed
      BY <1>3
    <2>5. d.made /\ d.allowed = a /\ d.retryAt = r /\ d.fullAt = f
      BY <1>2, <1>4, <1>8, <2>2, <2>3, <2>4 DEF SetRefill
    <2>6. ReadAt(l) = m + b
      BY <1>8, <2>1 DEF ReadAt
    <2>7. ASSUME ~a PROVE rv = refillCell.value /\ r = rv + b + w
      <3>1. x = refillCell.value /\ l.nextTokenDelay = w - (m - x)
        BY <1>3, <1>5, <2>1, <2>4, <2>7 DEF Settled
      <3>2. rv = x
        BY <1>5, <1>6, <3>1 DEF KInv, RetryOK
      <3>3. m + b + (w - (m - x)) = x + b + w
        BY <1>5, <2>1
      <3>4. (last.made /\ ~last.allowed) => last.retryAt = x + b + w
        BY <2>1, <3>1 DEF KInv, RetryOK
      <3>5. r = x + b + w
        BY <2>2, <2>4, <2>6, <2>7, <3>1, <3>3, <3>4 DEF RetryAt, Smaller
      <3> QED
        BY <3>1, <3>2, <3>5
    <2>8. RetryOK(rv, d, back)
      BY <1>5, <1>6, <2>1, <2>5, <2>7 DEF RetryOK
    <2>9. PICK r0 \in Nat, r1 \in Nat : r0 = Room(0) /\ r1 = Room(k) /\ r1 <= r0 /\ r0 = Limit * TimePerToken
      <3>1. 0 \in 0..Limit
        BY KFacts
      <3> QED
        BY <2>1, <3>1, KFacts, Durations
    <2>10. tc.value = k /\ tc.expiresAt = tokensCell.expiresAt
      BY <1>1, <1>3, <1>4, <2>1
    <2>11. FullOK(tc, rv, d, back)
      <3>1. CASE x > m
        <4>1. f = x + b + r0
          BY <1>5, <1>8, <2>1, <2>3, <2>9, <3>1 DEF FullAt
        <4>2. rv + b + r1 <= f + e /\ rv + b + r0 <= f + e
          BY <1>5, <1>6, <2>1, <2>9, <4>1
        <4> QED
          BY <1>5, <2>1, <2>5, <2>9, <2>10, <4>2 DEF FullOK
      <3>2. CASE ~(x > m)
        <4>1. PICK z \in Nat, y \in Nat, v \in Nat : z = l.reset /\ y = tokensCell.expiresAt /\ v = Window
          BY <1>3, KFacts
        <4>2. f = m + b + z
          BY <1>5, <2>1, <2>3, <2>6, <3>2, <4>1 DEF FullAt
        <4>3. z >= r1 - (m - x)
          BY <1>3, <1>5, <2>1, <2>9, <4>1 DEF Settled
        <4>4. y >= m + v
          BY <1>3, <1>8, <2>1, <4>1
        <4>5. rv + b + r1 <= f + e /\ rv + v <= y + e
          BY <1>5, <1>6, <2>1, <2>9, <3>2, <4>1, <4>2, <4>3, <4>4
        <4> QED
          BY <1>5, <2>1, <2>5, <2>9, <2>10, <4>1, <4>5 DEF FullOK
      <3> QED
        BY <3>1, <3>2
    <2> QED
      BY <1>1, <1>4, <2>8, <2>11, ReturningKeeps
  <1> QED
    BY <1>7, <1>8

(* A call that fails announces nothing. *)
LEMMA FailingKeeps ==
  ASSUME KInv, IInv', NEW t \in Threads, StoreError(t)
  PROVE  KInv'
  <1>1. /\ pc[t] \in {"getTokens", "getRefill", "setTokens", "setRefill"}
        /\ UNCHANGED <<cfg, now, back>> /\ Return(t)
    BY DEF StoreError
  <1>2. PICK tc, rv, d : tc = tokensCell' /\ rv = refillCell'.value /\ d = last'
    OBVIOUS
  <1>3. ~d.made
    BY <1>2 DEF StoreError, NoDecision
  <1>4. rv % Grain = 0
    <2>1. refillCell.value % Grain = 0
      BY DEF KInv, RetryOK
    <2>2. \/ rv = refillCell.value
          \/ pc[t] = "setRefill" /\ rv = Float64(loc[t].lastRefill, Grain)
      BY <1>2 DEF StoreError, Written
    <2>3. CASE pc[t] = "setRefill" /\ rv = Float64(loc[t].lastRefill, Grain)
      <3>1. loc[t].lastRefill \in Nat
        BY <2>3 DEF KInv, IInv, LocalsOK
      <3> QED
        BY <2>3, <3>1, KFacts, Stored
    <2> QED
      BY <2>1, <2>2, <2>3
  <1>5. RetryOK(rv, d, back) /\ FullOK(tc, rv, d, back)
    BY <1>3, <1>4 DEF RetryOK, FullOK
  <1> QED
    BY <1>1, <1>2, <1>5, ReturningKeeps

(* A call in hand when time passes, and when the clock is set back. *)
LEMMA PassingKeeps ==
  ASSUME KInv, IInv', Tick \/ StepBack
  PROVE  KInv'
  <1>1. UNCHANGED <<cfg, tokensCell, refillCell, pc, loc>>
    BY DEF Tick, StepBack
  <1>2. PICK tc, rv, d, n, b :
           tc = tokensCell' /\ rv = refillCell'.value /\ d = last' /\ n = now' /\ b = back'
    OBVIOUS
  <1>3. RetryOK(rv, d, b) /\ ((\A u \in Threads : pc[u] # "setRefill") => FullOK(tc, rv, d, b))
    <2>1. CASE Tick
      BY <1>1, <1>2, <2>1 DEF Tick, KInv
    <2>2. CASE StepBack
      BY <1>1, <1>2, <2>2 DEF StepBack, NoDecision, KInv, RetryOK, FullOK
    <2> QED
      BY <2>1, <2>2
  <1>4. ASSUME NEW u \in Threads PROVE InHand(pc[u], loc[u], tc, rv, d, n, b)
    <2>1. PICK p, l : p = pc[u] /\ l = loc[u]
      OBVIOUS
    <2>2. InHand(p, l, tc, rv, last, now, back)
      BY <1>1, <1>2, <2>1, KFacts
    <2>3. CASE p \in {"idle", "lock"}
      BY <2>1, <2>3 DEF InHand
    <2>4. CASE p \notin {"idle", "lock"} /\ Tick
      <3>1. n = now + 1 /\ b = back /\ d = last
        BY <1>2, <2>4 DEF Tick
      <3>2. p \in {"getTokens", "getRefill"} => n <= ReadAt(l) + MaxStall
        <4>1. ASSUME p \in {"getTokens", "getRefill"} PROVE now < ReadAt(l) + MaxStall
          BY <2>1, <2>4, <4>1 DEF Tick
        <4>2. PICK x \in Nat : x = ReadAt(l) + MaxStall
          BY <2>1, KFacts DEF ReadAt
        <4> QED
          BY <3>1, <4>1, <4>2, KFacts
      <3>3. ReadAt(l) <= n
        <4>1. PICK x \in Nat : x = ReadAt(l)
          BY <2>1, KFacts DEF ReadAt
        <4>2. x <= now
          BY <2>2, <2>4, <4>1 DEF InHand
        <4> QED
          BY <3>1, <4>1, <4>2, KFacts
      <3>4. InHand(p, l, tc, rv, d, n, b)
        BY <2>2, <2>4, <3>1, <3>2, <3>3 DEF InHand
      <3> QED
        BY <2>1, <3>4
    <2>5. CASE p \notin {"idle", "lock"} /\ StepBack
      <3>1. n = now /\ ~d.made /\ b \in Nat /\ b > back
        BY <1>2, <2>5, KFacts DEF StepBack, NoDecision, KInv, IInv, TypeOK, MaxBack
      <3>2. l.back <= b /\ l.back # b
        BY <2>1, <2>2, <2>5, <3>1, KFacts DEF InHand
      <3>3. InHand(p, l, tc, rv, d, n, b)
        BY <2>2, <2>5, <3>1, <3>2 DEF InHand
      <3> QED
        BY <2>1, <3>3
    <2> QED
      BY <2>3, <2>4, <2>5
  <1>5. \A u \in Threads : InHand(pc[u], loc[u], tokensCell, refillCell.value, last, now, back)'
    BY <1>1, <1>2, <1>4, SameDurations DEF InHand, Settled, ReadAt
  <1>6. RetryOK(refillCell.value, last, back)'
    BY <1>1, <1>2, <1>3, SameDurations DEF RetryOK
  <1>7. ((\A u \in Threads : pc[u] # "setRefill") => FullOK(tokensCell, refillCell.value, last, back))'
    BY <1>1, <1>2, <1>3, SameDurations DEF FullOK
  <1> QED
    BY <1>5, <1>6, <1>7 DEF KInv

LEMMA StutteringKeeps ==
  ASSUME KInv, IInv', UNCHANGED vars
  PROVE  KInv'
  <1>1. UNCHANGED <<cfg, now, back, tokensCell, refillCell, pc, loc, last>>
    BY DEF vars
  <1>2. \A u \in Threads : InHand(pc[u], loc[u], tokensCell, refillCell.value, last, now, back)'
    BY <1>1, KFacts, SameDurations DEF InHand, Settled, ReadAt
  <1>3. RetryOK(refillCell.value, last, back)'
    BY <1>1, SameDurations DEF KInv, RetryOK
  <1>4. ((\A u \in Threads : pc[u] # "setRefill") => FullOK(tokensCell, refillCell.value, last, back))'
    BY <1>1, SameDurations DEF KInv, FullOK
  <1> QED
    BY <1>2, <1>3, <1>4 DEF KInv

LEMMA KInit ==
  ASSUME Init
  PROVE  KInv
  <1>1. IInv
    BY InitHolds
  <1>2. Grain \in Nat \ {0}
    BY Chosen DEF Init
  <1>3. refillCell.value = 0 /\ ~last.made
    BY DEF Init, EmptyCell, NoDecision
  <1>4. RetryOK(refillCell.value, last, back) /\ FullOK(tokensCell, refillCell.value, last, back)
    <2>1. 0 % Grain = 0
      BY <1>2
    <2> QED
      BY <1>3, <2>1 DEF RetryOK, FullOK
  <1>5. \A t \in Threads : InHand(pc[t], loc[t], tokensCell, refillCell.value, last, now, back)
    <2>1. \A t \in Threads : pc[t] \in {"idle", "lock"}
      BY DEF Init
    <2> QED
      BY <2>1 DEF InHand
  <1> QED
    BY <1>1, <1>4, <1>5 DEF KInv

LEMMA KStepKeeps ==
  ASSUME KInv, [Next]_vars
  PROVE  KInv'
  <1>1. IInv'
    BY StepKeeps DEF KInv
  <1>2. ASSUME NEW t \in Threads, Allow(t) \/ Step(t) PROVE KInv'
    BY <1>1, <1>2, EnteringKeeps, ReadingKeeps, DecidingKeeps, WritingKeeps, CompletingKeeps,
       FailingKeeps DEF Step
  <1>3. CASE Tick \/ StepBack
    BY <1>1, <1>3, PassingKeeps
  <1>4. CASE UNCHANGED vars
    BY <1>1, <1>4, StutteringKeeps
  <1> QED
    BY <1>2, <1>3, <1>4 DEF Next

(* Only the second Get leads to a decision. *)
LEMMA DecidingGets ==
  ASSUME IInv, [Next]_vars, NEW t \in Threads, Deciding(t)
  PROVE  GetRefill(t)
  <1>1. pc[t] = "getRefill" /\ pc'[t] = "setTokens" /\ pc \in [Threads -> PCs]
    BY DEF Deciding, IInv, TypeOK
  <1>2. ~UNCHANGED pc
    BY <1>1
  <1>3. PICK u \in Threads : Allow(u) \/ Step(u)
    BY <1>2 DEF Next, vars, Tick, StepBack
  <1>4. \E q : pc' = [pc EXCEPT ![u] = q]
    BY <1>3 DEF Step, Allow, Lock, GetTokens, GetRefill, SetTokens, SetRefill, StoreError, Return, Goto
  <1>5. u = t
    BY <1>1, <1>4
  <1>6. \/ pc'[t] = "idle"
        \/ pc[t] # "getRefill"
        \/ GetRefill(t)
    BY <1>1, <1>3, <1>5 DEF Step, Allow, Lock, GetTokens, SetTokens, SetRefill, StoreError, Return, Goto
  <1> QED
    BY <1>1, <1>6

(* For any goroutines, limit, window, precision and stalls, from a clock   *)
(* that was set back and with failures between the calls: callers that     *)
(* wait for the RetryAfter they got are not denied again, and Reset, or    *)
(* half a grain more, finds a full bucket, but for what it loses when the  *)
(* count expires under a call (token_bucket.go:63-104, 111, 129).          *)
THEOREM DelaysAreKept == Spec => DelaysKept
  <1> DEFINE A == \A t \in Threads : LET d == loc'[t] IN Deciding(t) =>
                    /\ (~d.allowed /\ ~last.allowed) => ReadAt(d) < last.retryAt
                    /\ ReadAt(d) >= last.fullAt + Err =>
                         Found(d) >= IF loc[t].tokens = tokensCell.value THEN Limit ELSE Smaller(Limit, Sure)
  <1>1. ASSUME KInv, [Next]_vars PROVE A
    <2> SUFFICES ASSUME NEW t \in Threads, Deciding(t), NEW d, d = loc'[t]
                 PROVE  /\ (~d.allowed /\ ~last.allowed) => ReadAt(d) < last.retryAt
                        /\ ReadAt(d) >= last.fullAt + Err =>
                             Found(d) >= IF loc[t].tokens = tokensCell.value THEN Limit
                                         ELSE Smaller(Limit, Sure)
      OBVIOUS
    <2>1. GetRefill(t) /\ IInv
      BY <1>1, DecidingGets DEF KInv
    <2>2. PICK v : v = Read(refillCell, Wall)
      OBVIOUS
    <2>3. d = Decide(loc[t], v) /\ pc[t] = "getRefill"
      BY <2>1, <2>2 DEF GetRefill, IInv, TypeOK
    <2>4. KeptBy(d, loc[t].tokens, last, tokensCell.value)
      BY <1>1, <2>2, <2>3, DecisionKeeps
    <2>5. last.made
      BY DEF Deciding
    <2> QED
      BY <2>4, <2>5 DEF KeptBy
  <1>2. Spec => [][A]_vars
    BY <1>1, KInit, KStepKeeps, PTL DEF Spec
  <1> QED
    BY <1>2 DEF DelaysKept
-----------------------------------------------------------------------------
(* The rate.  What the grants from one of them on, the i-th, have used up  *)
(* of Limit is followed through the store and the calls, in two ways: by   *)
(* the stored pair, which says what refills will add, and by the expiry of *)
(* the refill time, after which the bucket is full again although it may   *)
(* be short of Lent.                                                       *)

(* A store that fails and a clock that is set back do not come together,   *)
(* and token times are longer than the rounding.                           *)
FailuresOrStepsBack == MayFail => MaxBack = 0

RunsAsMeant == FailuresOrStepsBack /\ Err < TimePerToken

(* A token costs that much at least, with the refill time rounded up. *)
Pace == TimePerToken - Err

(* What the calls granted from the i-th on are over Limit. *)
Ahead(gs, i, k) == (Len(gs) - i + 1) - Limit - (k - gs[i].failures) * GivenBack

(* A call that comes now or later may refill m tokens and no more. *)
Due(m, rv, x, n, b) ==
    MayFail => x >= n - b /\ n < rv + b + (m + 1) * TimePerToken

(* With e calls too many since the time at, a call that refills, that      *)
(* finds nothing to refill, or that finds the refill time expired, is late *)
(* enough for all the tokens that it then has.                             *)
Within(e, at, tv, rv, x, n, b) ==
    /\ \A m \in Nat : Due(m, rv, x, n, b) =>
         (e + Smaller(tv + m, Limit) - 1) * Pace < rv + b + m * Pace + 2 * Err - at
    /\ Due(0, rv, x, n, b) => (e + tv - 1) * Pace < n - at + Err
    /\ (e + Limit - 1) * Pace < x + b + 1 - MaxStall - at + Err + Lent

(* From the time at to t, c windows have passed. *)
Passed(c, at, t) == c * Window <= t - at

(* That with what has been lent since.  The next expiry, of the refill     *)
(* time written at x - Window, comes a window after them.                  *)
Covered(e, at, tv, rv, x, n, b) ==
    \E c \in Nat : /\ Passed(c, at, n)
                   /\ Passed(c + 1, at, x + b)
                   /\ Within(e, at - c * Lent, tv, rv, x, n, b)

Since(gs, k, tv, rv, x, n, b) ==
    \A i \in 1..Len(gs) : Covered(Ahead(gs, i, k), gs[i].at, tv, rv, x, n, b)

Granted(l) == IF l.allowed THEN 1 ELSE 0

Rounded(l) == Float64(l.lastRefill, Grain)

(* The call with the locals l is late enough for the token it takes and    *)
(* those it leaves, and so is the refill time that it stores.              *)
Afforded(e, at, l) ==
    /\ (e + Granted(l) + l.tokens - 1) * Pace < ReadAt(l) - at + Err
    /\ (e + Granted(l) + l.tokens - 1) * Pace < Rounded(l) + l.back + 2 * Err - at

(* That with what has been lent since. *)
Paid(e, at, l, n) ==
    \E c \in Nat : /\ Passed(c, at, n)
                   /\ Passed(c, at, ReadAt(l) + MaxStall)
                   /\ Afforded(e, at - c * Lent, l)

Spending(p, l, gs, k, tv, rv, x, n, b) ==
    p \notin {"idle", "lock"} =>
        /\ l.now >= Grain
        /\ p # "setRefill" => Since(gs, k, tv, rv, x, ReadAt(l), l.back)
        /\ p = "getRefill" => l.tokens <= tv
        /\ p \in {"setTokens", "setRefill"} =>
             /\ l.lastRefill >= Grain
             /\ MayFail => Since(gs, k + 1, l.tokens, rv, x, n, b)
             /\ \A i \in 1..Len(gs) : Paid(Ahead(gs, i, k), gs[i].at, l, n)
             /\ l.allowed => /\ l.tokens < Limit
                             /\ ReadAt(l) < Rounded(l) + l.back + 2 * Err + Pace

RateOf(gs) ==
    \A i, j \in 1..Len(gs) :
        LET extra == (j - i + 1) - Limit - (gs[j].failures - gs[i].failures) * GivenBack IN
        (i <= j /\ extra > 0) =>
          (extra - 1) * Pace < gs[j].at - gs[i].at + Err + ((gs[j].at - gs[i].at + MaxStall) \div Window) * Lent

RInv ==
    /\ KInv
    /\ RateOf(grants)
    /\ Len(grants) > 0 => refillCell.value >= Grain
    /\ (\A t \in Threads : pc[t] \in {"idle", "lock"}) =>
         Since(grants, failures, tokensCell.value, refillCell.value, refillCell.expiresAt, now, back)
    /\ \A t \in Threads :
         Spending(pc[t], loc[t], grants, failures, tokensCell.value,
                  refillCell.value, refillCell.expiresAt, now, back)

LEMMA Multiples ==
  ASSUME NEW a \in Int, NEW b \in Int, NEW v \in Nat
  PROVE  /\ a * v \in Int /\ (a + b) * v = a * v + b * v
         /\ a <= b => a * v <= b * v
  <1>1. a * v \in Int /\ b * v \in Int /\ (a + b) * v = a * v + b * v
    OBVIOUS
  <1>2. ASSUME a <= b PROVE a * v <= b * v
    <2>1. PICK k \in Nat : k = b - a
      BY <1>2
    <2>2. b = a + k
      BY <2>1
    <2>3. k * v \in Nat /\ (a + k) * v = a * v + k * v
      BY <2>1, ProductNat
    <2> QED
      BY <1>1, <2>2, <2>3
  <1> QED
    BY <1>1, <1>2

LEMMA StoredBelow ==
  ASSUME NEW x \in Nat, NEW g \in Nat \ {0}, NEW y, y = Float64(x, g)
  PROVE  x <= y + g \div 2 /\ (x >= g => y >= g)
  <1>1. PICK q \in Nat, r \in 0..(g - 1) :
           /\ q = x \div g /\ r = x % g
           /\ q * g \in Nat /\ x = q * g + r /\ (q + 1) * g = q * g + g
    BY Division
  <1>2. x >= g => q * g >= g
    <2>1. ASSUME x >= g PROVE q # 0
      BY <1>1, <2>1
    <2>2. ASSUME q # 0 PROVE q * g >= g
      <3>1. PICK k \in Nat : q = k + 1
        <4>1. q - 1 \in Nat /\ q = (q - 1) + 1
          BY <2>2
        <4> QED
          BY <4>1
      <3>2. (k + 1) * g = k * g + g /\ k * g \in Nat
        BY <3>1, ProductNat
      <3> QED
        BY <3>1, <3>2
    <2> QED
      BY <2>1, <2>2
  <1>3. CASE 2 * r < g \/ (2 * r = g /\ q % 2 = 0)
    <2>1. y = q * g
      BY <1>1, <1>3 DEF Float64
    <2>2. r <= g \div 2
      BY <1>1, <1>3
    <2> QED
      BY <1>1, <1>2, <2>1, <2>2
  <1>4. CASE ~(2 * r < g \/ (2 * r = g /\ q % 2 = 0))
    <2>1. y = q * g + g
      BY <1>1, <1>4 DEF Float64
    <2>2. g \div 2 \in Nat
      OBVIOUS
    <2> QED
      BY <1>1, <2>1, <2>2
  <1> QED
    BY <1>3, <1>4

LEMMA Paces ==
  ASSUME cfg \in Configs, RunsAsMeant
  PROVE  /\ Pace \in Nat \ {0} /\ Err \in Nat /\ TimePerToken = Pace + Err
         /\ GivenBack \in Nat /\ MaxStall \in Nat /\ Window \in Nat \ {0} /\ Limit \in Nat \ {0}
         /\ Limit * Pace \in Nat /\ Lent \in Nat
         /\ Limit * Pace + MaxStall <= Window + 1 + Lent
         /\ 2 * GivenBack <= Limit - 1
         /\ \A z \in Int : 2 * z <= Limit - 1 => z <= GivenBack
  <1>1. PICK n \in Nat \ {0}, w \in Nat \ {0}, h \in Nat, p \in Nat \ {0} :
           n = Limit /\ w = TimePerToken /\ h = Err /\ p = Pace /\ w = p + h
    BY Durations DEF RunsAsMeant, Pace
  <1>2. n * p \in Nat
    BY <1>1, ProductNat
  <1>3. MaxStall \in Nat /\ Window \in Nat \ {0}
    BY Durations, Chosen
  <1>4. PICK o \in Nat : o = Lent /\ n * p + MaxStall <= Window + 1 + o
    <2>1. PICK short \in Int : short = n * p + MaxStall - Window - 1
      BY <1>2, <1>3
    <2>2. Lent = IF short > 0 THEN short ELSE 0
      BY <1>1, <2>1 DEF Lent, Pace
    <2> QED
      BY <1>2, <1>3, <2>1, <2>2
  <1>6. PICK g : g = (n - 1) \div 2
    OBVIOUS
  <1>7. g \in Nat /\ 2 * g <= n - 1 /\ \A z \in Int : 2 * z <= n - 1 => z <= g
    BY <1>1, <1>6
  <1>8. g = GivenBack
    BY <1>1, <1>6 DEF GivenBack
  <1> QED
    BY <1>1, <1>2, <1>3, <1>4, <1>7, <1>8

(* With time, after a clock that is set back, with fewer calls too many    *)
(* and with fewer tokens.                                                  *)
LEMMA Later ==
  ASSUME cfg \in Configs, RunsAsMeant,
         NEW e \in Int, NEW e2 \in Int, e2 <= e, NEW at \in Int, NEW rv \in Nat, NEW x \in Nat,
         NEW tv \in 0..Limit, NEW tv2 \in 0..tv,
         NEW n \in Nat, NEW n2 \in Nat, n <= n2, NEW b \in Nat, NEW b2 \in Nat, b <= b2,
         MayFail => b2 = b, Within(e, at, tv, rv, x, n, b)
  PROVE  Within(e2, at, tv2, rv, x, n2, b2)
  <1>1. PICK lim \in Nat \ {0}, w \in Nat \ {0}, h \in Nat, p \in Nat \ {0}, s \in Nat, o \in Nat :
           lim = Limit /\ w = TimePerToken /\ h = Err /\ p = Pace /\ s = MaxStall /\ o = Lent
    BY Paces, Durations
  <1>2. \A m \in Nat : Due(m, rv, x, n2, b2) => Due(m, rv, x, n, b)
    <2> SUFFICES ASSUME NEW m \in Nat, Due(m, rv, x, n2, b2), MayFail
                 PROVE  x >= n - b /\ n < rv + b + (m + 1) * w
      BY <1>1 DEF Due
    <2>1. (m + 1) * w \in Nat
      BY ProductNat
    <2>2. b2 = b /\ x >= n2 - b2 /\ n2 < rv + b2 + (m + 1) * w
      BY <1>1 DEF Due
    <2> QED
      BY <2>1, <2>2
  <1>3. ASSUME NEW m \in Nat, Due(m, rv, x, n2, b2)
        PROVE  (e2 + Smaller(tv2 + m, lim) - 1) * p < rv + b2 + m * p + 2 * h - at
    <2>1. PICK f \in Int, f2 \in Int : f = e + Smaller(tv + m, lim) - 1 /\ f2 = e2 + Smaller(tv2 + m, lim) - 1
      BY <1>1 DEF Smaller
    <2>2. f2 <= f
      BY <1>1, <2>1 DEF Smaller
    <2>3. f * p \in Int /\ f2 * p \in Int /\ f2 * p <= f * p /\ m * p \in Nat
      BY <2>2, Multiples, ProductNat
    <2>4. f * p < rv + b + m * p + 2 * h - at
      BY <1>1, <1>2, <1>3, <2>1 DEF Within
    <2> QED
      BY <2>1, <2>3, <2>4
  <1>4. ASSUME Due(0, rv, x, n2, b2) PROVE (e2 + tv2 - 1) * p < n2 - at + h
    <2>1. PICK f \in Int, f2 \in Int : f = e + tv - 1 /\ f2 = e2 + tv2 - 1
      BY <1>1
    <2>2. f2 <= f
      BY <1>1, <2>1
    <2>3. f * p \in Int /\ f2 * p \in Int /\ f2 * p <= f * p
      BY <2>2, Multiples
    <2>4. f * p < n - at + h
      BY <1>1, <1>2, <1>4, <2>1 DEF Within
    <2> QED
      BY <2>1, <2>3, <2>4
  <1>5. (e2 + lim - 1) * p < x + b2 + 1 - s - at + h + o
    <2>1. PICK f \in Int, f2 \in Int : f = e + lim - 1 /\ f2 = e2 + lim - 1
      OBVIOUS
    <2>2. f2 <= f
      BY <2>1
    <2>3. f * p \in Int /\ f2 * p \in Int /\ f2 * p <= f * p
      BY <2>2, Multiples
    <2>4. f * p < x + b + 1 - s - at + h + o
      BY <1>1, <2>1 DEF Within
    <2> QED
      BY <2>1, <2>3, <2>4
  <1> QED
    BY <1>1, <1>3, <1>4, <1>5 DEF Within

(* The call with the locals d refills m tokens from the time v on. *)
RefillsBy(m, d, v) ==
    /\ d.lastRefill = v + m * TimePerToken
    /\ m = 0 \/ d.lastRefill <= d.now
    /\ d.now < v + (m + 1) * TimePerToken

(* A decision, in terms of the number m of tokens that come in.            *)
LEMMA Refilled ==
  ASSUME cfg \in Configs, NEW l \in Local, l.now \in Nat, l.tokens \in 0..Limit,
         NEW v \in Nat, NEW d, d = Decide(l, v)
  PROVE  /\ d.now = l.now /\ d.back = l.back /\ d.tokens \in 0..Limit /\ d.lastRefill \in Nat
         /\ d.allowed => d.tokens < Limit
         /\ ~d.allowed => d.tokens = 0
         /\ v = 0 => d.allowed /\ d.tokens = Limit - 1 /\ d.lastRefill = l.now
         /\ v # 0 => \E m \in Nat :
              RefillsBy(m, d, v) /\ Granted(d) + d.tokens = Smaller(l.tokens + m, Limit)
  <1>1. PICK lim \in Nat \ {0}, w \in Nat \ {0}, k \in Nat, t \in Nat :
           lim = Limit /\ w = TimePerToken /\ k = l.tokens /\ t = l.now /\ k <= lim
    BY Chosen
  <1>2. d.now = l.now /\ d.back = l.back /\ d.tokens \in 0..Limit /\ d.lastRefill \in Nat
    BY Decision
  <1>3. PICK a : a = Available(t, k, v)
    OBVIOUS
  <1>4. PICK m : m = NewTokens(t - v)
    OBVIOUS
  <1>5. m \in Nat /\ m * w \in Nat /\ (m = 0 \/ v + m * w <= t) /\ t < v + (m * w + w)
    <2>1. CASE t - v > 0
      <3>1. PICK q \in Nat, r \in 0..(w - 1) : q = (t - v) \div w /\ q * w \in Nat /\ t - v = q * w + r
        <4>1. t - v \in Nat
          BY <2>1
        <4>2. /\ (t - v) \div w \in Nat /\ (t - v) % w \in 0..(w - 1)
              /\ ((t - v) \div w) * w \in Nat
              /\ t - v = ((t - v) \div w) * w + ((t - v) % w)
          BY <4>1, Division
        <4> QED
          BY <4>2
      <3>2. m = q
        BY <1>1, <1>4, <2>1, <3>1 DEF NewTokens
      <3> QED
        BY <3>1, <3>2
    <2>2. CASE ~(t - v > 0)
      <3>1. m = 0
        BY <1>4, <2>2 DEF NewTokens
      <3>2. 0 * w = 0
        OBVIOUS
      <3> QED
        BY <2>2, <3>1, <3>2
    <2> QED
      BY <2>1, <2>2
  <1>6. /\ v = 0 => a = lim
        /\ v # 0 => a = Smaller(k + m, lim)
    <2>1. a = IF v = 0 THEN lim ELSE IF m > 0 THEN Smaller(k + m, lim) ELSE k
      BY <1>1, <1>3, <1>4 DEF Available
    <2>2. m = 0 => Smaller(k + m, lim) = k
      BY <1>1 DEF Smaller
    <2>3. m > 0 \/ m = 0
      BY <1>5
    <2> QED
      BY <2>1, <2>2, <2>3
  <1>7. a \in 0..lim
    BY <1>1, <1>5, <1>6 DEF Smaller
  <1>8. /\ d.allowed <=> a > 0
        /\ d.tokens = IF a > 0 THEN a - 1 ELSE a
        /\ d.lastRefill = LastRefill(t, v)
    BY <1>1, <1>3 DEF Decide
  <1>9. Granted(d) + d.tokens = a /\ (d.allowed => d.tokens < lim) /\ (~d.allowed => d.tokens = 0)
    BY <1>7, <1>8 DEF Granted
  <1>10. d.lastRefill = IF v = 0 THEN t ELSE v + m * w
    BY <1>1, <1>4, <1>8 DEF LastRefill
  <1>11. v = 0 => d.allowed /\ d.tokens = Limit - 1 /\ d.lastRefill = l.now
    BY <1>1, <1>6, <1>8, <1>10
  <1>12. (m + 1) * w = m * w + w
    BY <1>5, ProductNat
  <1>13. ASSUME v # 0
         PROVE  RefillsBy(m, d, v) /\ Granted(d) + d.tokens = Smaller(l.tokens + m, Limit)
    <2>1. d.lastRefill = v + m * w /\ d.now = t /\ (m = 0 \/ d.lastRefill <= t) /\ t < v + (m + 1) * w
      BY <1>1, <1>2, <1>5, <1>10, <1>12, <1>13
    <2>2. RefillsBy(m, d, v)
      BY <1>1, <2>1 DEF RefillsBy
    <2> QED
      BY <1>1, <1>6, <1>9, <1>13, <2>2
  <1> QED
    BY <1>1, <1>2, <1>5, <1>9, <1>11, <1>13

(* A call that finds the refill time v, and m tokens to add to tv at most. *)
FindsRefill(m, d, tv, v, x) ==
    /\ v % Grain = 0
    /\ d.now \in Nat /\ d.back \in Nat /\ d.lastRefill \in Nat /\ d.tokens \in Nat
    /\ RefillsBy(m, d, v)
    /\ Granted(d) + d.tokens <= Smaller(tv + m, Limit)
    /\ MayFail => x >= d.now

LEMMA AffordedByRefill ==
  ASSUME cfg \in Configs, RunsAsMeant, NEW e \in Int, NEW at \in Int,
         NEW tv \in 0..Limit, NEW v \in Nat, NEW x \in Nat,
         NEW d, NEW m \in Nat, FindsRefill(m, d, tv, v, x)
  PROVE  /\ Within(e, at, tv, v, x, ReadAt(d), d.back) => Afforded(e, at, d)
         /\ ReadAt(d) < Rounded(d) + d.back + 2 * Err + Pace
  <1>0. /\ v % Grain = 0
        /\ d.now \in Nat /\ d.back \in Nat /\ d.lastRefill \in Nat /\ d.tokens \in Nat
        /\ RefillsBy(m, d, v)
        /\ Granted(d) + d.tokens <= Smaller(tv + m, Limit)
        /\ MayFail => x >= d.now
    BY DEF FindsRefill
  <1>1. PICK lim \in Nat \ {0}, w \in Nat \ {0}, h \in Nat, p \in Nat \ {0}, t \in Nat, b \in Nat, r \in Nat :
           /\ lim = Limit /\ w = TimePerToken /\ h = Err /\ p = Pace /\ w = p + h
           /\ t = d.now /\ b = d.back /\ r = d.lastRefill
    BY <1>0, Paces, Durations
  <1>2. PICK y : y = Float64(r, Grain)
    OBVIOUS
  <1>3. y = Rounded(d) /\ ReadAt(d) = t + b
    BY <1>1, <1>2 DEF Rounded, ReadAt
  <1>4. /\ m * w \in Nat /\ m * p \in Nat /\ m * h \in Nat
        /\ m * w = m * p + m * h /\ (m + 1) * w = m * w + w
    BY <1>1, ProductNat
  <1>5. m # 0 => m * h >= h
    <2>1. ASSUME m # 0 PROVE m * h >= h
      <3>1. PICK j \in Nat : m = j + 1
        <4>1. m - 1 \in Nat /\ m = (m - 1) + 1
          BY <2>1
        <4> QED
          BY <4>1
      <3>2. (j + 1) * h = j * h + h /\ j * h \in Nat
        BY <3>1, ProductNat
      <3> QED
        BY <3>1, <3>2
    <2> QED
      BY <2>1
  <1>6. m = 0 => m * w = 0 /\ m * p = 0 /\ m * h = 0
    OBVIOUS
  <1>7. y \in Nat /\ r <= y + h /\ (m = 0 => y = r)
    <2>1. PICK g \in Nat \ {0} : g = Grain /\ h = g \div 2
      BY <1>1, Chosen DEF Err
    <2>2. /\ y \in Nat /\ r <= y + g \div 2
          /\ r % g = 0 => y = r
      BY <1>2, <2>1, Stored, StoredBelow
    <2>3. m = 0 => r = v
      BY <1>0, <1>1, <1>6 DEF RefillsBy
    <2> QED
      BY <1>0, <2>1, <2>2, <2>3
  <1>8. t < v + m * w + w /\ r = v + m * w /\ (m = 0 \/ v + m * w <= t)
    <2>1. r = v + m * w /\ t < v + (m + 1) * w /\ (m = 0 \/ r <= t)
      BY <1>0, <1>1 DEF RefillsBy
    <2> QED
      BY <1>4, <2>1
  <1>9. Due(m, v, x, t + b, b)
    <2>1. MayFail => x >= (t + b) - b
      BY <1>0, <1>1
    <2>2. t + b < v + b + (m + 1) * w
      BY <1>4, <1>8
    <2> QED
      BY <1>1, <2>1, <2>2 DEF Due
  <1>10. PICK a \in Int, f \in Int :
            /\ f = e + a - 1 /\ f = e + Granted(d) + d.tokens - 1
            /\ a <= Smaller(tv + m, lim)
    <2>1. Granted(d) \in Int
      BY DEF Granted
    <2>2. PICK a \in Int : a = Granted(d) + d.tokens /\ a <= Smaller(tv + m, lim)
      BY <1>0, <1>1, <2>1
    <2>3. e + Granted(d) + d.tokens - 1 = e + a - 1
      BY <1>0, <2>1, <2>2
    <2> QED
      BY <2>2, <2>3
  <1>11. ASSUME Within(e, at, tv, v, x, ReadAt(d), d.back) PROVE Afforded(e, at, d)
    <2>1. f * p \in Int /\ f * p < v + b + m * p + 2 * h - at
      <3>1. (e + Smaller(tv + m, lim) - 1) * p < v + b + m * p + 2 * h - at
        BY <1>1, <1>3, <1>9, <1>11 DEF Within
      <3>2. PICK f2 \in Int : f2 = e + Smaller(tv + m, lim) - 1
        BY DEF Smaller
      <3>3. f <= f2
        BY <1>1, <1>10, <3>2 DEF Smaller
      <3>4. f * p \in Int /\ f2 * p \in Int /\ f * p <= f2 * p
        BY <3>3, Multiples
      <3> QED
        BY <1>4, <3>1, <3>2, <3>4
    <2>2. f * p < (t + b) - at + h
      <3>1. CASE m = 0
        <4>1. (e + tv - 1) * p < (t + b) - at + h
          BY <1>1, <1>3, <1>9, <1>11, <3>1 DEF Within
        <4>2. PICK f2 \in Int : f2 = e + tv - 1
          OBVIOUS
        <4>3. f <= f2
          BY <1>1, <1>10, <3>1, <4>2 DEF Smaller
        <4>4. f * p \in Int /\ f2 * p \in Int /\ f * p <= f2 * p
          BY <4>3, Multiples
        <4> QED
          BY <4>1, <4>2, <4>4
      <3>2. CASE m # 0
        BY <1>4, <1>5, <1>8, <2>1, <3>2
      <3> QED
        BY <3>1, <3>2
    <2>3. f * p < y + b + 2 * h - at
      BY <1>4, <1>5, <1>6, <1>7, <1>8, <2>1
    <2> QED
      BY <1>1, <1>3, <1>10, <2>2, <2>3 DEF Afforded
  <1>12. t + b < y + b + 2 * h + p
    <2>1. PICK j \in Nat : j = m * w
      BY <1>4
    <2>2. t < v + j + w /\ r = v + j
      BY <1>8, <2>1
    <2>3. t < r + w
      BY <2>2
    <2>4. w = p + h
      BY <1>1
    <2>5. t < r + p + h
      BY <2>3, <2>4
    <2> QED
      BY <1>7, <2>5
  <1> QED
    BY <1>1, <1>3, <1>11, <1>12

(* What a failure after the first Set gives back at most, when the refill  *)
(* time v is still the old one.                                            *)
LEMMA GivenBackAtMost ==
  ASSUME cfg \in Configs, RunsAsMeant, MayFail, NEW e \in Int, NEW at \in Int,
         NEW tv \in 0..Limit, NEW v \in Nat, NEW x \in Nat, NEW n \in Nat, NEW b \in Nat,
         Within(e, at, tv, v, x, n, b),
         NEW k \in 0..tv, NEW m \in Nat, m = 0 \/ v + b + m * TimePerToken <= n,
         NEW tv2 \in Nat, tv2 = 0 \/ tv2 = Smaller(k + m, Limit) - 1
  PROVE  Within(e - GivenBack, at, tv2, v, x, n, b)
  <1>1. PICK lim \in Nat \ {0}, w \in Nat \ {0}, p \in Nat \ {0}, g \in Nat, h \in Nat, s \in Nat, o \in Nat :
           /\ lim = Limit /\ w = TimePerToken /\ p = Pace /\ g = GivenBack /\ h = Err /\ s = MaxStall
           /\ o = Lent
           /\ 2 * g <= lim - 1 /\ \A z \in Int : 2 * z <= lim - 1 => z <= g
    BY Paces, Durations
  <1>2. ASSUME NEW j \in Nat, Due(j, v, x, n, b) PROVE m <= j
    <2>1. n < v + b + (j + 1) * w
      BY <1>1, <1>2 DEF Due
    <2>2. ASSUME j + 1 <= m, m # 0 PROVE FALSE
      <3>1. (j + 1) * w \in Int /\ m * w \in Int /\ (j + 1) * w <= m * w
        BY <2>2, Multiples
      <3>2. v + b + m * w <= n
        BY <1>1, <2>2
      <3> QED
        BY <2>1, <3>1, <3>2
    <2> QED
      BY <2>2
  <1>3. ASSUME NEW j \in Nat, Due(j, v, x, n, b)
        PROVE  ((e - g) + Smaller(tv2 + j, lim) - 1) * p < v + b + j * p + 2 * h - at
    <2>1. PICK c \in Int, c2 \in Int : c = Smaller(tv + j, lim) /\ c2 = Smaller(tv2 + j, lim)
      BY <1>1 DEF Smaller
    <2>2. c2 - g <= c
      <3>1. CASE tv2 = 0
        BY <1>1, <2>1, <3>1 DEF Smaller
      <3>2. CASE tv + j >= lim
        BY <1>1, <2>1, <3>2 DEF Smaller
      <3>3. CASE tv2 = Smaller(k + m, Limit) - 1 /\ tv + j < lim
        <4>1. m <= j
          BY <1>2, <1>3
        <4>2. c = tv + j /\ c2 <= lim /\ c2 <= tv2 + j
          BY <1>1, <2>1, <3>3 DEF Smaller
        <4>3. tv2 <= tv + m - 1
          BY <1>1, <3>3 DEF Smaller
        <4>4. c2 - c <= m - 1 /\ c2 - c <= lim - m
          BY <1>1, <4>1, <4>2, <4>3
        <4>5. c2 - c \in Int /\ 2 * (c2 - c) <= lim - 1
          BY <1>1, <4>4
        <4> QED
          BY <1>1, <4>5
      <3> QED
        BY <1>1, <3>1, <3>2, <3>3
    <2>3. PICK f \in Int, f2 \in Int : f = e + c - 1 /\ f2 = (e - g) + c2 - 1
      BY <1>1, <2>1
    <2>4. f2 <= f
      BY <1>1, <2>1, <2>2, <2>3
    <2>5. f * p \in Int /\ f2 * p \in Int /\ f2 * p <= f * p /\ j * p \in Nat
      BY <2>4, Multiples, ProductNat
    <2>6. f * p < v + b + j * p + 2 * h - at
      BY <1>1, <1>3, <2>1, <2>3 DEF Within
    <2> QED
      BY <2>1, <2>3, <2>5, <2>6
  <1>4. ASSUME Due(0, v, x, n, b) PROVE ((e - g) + tv2 - 1) * p < n - at + h
    <2>1. m = 0
      BY <1>2, <1>4
    <2>2. tv2 <= tv
      BY <1>1, <2>1 DEF Smaller
    <2>3. PICK f \in Int, f2 \in Int : f = e + tv - 1 /\ f2 = (e - g) + tv2 - 1
      BY <1>1
    <2>4. f2 <= f
      BY <1>1, <2>2, <2>3
    <2>5. f * p \in Int /\ f2 * p \in Int /\ f2 * p <= f * p
      BY <2>4, Multiples
    <2>6. f * p < n - at + h
      BY <1>1, <1>4, <2>3 DEF Within
    <2> QED
      BY <2>3, <2>5, <2>6
  <1>5. ((e - g) + lim - 1) * p < x + b + 1 - s - at + h + o
    <2>1. PICK f \in Int, f2 \in Int : f = e + lim - 1 /\ f2 = (e - g) + lim - 1
      BY <1>1
    <2>2. f2 <= f
      BY <1>1, <2>1
    <2>3. f * p \in Int /\ f2 * p \in Int /\ f2 * p <= f * p
      BY <2>2, Multiples
    <2>4. f * p < x + b + 1 - s - at + h + o
      BY <1>1, <2>1 DEF Within
    <2> QED
      BY <2>1, <2>3, <2>4
  <1> QED
    BY <1>1, <1>3, <1>4, <1>5 DEF Within

(* A call that finds the refill time expired, when it is n and the clock   *)
(* has been set back by c, and fills the bucket.                           *)
LEMMA AffordedByExpiry ==
  ASSUME cfg \in Configs, RunsAsMeant, NEW e \in Int, NEW at \in Int,
         NEW tv, NEW v, NEW x \in Nat, NEW n \in Nat, NEW c \in Nat,
         NEW d, d.now \in Nat, d.back \in Nat,
         d.allowed, d.tokens = Limit - 1, d.lastRefill = d.now,
         x < n - c, n <= ReadAt(d) + MaxStall, d.back <= c
  PROVE  /\ ReadAt(d) < Rounded(d) + d.back + 2 * Err + Pace
         /\ Within(e, at, tv, v, x, ReadAt(d), d.back) =>
              /\ Afforded(e, at - Lent, d)
              /\ MayFail => Within(e - GivenBack, at, d.tokens, v, x, n, c)
  <1>1. PICK lim \in Nat \ {0}, p \in Nat \ {0}, g \in Nat, h \in Nat, s \in Nat, o \in Nat, t \in Nat, b \in Nat :
           /\ lim = Limit /\ p = Pace /\ g = GivenBack /\ h = Err /\ s = MaxStall /\ o = Lent
           /\ t = d.now /\ b = d.back
    BY Paces
  <1>2. PICK y : y = Float64(t, Grain)
    OBVIOUS
  <1>3. y = Rounded(d) /\ ReadAt(d) = t + b
    BY <1>1, <1>2 DEF Rounded, ReadAt
  <1>4. y \in Nat /\ t <= y + h
    <2>1. PICK q \in Nat \ {0} : q = Grain /\ h = q \div 2
      BY <1>1, Chosen DEF Err
    <2> QED
      BY <1>2, <2>1, Stored, StoredBelow
  <1>5. PICK f \in Int : f = e + lim - 1 /\ f = e + Granted(d) + d.tokens - 1
    <2>1. Granted(d) = 1
      BY DEF Granted
    <2> QED
      BY <1>1, <2>1
  <1>6. ASSUME Within(e, at, tv, v, x, ReadAt(d), d.back)
        PROVE  f * p \in Int /\ f * p < x + b + 1 - s - at + h + o
    <2>1. f * p \in Int
      BY Multiples
    <2>2. f * p < x + b + 1 - s - at + h + o
      BY <1>1, <1>5, <1>6 DEF Within
    <2> QED
      BY <2>1, <2>2
  <1>7. x < n - c /\ n <= t + b + s /\ b <= c
    BY <1>1, <1>3
  <1>8. ASSUME Within(e, at, tv, v, x, ReadAt(d), d.back)
        PROVE  f * p < (t + b) - (at - o) + h /\ f * p < y + b + 2 * h - (at - o)
    BY <1>4, <1>6, <1>7, <1>8
  <1>9. t + b < y + b + 2 * h + p
    BY <1>4
  <1>10. ASSUME Within(e, at, tv, v, x, ReadAt(d), d.back), MayFail
         PROVE  Within(e - g, at, d.tokens, v, x, n, c)
    <2>1. \A m \in Nat : ~Due(m, v, x, n, c)
      BY <1>7, <1>10 DEF Due
    <2>2. PICK f2 \in Int : f2 = (e - g) + lim - 1
      OBVIOUS
    <2>3. f2 <= f
      BY <1>5, <2>2
    <2>4. f2 * p \in Int /\ f2 * p <= f * p
      BY <2>3, Multiples
    <2>5. f2 * p < x + c + 1 - s - at + h + o
      BY <1>6, <1>7, <1>10, <2>4
    <2> QED
      BY <1>1, <2>1, <2>2, <2>5 DEF Within
  <1> QED
    BY <1>1, <1>3, <1>5, <1>8, <1>9, <1>10 DEF Afforded

(* The pair that a call stores. *)
LEMMA AfterWrite ==
  ASSUME cfg \in Configs, RunsAsMeant, NEW e \in Int, NEW e2 \in Int, NEW at \in Int,
         NEW l, l.now \in Nat, l.back \in Nat, l.tokens \in 0..Limit, l.lastRefill \in Nat,
         Afforded(e, at, l), e2 <= e + Granted(l),
         NEW n \in Nat, NEW b \in Nat, ReadAt(l) <= n, l.back <= b,
         NEW x, x = n - b + Window
  PROVE  Within(e2, at, l.tokens, Rounded(l), x, n, b)
  <1>0. ReadAt(l) \in Nat
    BY DEF ReadAt
  <1>1. PICK lim \in Nat \ {0}, p \in Nat \ {0}, h \in Nat, s \in Nat, w \in Nat, k \in Nat, q \in Nat, c \in Nat,
             o \in Nat :
           /\ lim = Limit /\ p = Pace /\ h = Err /\ s = MaxStall /\ w = Window /\ o = Lent
           /\ k = l.tokens /\ k <= lim /\ q = ReadAt(l) /\ c = l.back
           /\ lim * p \in Nat /\ lim * p + s <= w + 1 + o
    <2>1. PICK lim \in Nat \ {0}, p \in Nat \ {0}, h \in Nat, s \in Nat, w \in Nat, o \in Nat :
             /\ lim = Limit /\ p = Pace /\ h = Err /\ s = MaxStall /\ w = Window /\ o = Lent
             /\ lim * p \in Nat /\ lim * p + s <= w + 1 + o
      BY Paces
    <2>2. l.tokens \in Nat /\ l.tokens <= lim
      BY <2>1
    <2> QED
      BY <1>0, <2>1, <2>2
  <1>2. PICK y \in Nat : y = Rounded(l)
    BY Chosen, Float64Nat DEF Rounded
  <1>3. PICK f \in Int : f = e + Granted(l) + k - 1 /\ e2 + k - 1 <= f
    <2>1. Granted(l) \in Int
      BY DEF Granted
    <2> QED
      BY <2>1
  <1>4. f * p \in Int /\ f * p < q - at + h /\ f * p < y + c + 2 * h - at
    BY <1>1, <1>2, <1>3, Multiples DEF Afforded
  <1>5. q <= n /\ c <= b
    BY <1>1
  <1>6. ASSUME NEW m \in Nat PROVE (e2 + Smaller(k + m, lim) - 1) * p < y + b + m * p + 2 * h - at
    <2>1. PICK f2 \in Int : f2 = e2 + Smaller(k + m, lim) - 1
      BY DEF Smaller
    <2>2. f2 <= f + m
      BY <1>3, <2>1 DEF Smaller
    <2>3. /\ f2 * p \in Int /\ f2 * p <= (f + m) * p
          /\ (f + m) * p = f * p + m * p /\ m * p \in Nat
      BY <2>2, Multiples, ProductNat
    <2> QED
      BY <1>4, <1>5, <2>1, <2>3
  <1>7. (e2 + k - 1) * p < n - at + h
    <2>1. PICK f2 \in Int : f2 = e2 + k - 1
      OBVIOUS
    <2>2. f2 * p \in Int /\ f2 * p <= f * p
      BY <1>3, <2>1, Multiples
    <2> QED
      BY <1>4, <1>5, <2>1, <2>2
  <1>8. (e2 + lim - 1) * p < x + b + 1 - s - at + h + o
    <2>1. PICK f2 \in Int : f2 = e2 + lim - 1
      OBVIOUS
    <2>2. f2 <= f + lim
      BY <1>3, <2>1
    <2>3. f2 * p \in Int /\ f2 * p <= (f + lim) * p /\ (f + lim) * p = f * p + lim * p
      BY <2>2, Multiples
    <2>4. x = n - b + w
      BY <1>1
    <2> QED
      BY <1>1, <1>4, <1>5, <2>1, <2>3, <2>4
  <1> QED
    BY <1>1, <1>2, <1>6, <1>7, <1>8 DEF Within

(* A grant is within Limit of itself. *)
LEMMA FirstOfItself ==
  ASSUME cfg \in Configs, RunsAsMeant, NEW l, l.now \in Nat, l.back \in Nat, l.tokens \in Nat,
         l.lastRefill \in Nat, l.allowed, l.tokens < Limit,
         ReadAt(l) < Rounded(l) + l.back + 2 * Err + Pace
  PROVE  Afforded(0 - Limit, ReadAt(l), l)
  <1>0. ReadAt(l) \in Nat
    BY DEF ReadAt
  <1>1. PICK lim \in Nat \ {0}, p \in Nat \ {0}, h \in Nat, k \in Nat, q \in Nat, c \in Nat :
           /\ lim = Limit /\ p = Pace /\ h = Err
           /\ k = l.tokens /\ q = ReadAt(l) /\ c = l.back /\ k < lim
    BY <1>0, Paces
  <1>2. PICK y \in Nat : y = Rounded(l)
    BY Chosen, Float64Nat DEF Rounded
  <1>3. PICK f \in Int : f = (0 - lim) + Granted(l) + k - 1 /\ f <= -1
    <2>1. Granted(l) = 1
      BY DEF Granted
    <2> QED
      BY <1>1, <2>1
  <1>4. f * p \in Int /\ f * p <= (-1) * p /\ (-1) * p = -p
    BY <1>3, Multiples
  <1>5. q < y + c + 2 * h + p
    BY <1>1, <1>2
  <1>6. f * p < q - q + h /\ f * p < y + c + 2 * h - q
    BY <1>4, <1>5
  <1> QED
    BY <1>1, <1>2, <1>3, <1>6 DEF Afforded

LEMMA PassedMore ==
  ASSUME cfg \in Configs, NEW c \in Nat, NEW at \in Nat, NEW n \in Int, NEW n2 \in Int, n <= n2,
         Passed(c, at, n)
  PROVE  Passed(c, at, n2)
  <1>1. PICK w \in Nat : w = Window
    BY Chosen
  <1>2. c * w \in Nat
    BY ProductNat
  <1> QED
    BY <1>1, <1>2 DEF Passed

LEMMA LentSince ==
  ASSUME cfg \in Configs, RunsAsMeant, NEW c \in Nat, NEW at \in Nat
  PROVE  at - c * Lent \in Int /\ at - (c + 1) * Lent = (at - c * Lent) - Lent
  <1>1. PICK o \in Nat : o = Lent
    BY Paces
  <1>2. c * o \in Nat /\ (c + 1) * o = c * o + o
    BY ProductNat
  <1> QED
    BY <1>1, <1>2

LEMMA CoveredLater ==
  ASSUME cfg \in Configs, RunsAsMeant,
         NEW e \in Int, NEW e2 \in Int, e2 <= e, NEW at \in Nat, NEW rv \in Nat, NEW x \in Nat,
         NEW tv \in 0..Limit, NEW tv2 \in 0..tv,
         NEW n \in Nat, NEW n2 \in Nat, n <= n2, NEW b \in Nat, NEW b2 \in Nat, b <= b2,
         MayFail => b2 = b, Covered(e, at, tv, rv, x, n, b)
  PROVE  Covered(e2, at, tv2, rv, x, n2, b2)
  <1>1. PICK c \in Nat : Passed(c, at, n) /\ Passed(c + 1, at, x + b) /\ Within(e, at - c * Lent, tv, rv, x, n, b)
    BY DEF Covered
  <1>2. PICK a \in Int : a = at - c * Lent
    BY LentSince
  <1>3. Within(e2, a, tv2, rv, x, n2, b2)
    BY <1>1, <1>2, Later
  <1>4. x + b <= x + b2 /\ x + b \in Int /\ x + b2 \in Int /\ c + 1 \in Nat
    OBVIOUS
  <1>5. Passed(c, at, n2) /\ Passed(c + 1, at, x + b2)
    BY <1>1, <1>4, PassedMore
  <1> QED
    BY <1>2, <1>3, <1>5 DEF Covered

LEMMA PaidLater ==
  ASSUME cfg \in Configs, NEW e, NEW at \in Nat, NEW l, NEW n \in Nat, NEW n2 \in Nat, n <= n2,
         Paid(e, at, l, n)
  PROVE  Paid(e, at, l, n2)
  BY PassedMore DEF Paid

(* A call that finds the refill time, and what it gives back if it fails.  *)
LEMMA PaidByRefill ==
  ASSUME cfg \in Configs, RunsAsMeant, NEW e \in Int, NEW at \in Nat,
         NEW tv \in 0..Limit, NEW v \in Nat, NEW x \in Nat, NEW n \in Nat,
         NEW d, NEW m \in Nat, FindsRefill(m, d, tv, v, x), ReadAt(d) <= n,
         Covered(e, at, tv, v, x, ReadAt(d), d.back)
  PROVE  Paid(e, at, d, n)
  <1>1. PICK c \in Nat : Passed(c, at, ReadAt(d)) /\ Within(e, at - c * Lent, tv, v, x, ReadAt(d), d.back)
    BY DEF Covered
  <1>2. PICK a \in Int : a = at - c * Lent
    BY LentSince
  <1>3. Afforded(e, a, d)
    BY <1>1, <1>2, AffordedByRefill
  <1>4. ReadAt(d) \in Nat
    BY DEF FindsRefill, ReadAt
  <1>5. ReadAt(d) + MaxStall \in Int /\ ReadAt(d) <= ReadAt(d) + MaxStall
    <2>1. PICK q \in Nat, z \in Nat : q = ReadAt(d) /\ z = MaxStall
      BY <1>4, Paces
    <2> QED
      BY <2>1
  <1>6. Passed(c, at, n) /\ Passed(c, at, ReadAt(d) + MaxStall)
    BY <1>1, <1>4, <1>5, PassedMore
  <1> QED
    BY <1>2, <1>3, <1>6 DEF Paid

LEMMA CoveredGivenBack ==
  ASSUME cfg \in Configs, RunsAsMeant, MayFail, NEW e \in Int, NEW at \in Nat,
         NEW tv \in 0..Limit, NEW v \in Nat, NEW x \in Nat, NEW n \in Nat, NEW b \in Nat,
         Covered(e, at, tv, v, x, n, b),
         NEW k \in 0..tv, NEW m \in Nat, m = 0 \/ v + b + m * TimePerToken <= n,
         NEW tv2 \in Nat, tv2 = 0 \/ tv2 = Smaller(k + m, Limit) - 1
  PROVE  Covered(e - GivenBack, at, tv2, v, x, n, b)
  <1>1. PICK c \in Nat : Passed(c, at, n) /\ Passed(c + 1, at, x + b) /\ Within(e, at - c * Lent, tv, v, x, n, b)
    BY DEF Covered
  <1>2. PICK a \in Int : a = at - c * Lent
    BY LentSince
  <1>3. Within(e - GivenBack, a, tv2, v, x, n, b)
    BY <1>1, <1>2, GivenBackAtMost
  <1> QED
    BY <1>1, <1>2, <1>3 DEF Covered

(* A call that finds the refill time expired borrows once more. *)
LEMMA PaidByExpiry ==
  ASSUME cfg \in Configs, RunsAsMeant, NEW e \in Int, NEW at \in Nat,
         NEW tv, NEW v, NEW x \in Nat, NEW n \in Nat, NEW b \in Nat,
         NEW d, d.now \in Nat, d.back \in Nat,
         d.allowed, d.tokens = Limit - 1, d.lastRefill = d.now,
         x < n - b, ReadAt(d) <= n, n <= ReadAt(d) + MaxStall, d.back <= b,
         Covered(e, at, tv, v, x, ReadAt(d), d.back)
  PROVE  /\ Paid(e, at, d, n)
         /\ MayFail => Covered(e - GivenBack, at, d.tokens, v, x, n, b)
  <1>1. PICK c \in Nat :
           /\ Passed(c, at, ReadAt(d)) /\ Passed(c + 1, at, x + d.back)
           /\ Within(e, at - c * Lent, tv, v, x, ReadAt(d), d.back)
    BY DEF Covered
  <1>2. PICK a \in Int : a = at - c * Lent /\ at - (c + 1) * Lent = a - Lent
    BY LentSince
  <1>3. /\ Afforded(e, a - Lent, d)
        /\ MayFail => Within(e - GivenBack, a, d.tokens, v, x, n, b)
    BY <1>1, <1>2, AffordedByExpiry
  <1>4. PICK y \in Nat, q \in Nat, z \in Nat : y = d.back /\ q = ReadAt(d) /\ z = MaxStall
    BY Paces DEF ReadAt
  <1>5. /\ x + y <= n /\ n <= q + z /\ x + y <= q + z /\ x + y <= x + b /\ q <= n
        /\ x + y \in Int /\ x + b \in Int /\ q + z \in Int /\ c + 1 \in Nat
    BY <1>4
  <1>6. Passed(c + 1, at, n) /\ Passed(c + 1, at, q + z) /\ Passed(c + 1, at, x + b) /\ Passed(c, at, n)
    BY <1>1, <1>4, <1>5, PassedMore
  <1>7. Paid(e, at, d, n)
    BY <1>2, <1>3, <1>4, <1>5, <1>6 DEF Paid
  <1>8. MayFail => Covered(e - GivenBack, at, d.tokens, v, x, n, b)
    BY <1>2, <1>3, <1>6 DEF Covered
  <1> QED
    BY <1>7, <1>8

LEMMA CoveredAfterWrite ==
  ASSUME cfg \in Configs, RunsAsMeant, NEW e \in Int, NEW e2 \in Int, NEW at \in Nat,
         NEW l, l.now \in Nat, l.back \in Nat, l.tokens \in 0..Limit, l.lastRefill \in Nat,
         NEW n \in Nat, NEW b \in Nat, ReadAt(l) <= n, l.back <= b,
         Paid(e, at, l, n), e2 <= e + Granted(l),
         NEW x, x = n - b + Window
  PROVE  Covered(e2, at, l.tokens, Rounded(l), x, n, b)
  <1>1. PICK c \in Nat : Passed(c, at, n) /\ Afforded(e, at - c * Lent, l)
    BY DEF Paid
  <1>2. PICK a \in Int : a = at - c * Lent
    BY LentSince
  <1>3. Within(e2, a, l.tokens, Rounded(l), x, n, b)
    BY <1>1, <1>2, AfterWrite
  <1>4. Passed(c + 1, at, x + b)
    <2>1. PICK w \in Nat : w = Window
      BY Chosen
    <2>2. c * w \in Nat /\ (c + 1) * w = c * w + w
      BY ProductNat
    <2>3. c * w <= n - at /\ x + b = n + w
      BY <1>1, <2>1 DEF Passed
    <2>4. (c + 1) * w <= (x + b) - at
      BY <2>2, <2>3
    <2> QED
      BY <2>1, <2>4 DEF Passed
  <1> QED
    BY <1>1, <1>2, <1>3, <1>4 DEF Covered

LEMMA FirstPaid ==
  ASSUME cfg \in Configs, RunsAsMeant, NEW l, l.now \in Nat, l.back \in Nat, l.tokens \in Nat,
         l.lastRefill \in Nat, l.allowed, l.tokens < Limit,
         ReadAt(l) < Rounded(l) + l.back + 2 * Err + Pace, NEW n \in Nat, ReadAt(l) <= n
  PROVE  Paid(0 - Limit, ReadAt(l), l, n)
  <1>1. PICK q \in Nat, z \in Nat, w \in Nat, o \in Nat :
           q = ReadAt(l) /\ z = MaxStall /\ w = Window /\ o = Lent
    BY Paces DEF ReadAt
  <1>2. 0 * w = 0 /\ 0 * o = 0 /\ q - 0 = q
    OBVIOUS
  <1>3. Passed(0, q, n) /\ Passed(0, q, q + z)
    BY <1>1, <1>2 DEF Passed
  <1>4. Afforded(0 - Limit, q - 0 * Lent, l)
    BY <1>1, <1>2, FirstOfItself
  <1> QED
    BY <1>1, <1>3, <1>4 DEF Paid

LEMMA MultipleAbove ==
  ASSUME NEW a \in Nat \ {0}, NEW g \in Nat \ {0}, a % g = 0
  PROVE  a >= g
  <1>1. PICK q \in Nat : q * g \in Nat /\ a = q * g
    <2>1. /\ a \div g \in Nat /\ (a \div g) * g \in Nat
          /\ a = (a \div g) * g + (a % g)
      BY Division
    <2> QED
      BY <2>1
  <1>2. PICK j \in Nat : q = j + 1
    <2>1. q # 0
      BY <1>1
    <2>2. q - 1 \in Nat /\ q = (q - 1) + 1
      BY <2>1
    <2> QED
      BY <2>2
  <1>3. (j + 1) * g = j * g + g /\ j * g \in Nat
    BY ProductNat
  <1> QED
    BY <1>1, <1>2, <1>3

LEMMA AheadFalls ==
  ASSUME cfg \in Configs, RunsAsMeant, NEW gs \in Seq([at : Nat, failures : Nat]),
         NEW i \in 1..Len(gs), NEW k \in Nat
  PROVE  /\ gs[i].at \in Nat /\ gs[i].failures \in Nat /\ Ahead(gs, i, k) \in Int
         /\ Ahead(gs, i, k + 1) = Ahead(gs, i, k) - GivenBack
  <1>1. gs[i] \in [at : Nat, failures : Nat] /\ Len(gs) \in Nat
    BY ElementOfSeq, LenProperties
  <1>2. PICK f \in Nat : f = gs[i].failures
    BY <1>1
  <1>3. PICK g \in Nat, lim \in Nat : g = GivenBack /\ lim = Limit
    BY Paces
  <1>4. (k - f) * g \in Int /\ ((k - f) + 1) * g = (k - f) * g + 1 * g /\ (k + 1) - f = (k - f) + 1
    BY Multiples
  <1>5. PICK c \in Int : c = (k - f) * g /\ (k + 1 - f) * g = c + g
    BY <1>4
  <1>6. PICK r \in Int : r = (Len(gs) - i + 1) - lim
    BY <1>1
  <1>7. Ahead(gs, i, k) = r - c /\ Ahead(gs, i, k + 1) = r - (c + g)
    <2>1. Ahead(gs, i, k) = (Len(gs) - i + 1) - lim - (k - f) * g
      BY <1>2, <1>3 DEF Ahead
    <2>2. Ahead(gs, i, k + 1) = (Len(gs) - i + 1) - lim - (k + 1 - f) * g
      <3>1. PICK k1 \in Nat : k1 = k + 1
        OBVIOUS
      <3>2. Ahead(gs, i, k1) = (Len(gs) - i + 1) - lim - (k1 - f) * g
        BY <1>2, <1>3 DEF Ahead
      <3> QED
        BY <3>1, <3>2
    <2>3. Ahead(gs, i, k) = r - c
      BY <1>5, <1>6, <2>1
    <2>4. Ahead(gs, i, k + 1) = r - (c + g)
      BY <1>5, <1>6, <2>2
    <2> QED
      BY <2>3, <2>4
  <1> QED
    BY <1>1, <1>3, <1>7

LEMMA SinceLater ==
  ASSUME cfg \in Configs, RunsAsMeant, NEW gs \in Seq([at : Nat, failures : Nat]),
         NEW k \in Nat, NEW k2 \in {k, k + 1}, NEW rv \in Nat, NEW x \in Nat,
         NEW tv \in 0..Limit, NEW tv2 \in 0..tv,
         NEW n \in Nat, NEW n2 \in Nat, n <= n2, NEW b \in Nat, NEW b2 \in Nat, b <= b2,
         MayFail => b2 = b, Since(gs, k, tv, rv, x, n, b)
  PROVE  Since(gs, k2, tv2, rv, x, n2, b2)
  <1> SUFFICES ASSUME NEW i \in 1..Len(gs)
               PROVE  Covered(Ahead(gs, i, k2), gs[i].at, tv2, rv, x, n2, b2)
    BY DEF Since
  <1>1. PICK e, e2, at : e = Ahead(gs, i, k) /\ e2 = Ahead(gs, i, k2) /\ at = gs[i].at
    OBVIOUS
  <1>2. e \in Int /\ e2 \in Int /\ at \in Nat /\ e2 <= e
    <2>1. /\ gs[i].at \in Nat /\ Ahead(gs, i, k) \in Int
          /\ Ahead(gs, i, k + 1) = Ahead(gs, i, k) - GivenBack
      BY AheadFalls
    <2>2. GivenBack \in Nat
      BY Paces
    <2>3. k2 = k \/ k2 = k + 1
      OBVIOUS
    <2>4. CASE k2 = k
      BY <1>1, <2>1, <2>4
    <2>5. CASE k2 = k + 1
      <3>1. PICK z \in Int, g \in Nat : z = Ahead(gs, i, k) /\ g = GivenBack
        BY <2>1, <2>2
      <3>2. e = z /\ e2 = z - g
        BY <1>1, <2>1, <2>5, <3>1
      <3>3. z - g \in Int /\ z - g <= z
        OBVIOUS
      <3> QED
        BY <1>1, <2>1, <3>2, <3>3
    <2> QED
      BY <2>3, <2>4, <2>5
  <1>3. Covered(e, at, tv, rv, x, n, b)
    BY <1>1 DEF Since
  <1>4. Covered(e2, at, tv2, rv, x, n2, b2)
    BY <1>2, <1>3, CoveredLater
  <1> QED
    BY <1>1, <1>4

LEMMA RFacts ==
  ASSUME RInv
  PROVE  /\ grants \in Seq([at : Nat, failures : Nat]) /\ failures \in Nat
         /\ refillCell.expiresAt \in Nat
         /\ MayFail /\ RunsAsMeant => back = 0
         /\ Wall >= Grain
         /\ \A t \in Threads : Spending(pc[t], loc[t], grants, failures, tokensCell.value,
                                        refillCell.value, refillCell.expiresAt, now, back)
  <1>1. IInv /\ KInv
    BY DEF RInv, KInv
  <1>2. grants \in Seq([at : Nat, failures : Nat]) /\ failures \in Nat
    BY <1>1 DEF IInv, TypeOK
  <1>3. refillCell.expiresAt \in Nat
    BY <1>1 DEF IInv, TypeOK
  <1>4. MayFail /\ RunsAsMeant => back = 0
    BY <1>1, KFacts DEF IInv, ClockOK, RunsAsMeant, FailuresOrStepsBack
  <1>5. Wall >= Grain
    <2>1. PICK n \in Nat, b \in Nat, g \in Nat, m \in Nat :
             n = now /\ b = back /\ g = Grain /\ m = MaxBack
      BY <1>1, KFacts, Chosen
    <2>2. n >= g + m /\ b <= m
      BY <1>1, <2>1 DEF IInv, ClockOK
    <2> QED
      BY <2>1, <2>2 DEF Wall
  <1> QED
    BY <1>2, <1>3, <1>4, <1>5 DEF RInv

LEMMA SameRates ==
  ASSUME UNCHANGED cfg
  PROVE  /\ Limit' = Limit /\ Window' = Window /\ Grain' = Grain /\ Err' = Err /\ Pace' = Pace
         /\ TimePerToken' = TimePerToken /\ MaxStall' = MaxStall /\ GivenBack' = GivenBack
         /\ MayFail' = MayFail /\ Lent' = Lent
  BY DEF Limit, Window, Grain, Err, Pace, TimePerToken, MaxStall, GivenBack, MayFail, Lent

LEMMA SpendingNow ==
  ASSUME UNCHANGED cfg, NEW u, NEW p, NEW l, NEW gs, NEW k, NEW tv, NEW rv, NEW x, NEW n, NEW b,
         p = pc'[u], l = loc'[u], gs = grants', k = failures', tv = tokensCell'.value,
         rv = refillCell'.value, x = refillCell'.expiresAt, n = now', b = back',
         Spending(p, l, gs, k, tv, rv, x, n, b)
  PROVE  Spending(pc[u], loc[u], grants, failures, tokensCell.value,
                  refillCell.value, refillCell.expiresAt, now, back)'
  BY SameRates DEF Spending, Since, Covered, Paid, Passed, Within, Due, Ahead, Afforded, Rounded, Granted, Smaller, ReadAt

LEMMA SinceNow ==
  ASSUME UNCHANGED cfg, NEW gs, NEW k, NEW tv, NEW rv, NEW x, NEW n, NEW b,
         gs = grants', k = failures', tv = tokensCell'.value, rv = refillCell'.value,
         x = refillCell'.expiresAt, n = now', b = back', Since(gs, k, tv, rv, x, n, b)
  PROVE  Since(grants, failures, tokensCell.value, refillCell.value, refillCell.expiresAt, now, back)'
  BY SameRates DEF Since, Covered, Passed, Within, Due, Ahead, Smaller

(* The third invariant after a step of one goroutine. *)
LEMMA MovedWithin ==
  ASSUME RInv, KInv', NEW t \in Threads, UNCHANGED <<cfg, now, back>>,
         NEW p, NEW l, pc' = [pc EXCEPT ![t] = p], loc' = [loc EXCEPT ![t] = l],
         Alone(t) \/ UNCHANGED <<tokensCell, refillCell, failures, grants>>,
         NEW gs, NEW k, NEW tv, NEW rv, NEW x, gs = grants', k = failures',
         tv = tokensCell'.value, rv = refillCell'.value, x = refillCell'.expiresAt,
         RateOf(gs), Len(gs) > 0 => rv >= Grain,
         (p \in {"idle", "lock"} /\ Alone(t)) => Since(gs, k, tv, rv, x, now, back),
         Spending(p, l, gs, k, tv, rv, x, now, back)
  PROVE  RInv'
  <1>1. pc \in [Threads -> PCs] /\ loc \in [Threads -> Local]
    BY DEF RInv, KInv, IInv, TypeOK
  <1>2. /\ pc'[t] = p /\ loc'[t] = l
        /\ \A u \in Threads \ {t} : pc'[u] = pc[u] /\ loc'[u] = loc[u]
    BY <1>1
  <1>3. ASSUME NEW u \in Threads PROVE Spending(pc'[u], loc'[u], gs, k, tv, rv, x, now, back)
    <2>1. CASE u = t
      BY <1>2, <2>1
    <2>2. CASE u # t /\ Alone(t)
      <3>1. pc'[u] \in {"idle", "lock"}
        BY <1>2, <2>2 DEF Alone
      <3> QED
        BY <3>1 DEF Spending
    <2>3. CASE u # t /\ UNCHANGED <<tokensCell, refillCell, failures, grants>>
      BY <1>2, <2>3, RFacts
    <2> QED
      BY <2>1, <2>2, <2>3
  <1>4. \A u \in Threads : Spending(pc[u], loc[u], grants, failures, tokensCell.value,
                                    refillCell.value, refillCell.expiresAt, now, back)'
    BY <1>3, SameRates DEF Spending, Since, Covered, Paid, Passed, Within, Due, Ahead, Afforded, Rounded, Granted, Smaller, ReadAt
  <1>5. RateOf(grants)'
    BY SameRates DEF RateOf
  <1>6. (Len(grants) > 0 => refillCell.value >= Grain)'
    BY SameRates
  <1>7. ((\A u \in Threads : pc[u] \in {"idle", "lock"}) =>
           Since(grants, failures, tokensCell.value, refillCell.value, refillCell.expiresAt, now, back))'
    <2>1. ASSUME \A u \in Threads : pc'[u] \in {"idle", "lock"}
          PROVE  Since(gs, k, tv, rv, x, now, back)
      BY <1>2, <2>1 DEF Alone
    <2>2. ASSUME Since(gs, k, tv, rv, x, now, back)
          PROVE  Since(grants, failures, tokensCell.value, refillCell.value, refillCell.expiresAt, now, back)'
      <3>1. PICK n, b : n = now /\ b = back /\ n = now' /\ b = back'
        OBVIOUS
      <3> QED
        BY <2>2, <3>1, SinceNow
    <2> QED
      BY <2>1, <2>2
  <1> QED
    BY <1>4, <1>5, <1>6, <1>7 DEF RInv

LEMMA DecisionWithin ==
  ASSUME RInv, RunsAsMeant, NEW t \in Threads, pc[t] = "getRefill", NEW v,
         v = Read(refillCell, Wall), NEW d, d = Decide(loc[t], v)
  PROVE  /\ d.now = loc[t].now /\ d.back = loc[t].back /\ d.lastRefill >= Grain
         /\ d.allowed => d.tokens < Limit /\ ReadAt(d) < Rounded(d) + d.back + 2 * Err + Pace
         /\ \A i \in 1..Len(grants) : Paid(Ahead(grants, i, failures), grants[i].at, d, now)
         /\ MayFail => Since(grants, failures + 1, d.tokens, refillCell.value,
                             refillCell.expiresAt, now, back)
  <1>1. KInv /\ cfg \in Configs
    BY KFacts DEF RInv
  <1>2. PICK l \in Local, tv \in 0..Limit, rv \in Nat, x \in Nat, n \in Nat, b \in Nat, k \in Nat,
             gs \in Seq([at : Nat, failures : Nat]) :
           /\ l = loc[t] /\ tv = tokensCell.value /\ rv = refillCell.value /\ x = refillCell.expiresAt
           /\ n = now /\ b = back /\ k = failures /\ gs = grants
    BY <1>1, KFacts, RFacts
  <1>3. /\ l.now \in Nat /\ l.back \in Nat /\ l.back <= b /\ ReadAt(l) <= n
        /\ n <= ReadAt(l) + MaxStall /\ rv % Grain = 0
    <2>1. InHand("getRefill", l, tokensCell, rv, last, n, b)
      BY <1>1, <1>2, KFacts
    <2>2. rv % Grain = 0
      BY <1>1, <1>2 DEF KInv, RetryOK
    <2> QED
      BY <1>1, <1>2, <2>1, <2>2, KFacts DEF InHand
  <1>4. /\ l.now >= Grain /\ Since(gs, k, tv, rv, x, ReadAt(l), l.back)
        /\ l.tokens <= tv /\ l.tokens \in 0..Limit
    <2>1. Spending("getRefill", l, gs, k, tv, rv, x, n, b)
      BY <1>2, RFacts
    <2>2. l.tokens \in 0..Limit
      BY <1>2 DEF RInv, KInv, IInv, LocalsOK
    <2> QED
      BY <2>1, <2>2 DEF Spending
  <1>5. Len(gs) > 0 => rv >= Grain
    BY <1>2 DEF RInv
  <1>6. v \in Nat /\ ((v = rv /\ x >= n - b) \/ (v = 0 /\ x < n - b))
    BY <1>2 DEF Read, Live, Wall
  <1>7. /\ d.now = l.now /\ d.back = l.back /\ d.tokens \in 0..Limit /\ d.lastRefill \in Nat
        /\ d.allowed => d.tokens < Limit
        /\ ~d.allowed => d.tokens = 0
        /\ v = 0 => d.allowed /\ d.tokens = Limit - 1 /\ d.lastRefill = l.now
        /\ v # 0 => \E m \in Nat :
             RefillsBy(m, d, v) /\ Granted(d) + d.tokens = Smaller(l.tokens + m, Limit)
    <2>1. d = Decide(l, v)
      BY <1>2
    <2>2. cfg \in Configs /\ l.now \in Nat /\ l.tokens \in 0..Limit /\ v \in Nat
      BY <1>1, <1>3, <1>4, <1>6
    <2> QED
      BY <2>1, <2>2, Refilled
  <1>8. ReadAt(d) = ReadAt(l) /\ ReadAt(l) \in Nat /\ Grain \in Nat \ {0} /\ TimePerToken \in Nat \ {0}
    <2>1. ReadAt(d) = ReadAt(l) /\ ReadAt(l) \in Nat
      BY <1>3, <1>7 DEF ReadAt
    <2> QED
      BY <1>1, <2>1, Chosen
  <1>9. MayFail => b = 0 /\ l.back = 0
    BY <1>2, <1>3, RFacts
  <1>10. ASSUME NEW i \in 1..Len(gs)
         PROVE  /\ Covered(Ahead(gs, i, k), gs[i].at, tv, rv, x, ReadAt(d), d.back)
                /\ Ahead(gs, i, k) \in Int /\ gs[i].at \in Nat /\ Len(gs) > 0
                /\ Ahead(gs, i, k + 1) = Ahead(gs, i, k) - GivenBack
    <2>1. /\ gs[i].at \in Nat /\ Ahead(gs, i, k) \in Int
          /\ Ahead(gs, i, k + 1) = Ahead(gs, i, k) - GivenBack
      BY <1>1, AheadFalls
    <2>2. Len(gs) > 0
      BY LenProperties
    <2> QED
      BY <1>4, <1>7, <1>8, <2>1, <2>2 DEF Since
  <1>11. CASE v # 0
    <2>1. v = rv /\ x >= n - b /\ v >= Grain
      <3>1. v = rv /\ x >= n - b
        BY <1>6, <1>11
      <3> QED
        BY <1>3, <1>8, <1>11, <3>1, MultipleAbove
    <2>2. PICK m \in Nat :
             /\ RefillsBy(m, d, v)
             /\ Granted(d) + d.tokens = Smaller(l.tokens + m, Limit)
             /\ d.lastRefill = v + m * TimePerToken
             /\ m = 0 \/ d.lastRefill <= l.now
      BY <1>7, <1>11 DEF RefillsBy
    <2>3. RefillsBy(m, d, v) /\ Granted(d) + d.tokens <= Smaller(tv + m, Limit)
      <3>1. Smaller(l.tokens + m, Limit) <= Smaller(tv + m, Limit)
        BY <1>1, <1>4, Chosen DEF Smaller
      <3> QED
        BY <2>2, <3>1
    <2>4. MayFail => x >= d.now
      <3>1. MayFail => ReadAt(l) = l.now
        BY <1>3, <1>9 DEF ReadAt
      <3> QED
        BY <1>3, <1>7, <1>8, <1>9, <2>1, <3>1
    <2>5. l.tokens \in 0..tv
      BY <1>4
    <2>6. ASSUME NEW e \in Int, NEW at \in Nat
          PROVE  /\ Covered(e, at, tv, v, x, ReadAt(d), d.back) => Paid(e, at, d, n)
                 /\ ReadAt(d) < Rounded(d) + d.back + 2 * Err + Pace
      <3>1. d.now \in Nat /\ d.back \in Nat /\ d.lastRefill \in Nat /\ d.tokens \in Nat
        BY <1>3, <1>7
      <3>2. v % Grain = 0
        BY <1>3, <2>1
      <3>3. FindsRefill(m, d, tv, v, x)
        BY <2>3, <2>4, <3>1, <3>2 DEF FindsRefill
      <3> QED
        BY <1>1, <1>3, <1>6, <1>8, <3>3, AffordedByRefill, PaidByRefill
    <2>7. d.lastRefill >= Grain
      <3>1. PICK w \in Nat, g \in Nat : w = TimePerToken /\ g = Grain
        BY <1>8
      <3>2. PICK q \in Nat : q = m * w
        BY ProductNat
      <3>3. d.lastRefill = v + q /\ v >= g
        BY <2>1, <2>2, <3>1, <3>2
      <3>4. d.lastRefill >= g
        BY <1>6, <3>3
      <3> QED
        BY <3>1, <3>4
    <2>8. \A i \in 1..Len(gs) : Paid(Ahead(gs, i, k), gs[i].at, d, n)
      BY <1>10, <2>1, <2>6
    <2>9. ReadAt(d) < Rounded(d) + d.back + 2 * Err + Pace
      <3>1. 0 \in Int /\ 0 \in Nat
        OBVIOUS
      <3> QED
        BY <2>6, <3>1
    <2>10. ASSUME MayFail, NEW i \in 1..Len(gs)
           PROVE  Covered(Ahead(gs, i, k + 1), gs[i].at, d.tokens, rv, x, n, b)
      <3>1. PICK e \in Int, at \in Nat : e = Ahead(gs, i, k) /\ at = gs[i].at
        BY <1>10
      <3>2. Covered(e, at, tv, rv, x, n, b)
        <4>1. Covered(e, at, tv, rv, x, ReadAt(l), l.back)
          BY <1>7, <1>8, <1>10, <3>1
        <4>2. tv \in 0..tv /\ e <= e /\ b = l.back /\ ReadAt(l) <= n /\ l.back <= b
          BY <1>3, <1>9, <2>10
        <4> QED
          BY <1>1, <1>3, <1>8, <4>1, <4>2, CoveredLater
      <3>3. m = 0 \/ rv + b + m * TimePerToken <= n
        <4>1. b = 0 /\ ReadAt(l) = l.now
          BY <1>3, <1>9, <2>10 DEF ReadAt
        <4>2. ASSUME m # 0 PROVE d.lastRefill <= n
          BY <1>3, <1>7, <2>2, <4>1, <4>2
        <4>3. m * TimePerToken \in Nat /\ d.lastRefill = rv + m * TimePerToken
          BY <1>8, <2>1, <2>2, ProductNat
        <4> QED
          BY <4>1, <4>2, <4>3
      <3>4. d.tokens \in Nat /\ (d.tokens = 0 \/ d.tokens = Smaller(l.tokens + m, Limit) - 1)
        <4>1. CASE d.allowed
          <5>1. Granted(d) = 1
            BY <4>1 DEF Granted
          <5> QED
            BY <1>7, <2>2, <5>1
        <4>2. CASE ~d.allowed
          BY <1>7, <4>2
        <4> QED
          BY <4>1, <4>2
      <3>5. Covered(e - GivenBack, at, d.tokens, rv, x, n, b)
        BY <1>1, <2>5, <2>10, <3>2, <3>3, <3>4, CoveredGivenBack
      <3> QED
        BY <1>10, <3>1, <3>5
    <2> QED
      BY <1>2, <1>7, <2>7, <2>8, <2>9, <2>10 DEF Since
  <1>12. CASE v = 0
    <2>1. Len(gs) > 0 => x < n - b
      BY <1>5, <1>6, <1>8, <1>12
    <2>2. d.allowed /\ d.tokens = Limit - 1 /\ d.lastRefill = d.now /\ d.lastRefill >= Grain
      BY <1>4, <1>7, <1>12
    <2>3. d.now \in Nat /\ d.back \in Nat /\ d.back <= b /\ n <= ReadAt(d) + MaxStall
      BY <1>3, <1>7, <1>8
    <2>4. ReadAt(d) < Rounded(d) + d.back + 2 * Err + Pace
      <3>1. PICK g \in Nat \ {0} : g = Grain
        BY <1>8
      <3>2. PICK y : y = Float64(d.now, g)
        OBVIOUS
      <3>3. y \in Nat /\ d.now <= y + g \div 2
        <4>1. y \in Nat
          BY <2>3, <3>2, Float64Nat
        <4>2. d.now <= y + g \div 2
          BY <2>3, <3>2, StoredBelow
        <4> QED
          BY <4>1, <4>2
      <3>4. y = Rounded(d) /\ g \div 2 = Err
        BY <2>2, <3>1, <3>2 DEF Rounded, Err
      <3>5. PICK a \in Nat, c \in Nat, h \in Nat, p \in Nat \ {0} :
               a = d.now /\ c = d.back /\ h = Err /\ p = Pace
        BY <1>1, <2>3, Paces
      <3>6. a <= y + h /\ y \in Nat
        BY <3>1, <3>3, <3>4, <3>5
      <3>7. a + c < y + c + 2 * h + p
        BY <3>6
      <3> QED
        BY <3>4, <3>5, <3>7 DEF ReadAt
    <2>5. ASSUME NEW i \in 1..Len(gs)
          PROVE  /\ Paid(Ahead(gs, i, k), gs[i].at, d, n)
                 /\ MayFail => Covered(Ahead(gs, i, k + 1), gs[i].at, d.tokens, rv, x, n, b)
      <3>1. PICK e \in Int, at \in Nat : e = Ahead(gs, i, k) /\ at = gs[i].at
        BY <1>10
      <3>2. Covered(e, at, tv, rv, x, ReadAt(d), d.back) /\ x < n - b
        BY <1>10, <2>1, <3>1
      <3>3. /\ Paid(e, at, d, n)
            /\ MayFail => Covered(e - GivenBack, at, d.tokens, rv, x, n, b)
        BY <1>1, <1>3, <1>8, <2>2, <2>3, <3>2, PaidByExpiry
      <3> QED
        BY <1>10, <3>1, <3>3
    <2> QED
      BY <1>2, <1>7, <2>2, <2>4, <2>5 DEF Since
  <1> QED
    BY <1>11, <1>12

LEMMA EnteringWithin ==
  ASSUME RInv, KInv', RunsAsMeant, NEW t \in Threads, Allow(t) \/ Lock(t)
  PROVE  RInv'
  <1>1. UNCHANGED <<cfg, now, back, tokensCell, refillCell, failures, grants>> /\ KInv
    BY DEF Allow, Lock, RInv
  <1>2. PICK gs, k, tv, rv, x :
           /\ gs = grants /\ k = failures /\ tv = tokensCell.value
           /\ rv = refillCell.value /\ x = refillCell.expiresAt
    OBVIOUS
  <1>3. RateOf(gs) /\ (Len(gs) > 0 => rv >= Grain)
    BY <1>2 DEF RInv
  <1>4. (Alone(t) /\ pc[t] \in {"idle", "lock"}) => Since(gs, k, tv, rv, x, now, back)
    BY <1>2 DEF RInv, Alone
  <1>5. CASE Allow(t)
    <2>1. PICK p, l : p = "lock" /\ l = loc[t] /\ pc' = [pc EXCEPT ![t] = p] /\ loc' = [loc EXCEPT ![t] = l]
      <3>1. loc \in [Threads -> Local]
        BY DEF RInv, KInv, IInv, TypeOK
      <3>2. loc = [loc EXCEPT ![t] = loc[t]]
        BY <3>1
      <3>3. loc' = loc /\ pc' = [pc EXCEPT ![t] = "lock"]
        BY <1>5 DEF Allow, Goto
      <3> QED
        BY <3>2, <3>3
    <2>2. Spending(p, l, gs, k, tv, rv, x, now, back)
      BY <2>1 DEF Spending
    <2>3. pc[t] \in {"idle", "lock"}
      BY <1>5 DEF Allow
    <2> QED
      BY <1>1, <1>2, <1>3, <1>4, <2>1, <2>2, <2>3, MovedWithin
  <1>6. CASE Lock(t)
    <2>1. PICK w \in Nat, b \in Nat, n \in Nat : w = Wall /\ b = back /\ n = now /\ w = n - b /\ w >= Grain
      BY <1>1, KFacts, RFacts DEF Wall
    <2>2. PICK c : c = [loc[t] EXCEPT !.now = w]
      OBVIOUS
    <2>3. PICK l : l = [c EXCEPT !.back = b]
      OBVIOUS
    <2>4. c \in Local /\ c.now = w
      BY <1>1, <2>2, KFacts DEF Local
    <2>5. l \in Local /\ l.now = w /\ l.back = b
      BY <2>3, <2>4 DEF Local
    <2>6. PICK p : p = "getTokens" /\ pc' = [pc EXCEPT ![t] = p]
      BY <1>6 DEF Lock, Goto
    <2>7. loc' = [loc EXCEPT ![t] = l]
      <3>1. loc' = [loc EXCEPT ![t].now = w, ![t].back = b]
        BY <1>6, <2>1 DEF Lock
      <3> QED
        BY <2>2, <2>3, <3>1 DEF RInv, KInv, IInv, TypeOK
    <2>8. ReadAt(l) = n
      BY <2>1, <2>5 DEF ReadAt
    <2>9. Alone(t) /\ pc[t] = "lock"
      BY <1>6, HolderAlone DEF RInv, KInv, Lock
    <2>10. Since(gs, k, tv, rv, x, ReadAt(l), l.back)
      BY <1>4, <2>1, <2>5, <2>8, <2>9
    <2>11. Spending(p, l, gs, k, tv, rv, x, now, back)
      BY <2>1, <2>5, <2>6, <2>10 DEF Spending
    <2>12. p \notin {"idle", "lock"}
      BY <2>6
    <2> QED
      BY <1>1, <1>2, <1>3, <2>6, <2>7, <2>9, <2>11, <2>12, MovedWithin
  <1> QED
    BY <1>5, <1>6

LEMMA ReadingWithin ==
  ASSUME RInv, KInv', RunsAsMeant, NEW t \in Threads, GetTokens(t)
  PROVE  RInv'
  <1>1. /\ UNCHANGED <<cfg, now, back, tokensCell, refillCell, failures, grants>> /\ KInv
        /\ pc[t] = "getTokens"
    BY DEF GetTokens, RInv
  <1>2. PICK gs, k, tv, rv, x :
           /\ gs = grants /\ k = failures /\ tv = tokensCell.value
           /\ rv = refillCell.value /\ x = refillCell.expiresAt
    OBVIOUS
  <1>3. RateOf(gs) /\ (Len(gs) > 0 => rv >= Grain)
    BY <1>2 DEF RInv
  <1>4. PICK v : v = Read(tokensCell, Wall)
    OBVIOUS
  <1>5. PICK l : l = [loc[t] EXCEPT !.tokens = v]
    OBVIOUS
  <1>6. v <= tv
    BY <1>1, <1>2, <1>4, KFacts DEF Read
  <1>7. l.now = loc[t].now /\ l.back = loc[t].back /\ l.tokens = v
    BY <1>1, <1>5, KFacts DEF Local
  <1>8. PICK p : p = "getRefill" /\ pc' = [pc EXCEPT ![t] = p]
    BY DEF GetTokens, Goto
  <1>9. loc' = [loc EXCEPT ![t] = l]
    BY <1>4, <1>5 DEF GetTokens
  <1>10. loc[t].now >= Grain /\ Since(gs, k, tv, rv, x, ReadAt(loc[t]), loc[t].back)
    BY <1>1, <1>2, RFacts DEF Spending
  <1>11. Spending(p, l, gs, k, tv, rv, x, now, back)
    <2>1. ReadAt(l) = ReadAt(loc[t])
      BY <1>7 DEF ReadAt
    <2> QED
      BY <1>6, <1>7, <1>8, <1>10, <2>1 DEF Spending
  <1>12. p \notin {"idle", "lock"}
    BY <1>8
  <1> QED
    BY <1>1, <1>2, <1>3, <1>8, <1>9, <1>11, <1>12, MovedWithin

LEMMA DecidingWithin ==
  ASSUME RInv, KInv', RunsAsMeant, NEW t \in Threads, GetRefill(t)
  PROVE  RInv'
  <1>1. /\ UNCHANGED <<cfg, now, back, tokensCell, refillCell, failures, grants>>
        /\ pc[t] = "getRefill"
    BY DEF GetRefill
  <1>2. PICK gs, k, tv, rv, x :
           /\ gs = grants /\ k = failures /\ tv = tokensCell.value
           /\ rv = refillCell.value /\ x = refillCell.expiresAt
    OBVIOUS
  <1>3. RateOf(gs) /\ (Len(gs) > 0 => rv >= Grain)
    BY <1>2 DEF RInv
  <1>4. PICK v : v = Read(refillCell, Wall)
    OBVIOUS
  <1>5. PICK d : d = Decide(loc[t], v)
    OBVIOUS
  <1>6. loc' = [loc EXCEPT ![t] = d]
    BY <1>4, <1>5 DEF GetRefill
  <1>7. PICK p : p = "setTokens" /\ pc' = [pc EXCEPT ![t] = p]
    BY DEF GetRefill, Goto
  <1>8. /\ d.now = loc[t].now /\ d.back = loc[t].back /\ d.lastRefill >= Grain
        /\ d.allowed => d.tokens < Limit /\ ReadAt(d) < Rounded(d) + d.back + 2 * Err + Pace
        /\ \A i \in 1..Len(gs) : Paid(Ahead(gs, i, k), gs[i].at, d, now)
        /\ MayFail => Since(gs, k + 1, d.tokens, rv, x, now, back)
    BY <1>1, <1>2, <1>4, <1>5, DecisionWithin
  <1>9. loc[t].now >= Grain /\ Since(gs, k, tv, rv, x, ReadAt(loc[t]), loc[t].back)
    BY <1>1, <1>2, RFacts DEF Spending
  <1>10. p \notin {"idle", "lock", "getTokens", "getRefill", "setRefill"}
    BY <1>7
  <1>11. Spending(p, d, gs, k, tv, rv, x, now, back)
    <2>1. ReadAt(d) = ReadAt(loc[t])
      BY <1>8 DEF ReadAt
    <2> QED
      BY <1>8, <1>9, <1>10, <2>1 DEF Spending
  <1> QED
    BY <1>1, <1>2, <1>3, <1>6, <1>7, <1>10, <1>11, MovedWithin

LEMMA WritingWithin ==
  ASSUME RInv, KInv', RunsAsMeant, NEW t \in Threads, SetTokens(t)
  PROVE  RInv'
  <1>1. /\ UNCHANGED <<cfg, now, back, refillCell, loc, failures, grants>> /\ pc[t] = "setTokens"
        /\ IInv
    BY DEF SetTokens, RInv, KInv
  <1>2. PICK p, l : p = "setRefill" /\ l = loc[t] /\ pc' = [pc EXCEPT ![t] = p] /\ loc' = [loc EXCEPT ![t] = l]
    <2>1. loc \in [Threads -> Local]
      BY <1>1 DEF IInv, TypeOK
    <2>2. loc = [loc EXCEPT ![t] = loc[t]]
      BY <2>1
    <2>3. loc' = loc /\ pc' = [pc EXCEPT ![t] = "setRefill"]
      BY DEF SetTokens, Goto
    <2> QED
      BY <2>2, <2>3
  <1>3. PICK gs, k, tv, rv, x :
           /\ gs = grants /\ k = failures /\ tv = tokensCell'.value
           /\ rv = refillCell.value /\ x = refillCell.expiresAt
    OBVIOUS
  <1>4. RateOf(gs) /\ (Len(gs) > 0 => rv >= Grain)
    BY <1>3 DEF RInv
  <1>5. /\ l.now >= Grain /\ l.lastRefill >= Grain
        /\ MayFail => Since(gs, k + 1, l.tokens, rv, x, now, back)
        /\ \A i \in 1..Len(gs) : Paid(Ahead(gs, i, k), gs[i].at, l, now)
        /\ l.allowed => l.tokens < Limit /\ ReadAt(l) < Rounded(l) + l.back + 2 * Err + Pace
    <2>1. Spending("setTokens", l, gs, k, tokensCell.value, rv, x, now, back)
      BY <1>1, <1>2, <1>3, RFacts
    <2> QED
      BY <2>1 DEF Spending
  <1>6. p = "setRefill" /\ p \notin {"idle", "lock", "getTokens", "getRefill"}
    BY <1>2
  <1>7. Spending(p, l, gs, k, tv, rv, x, now, back)
    BY <1>5, <1>6 DEF Spending
  <1>8. Alone(t)
    BY <1>1, HolderAlone
  <1> QED
    BY <1>1, <1>2, <1>3, <1>4, <1>6, <1>7, <1>8, MovedWithin

(* What is in the store when a call has returned. *)
LEMMA ReturningWithin ==
  ASSUME RInv, KInv', NEW t \in Threads, pc[t] \notin {"idle", "lock"}, Return(t),
         UNCHANGED <<cfg, now, back>>,
         NEW gs, NEW k, NEW tv, NEW rv, NEW x, gs = grants', k = failures',
         tv = tokensCell'.value, rv = refillCell'.value, x = refillCell'.expiresAt,
         RateOf(gs), Len(gs) > 0 => rv >= Grain, Since(gs, k, tv, rv, x, now, back)
  PROVE  RInv'
  <1>1. PICK p, l : p = "idle" /\ l = IdleLocal /\ pc' = [pc EXCEPT ![t] = p] /\ loc' = [loc EXCEPT ![t] = l]
    BY DEF Return, Goto
  <1>2. Spending(p, l, gs, k, tv, rv, x, now, back)
    BY <1>1 DEF Spending
  <1>3. Alone(t)
    BY HolderAlone DEF RInv, KInv
  <1> QED
    BY <1>1, <1>2, <1>3, MovedWithin

(* The grants gs and one more, r, after k failures. *)
WithOneMore(gs2, gs, r, k) ==
    /\ gs2 \in Seq([at : Nat, failures : Nat]) /\ Len(gs) \in Nat /\ Len(gs2) = Len(gs) + 1
    /\ \A i \in 1..Len(gs) : gs2[i] = gs[i] /\ Ahead(gs2, i, k) = Ahead(gs, i, k) + 1
    /\ gs2[Len(gs) + 1] = r /\ Ahead(gs2, Len(gs) + 1, k) = 1 - Limit

LEMMA OneMore ==
  ASSUME cfg \in Configs, RunsAsMeant, NEW gs \in Seq([at : Nat, failures : Nat]),
         NEW k \in Nat, NEW q \in Nat, NEW r, r = [at |-> q, failures |-> k]
  PROVE  WithOneMore(Append(gs, r), gs, r, k)
  <1>0. PICK gs2 : gs2 = Append(gs, r)
    OBVIOUS
  <1>1. r \in [at : Nat, failures : Nat] /\ r.at = q /\ r.failures = k
    OBVIOUS
  <1>2. /\ gs2 \in Seq([at : Nat, failures : Nat]) /\ Len(gs) \in Nat /\ Len(gs2) = Len(gs) + 1
        /\ \A i \in 1..Len(gs) : gs2[i] = gs[i]
        /\ gs2[Len(gs) + 1] = r
    BY <1>0, <1>1, AppendProperties, LenProperties
  <1>3. PICK g \in Nat, lim \in Nat, n \in Nat : g = GivenBack /\ lim = Limit /\ n = Len(gs)
    BY <1>2, Paces
  <1>4. ASSUME NEW i \in 1..Len(gs) PROVE Ahead(gs2, i, k) = Ahead(gs, i, k) + 1
    <2>1. PICK c \in Int : c = (k - gs[i].failures) * g
      <3>1. PICK f \in Nat : f = gs[i].failures
        BY AheadFalls
      <3>2. k - f \in Int
        OBVIOUS
      <3>3. (k - f) * g \in Int
        BY <3>2, Multiples
      <3> QED
        BY <3>1, <3>3
    <2>2. Ahead(gs, i, k) = (n - i + 1) - lim - c
      BY <1>3, <2>1 DEF Ahead
    <2>3. Ahead(gs2, i, k) = (Len(gs2) - i + 1) - lim - (k - gs[i].failures) * g
      BY <1>2, <1>3 DEF Ahead
    <2>4. Ahead(gs2, i, k) = (n + 1 - i + 1) - lim - c
      BY <1>2, <1>3, <2>1, <2>3
    <2> QED
      BY <1>3, <2>2, <2>4
  <1>5. Ahead(gs2, n + 1, k) = 1 - lim
    <2>1. PICK j \in Nat : j = n + 1
      BY <1>3
    <2>2. gs2[j].failures = k /\ Len(gs2) = j
      BY <1>1, <1>2, <1>3, <2>1
    <2>3. Ahead(gs2, j, k) = (j - j + 1) - lim - (k - k) * g
      BY <1>3, <2>2 DEF Ahead
    <2>4. (k - k) * g = 0
      OBVIOUS
    <2> QED
      BY <1>3, <2>1, <2>3, <2>4
  <1> QED
    BY <1>0, <1>2, <1>3, <1>4, <1>5 DEF WithOneMore

LEMMA WholeWindows ==
  ASSUME NEW c \in Nat, NEW w \in Nat \ {0}, NEW t \in Int, c * w <= t
  PROVE  t \div w \in Int /\ c <= t \div w
  <1>1. c * w \in Nat
    BY ProductNat
  <1>2. t \in Nat
    BY <1>1
  <1>3. PICK y \in Nat, r \in 0..(w - 1), a \in Nat : y = t \div w /\ a = y * w /\ t = a + r
    BY <1>2, Division
  <1>4. ASSUME y + 1 <= c PROVE FALSE
    <2>1. (y + 1) * w = a + w
      BY <1>3, ProductNat
    <2>2. (y + 1) * w <= c * w
      BY <1>4, Multiples
    <2> QED
      BY <1>1, <1>3, <2>1, <2>2
  <1> QED
    BY <1>3, <1>4

LEMMA RateGrows ==
  ASSUME cfg \in Configs, RunsAsMeant, NEW gs \in Seq([at : Nat, failures : Nat]), RateOf(gs),
         NEW k \in Nat, NEW l, l.now \in Nat, l.back \in Nat, l.tokens \in Nat, l.allowed,
         NEW now2, \A i \in 1..Len(gs) : Paid(Ahead(gs, i, k), gs[i].at, l, now2),
         NEW r, r.at = ReadAt(l), r.failures = k, NEW gs2, WithOneMore(gs2, gs, r, k)
  PROVE  RateOf(gs2)
  <1>1. PICK q \in Nat : q = ReadAt(l)
    BY DEF ReadAt
  <1>2. /\ Len(gs) \in Nat /\ Len(gs2) = Len(gs) + 1
        /\ gs2[Len(gs) + 1] = r /\ Ahead(gs2, Len(gs) + 1, k) = 1 - Limit
    BY DEF WithOneMore
  <1>3. PICK n \in Nat, p \in Nat \ {0}, h \in Nat, lim \in Nat \ {0} :
           n = Len(gs) /\ p = Pace /\ h = Err /\ lim = Limit
    BY <1>2, Paces
  <1>4. /\ Len(gs2) = n + 1 /\ Ahead(gs2, n + 1, k) = 1 - lim
        /\ gs2[n + 1].at = q /\ gs2[n + 1].failures = k
    BY <1>1, <1>2, <1>3
  <1>0. \A i \in 1..Len(gs2), j \in 1..Len(gs2) :
           (i <= j /\ j # n + 1) => i \in 1..Len(gs) /\ j \in 1..Len(gs)
    <2>1. \A i \in 1..(n + 1), j \in 1..(n + 1) : (i <= j /\ j # n + 1) => i \in 1..n /\ j \in 1..n
      OBVIOUS
    <2> QED
      BY <1>3, <1>4, <2>1
  <1> SUFFICES ASSUME NEW i \in 1..Len(gs2), NEW j \in 1..Len(gs2), NEW extra,
                      extra = (j - i + 1) - Limit - (gs2[j].failures - gs2[i].failures) * GivenBack,
                      i <= j, extra > 0
               PROVE  (extra - 1) * p < gs2[j].at - gs2[i].at + h
                                        + ((gs2[j].at - gs2[i].at + MaxStall) \div Window) * Lent
    BY <1>3 DEF RateOf
  <1>5. CASE j # n + 1
    <2>1. i \in 1..Len(gs) /\ j \in 1..Len(gs)
      BY <1>0, <1>5
    <2>2. gs2[i] = gs[i] /\ gs2[j] = gs[j]
      BY <2>1 DEF WithOneMore
    <2> QED
      BY <1>3, <2>1, <2>2 DEF RateOf
  <1>6. CASE j = n + 1
    <2>1. gs2[j].failures = k /\ gs2[j].at = q /\ Len(gs2) = j
      BY <1>4, <1>6
    <2>2. extra = Ahead(gs2, i, k)
      BY <2>1 DEF Ahead
    <2>3. i # n + 1
      BY <1>3, <1>4, <2>2
    <2>4. i \in 1..Len(gs)
      BY <1>3, <1>4, <2>3
    <2>5. PICK e \in Int, at \in Nat : e = Ahead(gs, i, k) /\ at = gs[i].at
      BY <2>4, AheadFalls
    <2>6. extra = e + 1 /\ gs2[i].at = at
      BY <2>2, <2>4, <2>5 DEF WithOneMore
    <2>7. PICK c \in Nat, o \in Nat, w \in Nat \ {0}, s \in Nat :
             /\ o = Lent /\ w = Window /\ s = MaxStall
             /\ c * w <= (q + s) - at /\ Afforded(e, at - c * o, l)
      <3>1. Paid(e, at, l, now2)
        BY <2>4, <2>5
      <3>2. PICK o \in Nat, w \in Nat \ {0}, s \in Nat : o = Lent /\ w = Window /\ s = MaxStall
        BY Paces
      <3>3. PICK c \in Nat : Passed(c, at, ReadAt(l) + MaxStall) /\ Afforded(e, at - c * Lent, l)
        BY <3>1 DEF Paid
      <3> QED
        BY <1>1, <3>2, <3>3 DEF Passed
    <2>8. PICK f \in Int : f = e + Granted(l) + l.tokens - 1 /\ e <= f
      <3>1. Granted(l) = 1
        BY DEF Granted
      <3>2. PICK kk \in Nat : kk = l.tokens
        OBVIOUS
      <3>3. e + 1 + kk - 1 = e + kk /\ e + kk \in Int /\ e <= e + kk
        OBVIOUS
      <3> QED
        BY <3>1, <3>2, <3>3
    <2>9. e * p \in Int /\ f * p \in Int /\ e * p <= f * p
      BY <2>8, Multiples
    <2>10. f * p < q - (at - c * o) + h
      BY <1>1, <1>3, <2>7, <2>8 DEF Afforded
    <2>13. PICK y \in Int : y = (q - at + s) \div w /\ c * o <= y * o /\ y * o \in Int /\ c * o \in Int
      <3>1. PICK t \in Int, y \in Int : t = q - at + s /\ y = t \div w /\ c <= y
        <4>1. PICK t \in Int, a \in Nat : t = q - at + s /\ a = c * w
          BY ProductNat
        <4>2. (q + s) - at = t
          BY <4>1
        <4>3. c * w <= t
          BY <2>7, <4>2
        <4>4. t \div w \in Int /\ c <= t \div w
          BY <4>3, WholeWindows
        <4> QED
          BY <4>1, <4>4
      <3>2. c * o \in Int /\ y * o \in Int /\ c * o <= y * o
        <4>1. c <= y
          BY <3>1
        <4> QED
          BY <4>1, Multiples
      <3>3. y = (q - at + s) \div w
        BY <3>1
      <3> QED
        BY <3>2, <3>3, Zenon
    <2>11. extra - 1 = e
      <3>1. (e + 1) - 1 = e
        OBVIOUS
      <3> QED
        BY <2>6, <3>1
    <2>12. e * p < q - at + h + y * o
      <3>1. PICK a1 \in Int, a2 \in Int, a3 \in Int, a4 \in Int :
               a1 = e * p /\ a2 = f * p /\ a3 = c * o /\ a4 = y * o
        BY <2>9, <2>13
      <3>2. a1 <= a2 /\ a2 < q - (at - a3) + h /\ a3 <= a4
        BY <2>9, <2>10, <2>13, <3>1
      <3>3. a1 < q - at + h + a4
        BY <3>2
      <3> QED
        BY <3>1, <3>3
    <2>14. gs2[j].at - gs2[i].at = q - at /\ ((q - at + MaxStall) \div Window) * Lent = y * o
      BY <2>1, <2>6, <2>7, <2>13
    <2>15. (extra - 1) * p < (q - at) + h + y * o
      BY <2>11, <2>12
    <2> QED
      BY <2>14, <2>15
  <1> QED
    BY <1>5, <1>6

(* The pair that a call stores, with and without a grant of its own. *)
LEMMA SinceWritten ==
  ASSUME cfg \in Configs, RunsAsMeant, NEW gs \in Seq([at : Nat, failures : Nat]), NEW k \in Nat,
         NEW l, l.now \in Nat, l.back \in Nat, l.tokens \in 0..Limit, l.lastRefill \in Nat,
         NEW n \in Nat, NEW b \in Nat, ReadAt(l) <= n, l.back <= b,
         \A i \in 1..Len(gs) : Paid(Ahead(gs, i, k), gs[i].at, l, n),
         NEW x, x = n - b + Window
  PROVE  /\ Since(gs, k, l.tokens, Rounded(l), x, n, b)
         /\ Since(gs, k + 1, l.tokens, Rounded(l), x, n, b)
  <1> SUFFICES ASSUME NEW i \in 1..Len(gs)
               PROVE  /\ Covered(Ahead(gs, i, k), gs[i].at, l.tokens, Rounded(l), x, n, b)
                      /\ Covered(Ahead(gs, i, k + 1), gs[i].at, l.tokens, Rounded(l), x, n, b)
    BY DEF Since
  <1>1. PICK e \in Int, at \in Nat, g \in Nat, d \in 0..1 :
           /\ e = Ahead(gs, i, k) /\ at = gs[i].at /\ g = GivenBack /\ d = Granted(l)
           /\ Ahead(gs, i, k + 1) = e - g
    <2>1. Granted(l) \in 0..1
      BY DEF Granted
    <2>2. GivenBack \in Nat
      BY Paces
    <2>3. /\ gs[i].at \in Nat /\ Ahead(gs, i, k) \in Int
          /\ Ahead(gs, i, k + 1) = Ahead(gs, i, k) - GivenBack
      BY AheadFalls
    <2> QED
      BY <2>1, <2>2, <2>3
  <1>2. Paid(e, at, l, n)
    BY <1>1
  <1>3. e <= e + Granted(l) /\ e - g <= e + Granted(l) /\ e - g \in Int
    <2>1. e <= e + d /\ e - g <= e + d /\ e - g \in Int
      OBVIOUS
    <2> QED
      BY <1>1, <2>1
  <1>4. /\ Covered(e, at, l.tokens, Rounded(l), x, n, b)
        /\ Covered(e - g, at, l.tokens, Rounded(l), x, n, b)
    BY <1>2, <1>3, CoveredAfterWrite
  <1> QED
    BY <1>1, <1>4

LEMMA SinceGranted ==
  ASSUME cfg \in Configs, RunsAsMeant, NEW gs \in Seq([at : Nat, failures : Nat]), NEW k \in Nat,
         NEW l, l.now \in Nat, l.back \in Nat, l.tokens \in 0..Limit, l.lastRefill \in Nat,
         l.allowed, l.tokens < Limit, ReadAt(l) < Rounded(l) + l.back + 2 * Err + Pace,
         NEW n \in Nat, NEW b \in Nat, ReadAt(l) <= n, l.back <= b,
         \A i \in 1..Len(gs) : Paid(Ahead(gs, i, k), gs[i].at, l, n),
         NEW x, x = n - b + Window,
         NEW r, r.at = ReadAt(l), NEW gs2, WithOneMore(gs2, gs, r, k)
  PROVE  Since(gs2, k, l.tokens, Rounded(l), x, n, b)
  <1>1. PICK q \in Nat : q = ReadAt(l)
    BY DEF ReadAt
  <1>2. /\ Len(gs) \in Nat /\ Len(gs2) = Len(gs) + 1
        /\ gs2[Len(gs) + 1] = r /\ Ahead(gs2, Len(gs) + 1, k) = 1 - Limit
    BY DEF WithOneMore
  <1>3. Granted(l) = 1 /\ Limit \in Nat
    BY Paces DEF Granted
  <1> SUFFICES ASSUME NEW i \in 1..Len(gs2)
               PROVE  Covered(Ahead(gs2, i, k), gs2[i].at, l.tokens, Rounded(l), x, n, b)
    BY DEF Since
  <1>4. CASE i \in 1..Len(gs)
    <2>1. PICK e \in Int, at \in Nat : e = Ahead(gs, i, k) /\ at = gs[i].at
      BY <1>4, AheadFalls
    <2>2. Paid(e, at, l, n) /\ e + 1 \in Int /\ e + 1 <= e + Granted(l)
      <3>1. Paid(e, at, l, n)
        BY <1>4, <2>1
      <3>2. e + 1 \in Int /\ e + 1 <= e + 1
        OBVIOUS
      <3> QED
        BY <1>3, <3>1, <3>2
    <2>3. Covered(e + 1, at, l.tokens, Rounded(l), x, n, b)
      BY <2>2, CoveredAfterWrite
    <2>4. Ahead(gs2, i, k) = e + 1 /\ gs2[i].at = at
      BY <1>4, <2>1 DEF WithOneMore
    <2> QED
      BY <2>3, <2>4
  <1>5. CASE i = Len(gs) + 1
    <2>1. l.tokens \in Nat
      BY <1>3
    <2>2. Paid(0 - Limit, q, l, n)
      BY <1>1, <2>1, FirstPaid
    <2>3. 0 - Limit \in Int /\ 1 - Limit \in Int /\ 1 - Limit <= (0 - Limit) + Granted(l)
      BY <1>3
    <2>4. Covered(1 - Limit, q, l.tokens, Rounded(l), x, n, b)
      BY <2>2, <2>3, CoveredAfterWrite
    <2> QED
      BY <1>1, <1>2, <1>5, <2>4
  <1> QED
    BY <1>2, <1>4, <1>5

LEMMA CompletingWithin ==
  ASSUME RInv, KInv', RunsAsMeant, NEW t \in Threads, SetRefill(t)
  PROVE  RInv'
  <1>1. /\ UNCHANGED <<cfg, now, back, tokensCell, failures>> /\ pc[t] = "setRefill" /\ Return(t)
        /\ KInv /\ IInv /\ cfg \in Configs
    BY KFacts DEF SetRefill, RInv, KInv
  <1>2. PICK l \in Local, n \in Nat, b \in Nat, k \in Nat, gs \in Seq([at : Nat, failures : Nat]) :
           l = loc[t] /\ n = now /\ b = back /\ k = failures /\ gs = grants
    BY <1>1, KFacts, RFacts
  <1>3. /\ l.now \in Nat /\ l.back \in Nat /\ l.back <= b /\ ReadAt(l) <= n
        /\ tokensCell.value = l.tokens
    <2>1. InHand("setRefill", l, tokensCell, refillCell.value, last, n, b)
      BY <1>1, <1>2, KFacts
    <2> QED
      BY <1>1, <1>2, <2>1, KFacts DEF InHand
  <1>4. l.tokens \in 0..Limit /\ l.lastRefill \in Nat
    BY <1>1, <1>2 DEF IInv, LocalsOK
  <1>5. /\ l.lastRefill >= Grain
        /\ \A i \in 1..Len(gs) : Paid(Ahead(gs, i, k), gs[i].at, l, n)
        /\ l.allowed => l.tokens < Limit /\ ReadAt(l) < Rounded(l) + l.back + 2 * Err + Pace
    <2>1. Spending("setRefill", l, gs, k, tokensCell.value, refillCell.value, refillCell.expiresAt, n, b)
      BY <1>1, <1>2, RFacts
    <2> QED
      BY <2>1 DEF Spending
  <1>6. PICK tv, rv, x, gs2 : tv = tokensCell'.value /\ rv = refillCell'.value /\ x = refillCell'.expiresAt
                              /\ gs2 = grants'
    OBVIOUS
  <1>7. tv = l.tokens /\ rv = Rounded(l) /\ x = n - b + Window
    BY <1>1, <1>2, <1>3, <1>6 DEF SetRefill, Written, Rounded, Wall
  <1>8. rv >= Grain
    <2>1. PICK g \in Nat \ {0} : g = Grain
      BY <1>1, Chosen
    <2>2. PICK y : y = Float64(l.lastRefill, g)
      OBVIOUS
    <2>3. l.lastRefill >= g => y >= g
      BY <1>4, <2>2, StoredBelow
    <2> QED
      BY <1>5, <1>7, <2>1, <2>2, <2>3 DEF Rounded
  <1>9. RateOf(gs)
    BY <1>2 DEF RInv
  <1>10. RateOf(gs2) /\ Since(gs2, k, tv, rv, x, n, b)
    <2>1. CASE l.allowed
      <3>1. PICK r : r = [at |-> ReadAt(l), failures |-> k]
        OBVIOUS
      <3>2. r.at = ReadAt(l) /\ r.failures = k
        BY <3>1
      <3>3. WithOneMore(gs2, gs, r, k)
        <4>1. gs2 = Append(gs, r)
          BY <1>2, <1>6, <2>1, <3>1 DEF SetRefill
        <4>2. PICK q \in Nat : q = ReadAt(l)
          BY <1>3 DEF ReadAt
        <4>3. r = [at |-> q, failures |-> k]
          BY <3>1, <4>2
        <4>4. WithOneMore(Append(gs, r), gs, r, k)
          BY <1>1, <4>3, OneMore
        <4> QED
          BY <4>1, <4>4
      <3>4. RateOf(gs2)
        <4>1. l.tokens \in Nat
          BY <1>1, <1>4, Chosen
        <4> QED
          BY <1>1, <1>3, <1>5, <1>9, <2>1, <3>2, <3>3, <4>1, RateGrows
      <3>5. Since(gs2, k, l.tokens, Rounded(l), x, n, b)
        BY <1>1, <1>3, <1>4, <1>5, <1>7, <2>1, <3>2, <3>3, SinceGranted
      <3> QED
        BY <1>7, <3>4, <3>5
    <2>2. CASE ~l.allowed
      <3>1. gs2 = gs
        BY <1>2, <1>6, <2>2 DEF SetRefill
      <3>2. Since(gs, k, l.tokens, Rounded(l), x, n, b)
        BY <1>1, <1>3, <1>4, <1>5, <1>7, SinceWritten
      <3> QED
        BY <1>7, <1>9, <3>1, <3>2
    <2> QED
      BY <2>1, <2>2
  <1>11. gs2 = grants' /\ k = failures'
    BY <1>1, <1>2, <1>6
  <1>12. Since(gs2, k, tv, rv, x, now, back)
    BY <1>2, <1>10
  <1>13. pc[t] \notin {"idle", "lock"} /\ UNCHANGED <<cfg, now, back>>
    BY <1>1
  <1> QED
    BY <1>1, <1>6, <1>8, <1>10, <1>11, <1>12, <1>13, ReturningWithin

(* What a call that fails leaves in the store. *)
LEMMA LeftByFailure ==
  ASSUME RInv, RunsAsMeant, NEW t \in Threads, StoreError(t),
         NEW gs, NEW k \in Nat, NEW tv, NEW rv, NEW x, gs = grants, k = failures,
         tv = tokensCell'.value, rv = refillCell'.value, x = refillCell'.expiresAt
  PROVE  (Len(gs) > 0 => rv >= Grain) /\ Since(gs, k + 1, tv, rv, x, now, back)
  <1>1. KInv /\ IInv /\ cfg \in Configs /\ MayFail
    BY KFacts DEF StoreError, RInv, KInv
  <1>2. PICK l \in Local, n \in Nat, b \in Nat, w \in 0..Limit, v \in Nat, z \in Nat :
           /\ l = loc[t] /\ n = now /\ b = back
           /\ w = tokensCell.value /\ v = refillCell.value /\ z = refillCell.expiresAt
    BY <1>1, KFacts, RFacts
  <1>3. gs \in Seq([at : Nat, failures : Nat]) /\ b = 0 /\ (Len(gs) > 0 => v >= Grain)
    BY <1>1, <1>2, RFacts DEF RInv
  <1>4. pc[t] \in {"getTokens", "getRefill", "setTokens", "setRefill"}
    BY DEF StoreError
  <1>5. /\ l.now \in Nat /\ l.back \in Nat /\ l.back <= b /\ ReadAt(l) <= n /\ ReadAt(l) \in Nat
        /\ pc[t] = "setRefill" => w = l.tokens
    <2>1. InHand(pc[t], l, tokensCell, v, last, n, b)
      BY <1>1, <1>2, KFacts
    <2> QED
      BY <1>1, <1>2, <1>4, <2>1, KFacts DEF InHand, ReadAt
  <1>6. Spending(pc[t], l, gs, k, w, v, z, n, b)
    BY <1>2, RFacts
  <1>7. CASE pc[t] \in {"getTokens", "getRefill"} \/ (pc[t] = "setTokens" /\ tokensCell' = tokensCell)
    <2>1. tv = w /\ rv = v /\ x = z
      BY <1>2, <1>7 DEF StoreError
    <2>2. Since(gs, k, w, v, z, ReadAt(l), l.back)
      BY <1>4, <1>6, <1>7 DEF Spending
    <2>3. Since(gs, k + 1, w, v, z, n, b)
      <3>1. k + 1 \in {k, k + 1} /\ w \in 0..w /\ b = l.back
        BY <1>1, <1>3, <1>5, Chosen
      <3> QED
        BY <1>1, <1>3, <1>5, <2>2, <3>1, SinceLater
    <2> QED
      BY <1>2, <1>3, <2>1, <2>3
  <1>8. CASE \/ pc[t] = "setTokens" /\ tokensCell' = Written(l.tokens, Wall, Window)
             \/ pc[t] = "setRefill" /\ refillCell' = refillCell
    <2>1. tv = l.tokens /\ rv = v /\ x = z
      BY <1>2, <1>5, <1>8 DEF StoreError, Written
    <2>2. Since(gs, k + 1, l.tokens, v, z, n, b)
      BY <1>1, <1>6, <1>8 DEF Spending
    <2> QED
      BY <1>2, <1>3, <2>1, <2>2
  <1>9. CASE pc[t] = "setRefill" /\ refillCell' = Written(Float64(l.lastRefill, Grain), Wall, Window)
    <2>1. tv = l.tokens /\ rv = Rounded(l) /\ x = n - b + Window
      BY <1>2, <1>5, <1>9 DEF StoreError, Written, Rounded, Wall
    <2>2. /\ l.lastRefill >= Grain
          /\ \A i \in 1..Len(gs) : Paid(Ahead(gs, i, k), gs[i].at, l, n)
      BY <1>6, <1>9 DEF Spending
    <2>3. l.tokens \in 0..Limit /\ l.lastRefill \in Nat
      BY <1>1, <1>2, <1>9 DEF IInv, LocalsOK
    <2>4. Since(gs, k + 1, l.tokens, Rounded(l), x, n, b)
      BY <1>1, <1>3, <1>5, <2>1, <2>2, <2>3, SinceWritten
    <2>5. rv >= Grain
      <3>1. PICK g \in Nat \ {0} : g = Grain
        BY <1>1, Chosen
      <3>2. PICK y : y = Float64(l.lastRefill, g)
        OBVIOUS
      <3>3. l.lastRefill >= g => y >= g
        BY <2>3, <3>2, StoredBelow
      <3> QED
        BY <2>1, <2>2, <3>1, <3>2, <3>3 DEF Rounded
    <2> QED
      BY <1>2, <2>1, <2>4, <2>5
  <1> QED
    BY <1>2, <1>4, <1>7, <1>8, <1>9 DEF StoreError

LEMMA FailingWithin ==
  ASSUME RInv, KInv', RunsAsMeant, NEW t \in Threads, StoreError(t)
  PROVE  RInv'
  <1>1. UNCHANGED <<cfg, now, back, grants>> /\ Return(t) /\ pc[t] \notin {"idle", "lock"}
    BY DEF StoreError
  <1>2. PICK k \in Nat : k = failures
    BY RFacts
  <1>3. PICK gs, k2, tv, rv, x :
           /\ gs = grants /\ k2 = k + 1 /\ tv = tokensCell'.value
           /\ rv = refillCell'.value /\ x = refillCell'.expiresAt
    OBVIOUS
  <1>4. (Len(gs) > 0 => rv >= Grain) /\ Since(gs, k2, tv, rv, x, now, back)
    BY <1>2, <1>3, LeftByFailure
  <1>5. RateOf(gs)
    BY <1>3 DEF RInv
  <1>6. gs = grants' /\ k2 = failures'
    BY <1>1, <1>2, <1>3 DEF StoreError
  <1> QED
    BY <1>1, <1>3, <1>4, <1>5, <1>6, ReturningWithin

(* Time passes, or the clock is set back: the calls in hand are as late as *)
(* before, and what is in the store is older.                              *)
LEMMA PassingWithin ==
  ASSUME RInv, KInv', RunsAsMeant, Tick \/ StepBack
  PROVE  RInv'
  <1>1. UNCHANGED <<cfg, tokensCell, refillCell, pc, loc, failures, grants>>
    BY DEF Tick, StepBack
  <1>2. KInv /\ cfg \in Configs
    BY KFacts DEF RInv
  <1>3. PICK gs \in Seq([at : Nat, failures : Nat]), k \in Nat, tv \in 0..Limit, rv \in Nat, x \in Nat,
             n \in Nat, b \in Nat, n2 \in Nat, b2 \in Nat :
           /\ gs = grants /\ k = failures /\ tv = tokensCell.value
           /\ rv = refillCell.value /\ x = refillCell.expiresAt
           /\ n = now /\ b = back /\ n2 = now' /\ b2 = back'
    <2>1. now' \in Nat /\ back' \in Nat
      BY DEF KInv, IInv, TypeOK
    <2> QED
      BY <1>2, <2>1, KFacts, RFacts
  <1>4. n <= n2 /\ b <= b2 /\ (MayFail => b2 = b)
    <2>1. CASE Tick
      BY <1>3, <2>1 DEF Tick
    <2>2. CASE StepBack
      <3>1. PICK m \in Nat : m = MaxBack
        BY <1>2, ClockFacts DEF KInv
      <3>2. b2 \in (b + 1)..m /\ n2 = n
        BY <1>3, <2>2, <3>1 DEF StepBack
      <3>3. b <= b2 /\ m # 0
        BY <3>2
      <3> QED
        BY <3>1, <3>2, <3>3 DEF RunsAsMeant, FailuresOrStepsBack
    <2> QED
      BY <2>1, <2>2
  <1>5. ASSUME NEW k2 \in {k, k + 1}, NEW tv2 \in 0..Limit, Since(gs, k2, tv2, rv, x, n, b)
        PROVE  Since(gs, k2, tv2, rv, x, n2, b2)
    <2>1. k2 \in Nat /\ k2 \in {k2, k2 + 1} /\ tv2 \in 0..tv2
      BY <1>2, Chosen
    <2> QED
      BY <1>2, <1>4, <1>5, <2>1, SinceLater
  <1>6. ASSUME NEW u \in Threads PROVE Spending(pc[u], loc[u], gs, k, tv, rv, x, n2, b2)
    <2>1. Spending(pc[u], loc[u], gs, k, tv, rv, x, n, b)
      BY <1>3, RFacts
    <2>2. ASSUME pc[u] \in {"setTokens", "setRefill"}, MayFail
          PROVE  Since(gs, k + 1, loc[u].tokens, rv, x, n2, b2)
      <3>1. loc[u].tokens \in 0..Limit
        BY <1>2, <2>2 DEF KInv, IInv, LocalsOK
      <3>2. Since(gs, k + 1, loc[u].tokens, rv, x, n, b)
        BY <2>1, <2>2 DEF Spending
      <3> QED
        BY <1>5, <3>1, <3>2
    <2>3. ASSUME pc[u] \in {"setTokens", "setRefill"}, NEW i \in 1..Len(gs)
          PROVE  Paid(Ahead(gs, i, k), gs[i].at, loc[u], n2)
      <3>1. Paid(Ahead(gs, i, k), gs[i].at, loc[u], n) /\ gs[i].at \in Nat
        <4>1. Paid(Ahead(gs, i, k), gs[i].at, loc[u], n)
          BY <2>1, <2>3 DEF Spending
        <4>2. gs[i] \in [at : Nat, failures : Nat]
          BY ElementOfSeq
        <4> QED
          BY <4>1, <4>2
      <3> QED
        BY <1>2, <1>4, <3>1, PaidLater
    <2> QED
      BY <2>1, <2>2, <2>3 DEF Spending
  <1>7. (\A u \in Threads : pc[u] \in {"idle", "lock"}) => Since(gs, k, tv, rv, x, n2, b2)
    BY <1>3, <1>5 DEF RInv
  <1>8. (\A u \in Threads : Spending(pc[u], loc[u], grants, failures, tokensCell.value,
                                     refillCell.value, refillCell.expiresAt, now, back))'
    <2>1. ASSUME NEW u \in Threads
          PROVE  Spending(pc[u], loc[u], grants, failures, tokensCell.value,
                          refillCell.value, refillCell.expiresAt, now, back)'
      <3>1. PICK p, l : p = pc'[u] /\ l = loc'[u]
        OBVIOUS
      <3>2. Spending(p, l, gs, k, tv, rv, x, n2, b2)
        BY <1>1, <1>6, <3>1
      <3>3. /\ gs = grants' /\ k = failures' /\ tv = tokensCell'.value
            /\ rv = refillCell'.value /\ x = refillCell'.expiresAt /\ n2 = now' /\ b2 = back'
        BY <1>1, <1>3
      <3> QED
        BY <1>1, <3>1, <3>2, <3>3, SpendingNow
    <2> QED
      BY <2>1
  <1>9. ((\A u \in Threads : pc[u] \in {"idle", "lock"}) =>
           Since(grants, failures, tokensCell.value, refillCell.value, refillCell.expiresAt, now, back))'
    <2>1. ASSUME \A u \in Threads : pc'[u] \in {"idle", "lock"}
          PROVE  Since(gs, k, tv, rv, x, n2, b2)
      BY <1>1, <1>7, <2>1
    <2>2. gs = grants' /\ k = failures' /\ tv = tokensCell'.value /\ rv = refillCell'.value /\ x = refillCell'.expiresAt
          /\ n2 = now' /\ b2 = back'
      BY <1>1, <1>3
    <2>3. ASSUME Since(gs, k, tv, rv, x, n2, b2)
          PROVE  Since(grants, failures, tokensCell.value, refillCell.value, refillCell.expiresAt, now, back)'
      BY <1>1, <2>2, <2>3, SinceNow
    <2> QED
      BY <2>1, <2>3
  <1>10. RateOf(grants)' /\ (Len(grants) > 0 => refillCell.value >= Grain)'
    BY <1>1, SameRates DEF RInv, RateOf
  <1> QED
    BY <1>8, <1>9, <1>10 DEF RInv

LEMMA StutteringWithin ==
  ASSUME RInv, KInv', UNCHANGED vars
  PROVE  RInv'
  <1>1. UNCHANGED <<cfg, now, back, tokensCell, refillCell, pc, loc, failures, grants>>
    BY DEF vars
  <1>2. (\A u \in Threads : Spending(pc[u], loc[u], grants, failures, tokensCell.value,
                                     refillCell.value, refillCell.expiresAt, now, back))'
    <2>1. ASSUME NEW u \in Threads
          PROVE  Spending(pc[u], loc[u], grants, failures, tokensCell.value,
                          refillCell.value, refillCell.expiresAt, now, back)'
      <3>1. PICK p, l, gs, k, tv, rv, x, n, b :
               /\ p = pc[u] /\ l = loc[u] /\ gs = grants /\ k = failures
               /\ tv = tokensCell.value /\ rv = refillCell.value /\ x = refillCell.expiresAt
               /\ n = now /\ b = back
        OBVIOUS
      <3>2. Spending(p, l, gs, k, tv, rv, x, n, b)
        BY <3>1, RFacts
      <3>3. /\ p = pc'[u] /\ l = loc'[u] /\ gs = grants' /\ k = failures'
            /\ tv = tokensCell'.value /\ rv = refillCell'.value /\ x = refillCell'.expiresAt
            /\ n = now' /\ b = back'
        BY <1>1, <3>1
      <3> QED
        BY <1>1, <3>2, <3>3, SpendingNow
    <2> QED
      BY <2>1
  <1>3. ((\A u \in Threads : pc[u] \in {"idle", "lock"}) =>
           Since(grants, failures, tokensCell.value, refillCell.value, refillCell.expiresAt, now, back))'
    BY <1>1, SameRates DEF RInv, Since, Covered, Passed, Within, Due, Ahead, Smaller
  <1>4. RateOf(grants)' /\ (Len(grants) > 0 => refillCell.value >= Grain)'
    BY <1>1, SameRates DEF RInv, RateOf
  <1> QED
    BY <1>2, <1>3, <1>4 DEF RInv

LEMMA RInit ==
  ASSUME Init
  PROVE  RInv
  <1>1. KInv
    BY KInit
  <1>2. PICK gs : gs = grants /\ gs = << >> /\ Len(gs) = 0 /\ 1..Len(gs) = {}
    BY DEF Init
  <1>3. RateOf(gs) /\ ~(Len(gs) > 0)
    BY <1>2 DEF RateOf
  <1>4. Since(gs, failures, tokensCell.value, refillCell.value, refillCell.expiresAt, now, back)
    BY <1>2 DEF Since
  <1>5. \A t \in Threads : pc[t] = "idle"
    BY DEF Init
  <1>6. \A t \in Threads :
           Spending(pc[t], loc[t], gs, failures, tokensCell.value,
                    refillCell.value, refillCell.expiresAt, now, back)
    BY <1>5 DEF Spending
  <1> QED
    BY <1>1, <1>2, <1>3, <1>4, <1>6 DEF RInv

LEMMA RStepKeeps ==
  ASSUME RInv, RunsAsMeant, [Next]_vars
  PROVE  RInv'
  <1>1. KInv'
    BY KStepKeeps DEF RInv
  <1>2. ASSUME NEW t \in Threads, Allow(t) \/ Step(t) PROVE RInv'
    BY <1>1, <1>2, EnteringWithin, ReadingWithin, DecidingWithin, WritingWithin, CompletingWithin,
       FailingWithin DEF Step
  <1>3. CASE Tick \/ StepBack
    BY <1>1, <1>3, PassingWithin
  <1>4. CASE UNCHANGED vars
    BY <1>1, <1>4, StutteringWithin
  <1> QED
    BY <1>2, <1>3, <1>4 DEF Next

(* A step does not change whether token times are longer than the rounding. *)
LEMMA SameConfig ==
  ASSUME [Next]_vars
  PROVE  UNCHANGED cfg
  BY DEF Next, Allow, Step, Lock, GetTokens, GetRefill, SetTokens, SetRefill, StoreError, Tick, StepBack, vars

(* For any goroutines, limit, window, precision and stalls, from a clock   *)
(* that was set back or with a store that fails within calls: the calls    *)
(* granted over any time are at most Limit and one per TimePerToken, but   *)
(* for what the rounding shifts, what calls that fail give back, and what  *)
(* a bucket that expired is short of (token_bucket.go:57, 75-111;          *)
(* core.go:37).                                                            *)
THEOREM RateIsBounded == Spec /\ []FailuresOrStepsBack => []RateBound
  <1> DEFINE I == Err < TimePerToken => RInv
  <1>1. I => RateBound
    <2>1. ASSUME RInv PROVE RateBound
      BY <2>1 DEF RInv, RateOf, RateBound, Pace
    <2>2. ASSUME ~(Err < TimePerToken) PROVE RateBound
      BY <2>2 DEF RateBound
    <2> QED
      BY <2>1, <2>2
  <1>2. Init => I
    BY RInit
  <1>3. ASSUME I, FailuresOrStepsBack, [Next]_vars PROVE I'
    <2> SUFFICES ASSUME (Err < TimePerToken)' PROVE RInv'
      OBVIOUS
    <2>1. Err < TimePerToken
      BY <1>3, SameConfig, SameRates
    <2> QED
      BY <1>3, <2>1, RStepKeeps DEF RunsAsMeant
  <1> QED
    BY <1>1, <1>2, <1>3, PTL DEF Spec
=============================================================================
