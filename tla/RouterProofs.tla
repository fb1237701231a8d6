---------------------------- MODULE RouterProofs ----------------------------
(***************************************************************************)
(* Proofs about how limiters are made and how the one for resources is     *)
(* used: Construction, for any names, files, configurations and number of  *)
(* stores, and ResourceRouter, for any goroutines, names, keys and         *)
(* policies.  The two share no state: what Construction hands out is what  *)
(* ResourceRouter starts from.                                             *)
(***************************************************************************)
EXTENDS Construction, ResourceRouter, SequenceTheorems, TLAPS

-----------------------------------------------------------------------------
(* Construction.                                                           *)
(*                                                                         *)
(* A step only appends a store and a limiter, or closes one of each.  What *)
(* the steps of New and NewResourceLimiter append is the subject of one    *)
(* lemma (Appended); that CloseLimiter takes a store from nobody else      *)
(* needs the invariant that no two limiters were built with the same       *)
(* store.                                                                  *)

Named == UNION { [S -> Limiters] : S \in SUBSET Resources }

Delivered == [asked : Files \union Literals, byResource : BOOLEAN, open : BOOLEAN,
              store : Nat, default : Limiters,
              named : Named]

IsSeq == limiters \in Seq(Delivered)

(* A configuration in hand is what was asked for. *)
HeldAsAsked == \A h \in held : h.cfg = Wanted(h.asked)

(* A limiter has a store of its own, one that New or NewResourceLimiter    *)
(* did not give up on.                                                     *)
OwnStore ==
    /\ \A i, j \in 1..Len(limiters) : limiters[i].store = limiters[j].store => i = j
    /\ \A i \in 1..Len(limiters) :
         /\ stores[limiters[i].store].kind # "unreachable"
         /\ stores[limiters[i].store].known

BuildInv == BuildTypeOK /\ IsSeq /\ HeldAsAsked /\ OwnStore /\ InForce /\ NothingLeftOpen

-----------------------------------------------------------------------------
(* What a file yields is a document, and the one that was meant. *)
LEMMA Loaded ==
  ASSUME NEW f \in Files, NEW c \in LoadResourceConfig(f)
  PROVE  IsDocument(c) /\ c = Wanted(f)
  <1>1. c = Document(f)
    BY DEF LoadResourceConfig, toCore
  <1>2. "envelope" \in DOMAIN f /\ IsDocument(f.top) /\ IsDocument(f.gorl)
    BY InputsAssumption
  <1> QED
    BY <1>1, <1>2 DEF Document, Wanted

LEMMA Literal ==
  ASSUME NEW c \in Literals
  PROVE  IsDocument(c) /\ c = Wanted(c)
  <1>1. IsDocument(c)
    BY InputsAssumption
  <1>2. "envelope" \notin DOMAIN c
    BY <1>1 DEF IsDocument
  <1> QED
    BY <1>1, <1>2 DEF Wanted

(* Normalizing touches the collector only. *)
LEMMA NormalizedDocument ==
  ASSUME NEW c, IsDocument(c), NEW n, n = Normalized(c)
  PROVE  /\ n.strategy = c.strategy /\ n.redisURL = c.redisURL /\ n.failOpen = c.failOpen
         /\ n.default = c.default /\ n.resources = c.resources
         /\ n.metrics = IF c.metrics = "nil" THEN "noop" ELSE c.metrics
         /\ n.metrics \in {"noop", "own"}
  BY DEF Normalized, normalizeMetrics, IsDocument

(* The records of the model as operators of their fields. *)
StoreView(id, e) == [id |-> id, evalScript |-> e]
StoreOf(o, b, open, known) == [kind |-> o, open |-> open, by |-> b, known |-> known]
LimiterOf(a, b, id, l, f) ==
    [asked |-> a, byResource |-> b, open |-> TRUE, store |-> id, default |-> l, named |-> f]

(* The shared store keeps what decides the path of a limiter. *)
LEMMA WrappedStore ==
  ASSUME NEW id, NEW e
  PROVE  wrapSharedStore(StoreView(id, e)) = StoreView(id, e)
  BY DEF wrapSharedStore, StoreView

(* A limiter that keeps to a policy of a configuration. *)
Kept(k, p, c, id, e) ==
    /\ k \in Limiters
    /\ k.cfg.limit = p.limit /\ p.limit > 0
    /\ k.cfg.window = p.window /\ p.window > 0
    /\ k.cfg.strategy = c.strategy /\ k.cfg.failOpen = c.failOpen /\ k.cfg.metrics = c.metrics
    /\ k.store = id
    /\ k.scripted <=> (c.strategy # "fixed_window" /\ e)

(* What a constructor makes of a valid policy. *)
LEMMA Constructed ==
  ASSUME NEW c, NEW p \in PolicyDocs, NEW id \in Nat, NEW e \in BOOLEAN,
         c.strategy \in strategyRegistry, c.failOpen \in BOOLEAN, c.metrics \in {"noop", "own"},
         validateLimitWindow(p),
         NEW l, l = constructor(resourceConfigToCore(c, p), StoreView(id, e))
  PROVE  Kept(l, p, c, id, e)
  <1>1. p.limit \in Nat \ {0} /\ p.window \in Nat \ {0}
    BY DEF PolicyDocs, validateLimitWindow
  <1>2. resourceConfigToCore(c, p) \in Policies
    BY <1>1 DEF resourceConfigToCore, Policies
  <1> DEFINE x == c.strategy # "fixed_window" /\ e
  <1>3. l = [cfg |-> resourceConfigToCore(c, p), store |-> id, scripted |-> x]
    BY DEF constructor, resourceConfigToCore, StoreView
  <1>4. x \in BOOLEAN
    OBVIOUS
  <1>5. l \in Limiters
    BY <1>2, <1>3, <1>4 DEF Limiters
  <1>6. l.scripted <=> x
    <2> HIDE DEF x
    <2>1. l.scripted = x
      BY <1>3
    <2> QED
      BY <1>4, <2>1
  <1>7. l.cfg = resourceConfigToCore(c, p) /\ l.store = id
    BY <1>3
  <1>8. /\ l.cfg.limit = p.limit /\ l.cfg.window = p.window
        /\ l.cfg.strategy = c.strategy /\ l.cfg.failOpen = c.failOpen /\ l.cfg.metrics = c.metrics
    BY <1>7 DEF resourceConfigToCore
  <1> QED
    BY <1>1, <1>5, <1>6, <1>7, <1>8 DEF Kept

(* A store, and a limiter on it that keeps to what was asked. *)
Fits(m, s, id) ==
    /\ m \in Delivered
    /\ m.store = id /\ m.open
    /\ s.open /\ s.kind # "unreachable" /\ s.known
    /\ \A n \in Resources \union {NoName} : Enforced(m, s, n)

(* What a step of New or NewResourceLimiter appends. *)
Appended ==
    \E s \in Stores :
        /\ stores' = Append(stores, s)
        /\ \/ /\ UNCHANGED limiters
              /\ s.open <=> (s.kind = "unreachable" \/ (s.by = "New" /\ ~s.known))
           \/ \E m : /\ limiters' = Append(limiters, m)
                     /\ Fits(m, s, Len(stores) + 1)

LEMMA StoreRecord ==
  ASSUME NEW o \in {"inmem", "redis", "unreachable"}, NEW b \in {"New", "NewResourceLimiter"},
         NEW open \in BOOLEAN, NEW known \in BOOLEAN,
         NEW s, s = StoreOf(o, b, open, known)
  PROVE  /\ s \in Stores
         /\ s.kind = o /\ s.by = b
         /\ s.open <=> open
         /\ s.known <=> known
  <1>1. s.open = open /\ s.known = known
    BY Zenon DEF StoreOf
  <1> QED
    BY <1>1 DEF Stores, StoreOf

(* What a limiter is delivered with. *)
LEMMA DeliveredRecord ==
  ASSUME NEW a \in Files \union Literals, NEW b \in BOOLEAN, NEW id \in Nat,
         NEW l \in Limiters, NEW f \in Named,
         NEW m, m = LimiterOf(a, b, id, l, f)
  PROVE  /\ m \in Delivered
         /\ m.asked = a /\ m.store = id /\ m.open /\ m.default = l /\ m.named = f
         /\ m.byResource <=> b
  <1>1. m.byResource = b /\ m.open = TRUE
    BY Zenon DEF LimiterOf
  <1> QED
    BY <1>1 DEF Delivered, LimiterOf

(* How the limiter that serves a name is held to its policy. *)
LEMMA EnforcedBy ==
  ASSUME NEW m, NEW s, NEW n, NEW d, d = Wanted(m.asked), NEW k, k = Serving(m, n),
         NEW p, p = IF m.byResource /\ n \in DOMAIN d.resources THEN d.resources[n] ELSE d.default,
         k.cfg.limit = p.limit, p.limit > 0,
         k.cfg.window = p.window, p.window > 0,
         k.cfg.strategy = d.strategy, d.strategy \in strategyRegistry,
         k.cfg.failOpen = d.failOpen,
         k.cfg.metrics = IF d.metrics = "nil" THEN "noop" ELSE d.metrics,
         k.store = m.store,
         k.scripted <=> (s.kind = "redis" /\ d.strategy # "fixed_window")
  PROVE  Enforced(m, s, n)
  BY DEF Enforced

(* A limiter fits when the policies it keeps are those asked for: that of  *)
(* the default and, by resource, one for each name that has one.           *)
LEMMA FitsKept ==
  ASSUME NEW a \in Files \union Literals, NEW d, IsDocument(d), d = Wanted(a),
         NEW c, c = Normalized(d), c.strategy \in strategyRegistry,
         NEW o \in {"inmem", "redis"}, NEW id \in Nat,
         NEW s \in Stores, s.kind = o, s.open, s.known,
         NEW e \in BOOLEAN, e <=> o = "redis",
         NEW l, Kept(l, c.default, c, id, e),
         NEW f \in Named, NEW b \in BOOLEAN,
         DOMAIN f = IF b THEN DOMAIN c.resources ELSE {},
         \A n \in DOMAIN f : Kept(f[n], c.resources[n], c, id, e),
         NEW m, m = LimiterOf(a, b, id, l, f)
  PROVE  Fits(m, s, id)
  <1>1. /\ c.strategy = d.strategy /\ c.failOpen = d.failOpen /\ c.default = d.default
        /\ c.resources = d.resources
        /\ c.metrics = IF d.metrics = "nil" THEN "noop" ELSE d.metrics
    BY NormalizedDocument
  <1>2. l \in Limiters
    BY DEF Kept
  <1>3. /\ m \in Delivered
        /\ m.asked = a /\ m.store = id /\ m.open /\ m.default = l /\ m.named = f
        /\ m.byResource <=> b
    BY <1>2, DeliveredRecord
  <1>4. ASSUME NEW n \in Resources \union {NoName}, NEW k, k = Serving(m, n),
               NEW p, p = IF m.byResource /\ n \in DOMAIN d.resources THEN d.resources[n] ELSE d.default
        PROVE  Enforced(m, s, n)
    <2>1. Kept(k, p, c, id, e)
      <3>1. CASE n \in DOMAIN f
        <4>1. k = f[n] /\ p = c.resources[n]
          BY <1>1, <1>3, <1>4, <3>1 DEF Serving
        <4> QED
          BY <3>1, <4>1
      <3>2. CASE n \notin DOMAIN f
        <4>1. k = l /\ p = c.default
          BY <1>1, <1>3, <1>4, <3>2 DEF Serving
        <4> QED
          BY <4>1
      <3> QED
        BY <3>1, <3>2
    <2>2. d = Wanted(m.asked) /\ s.kind = o /\ m.store = id
      BY <1>3
    <2>3. /\ k.cfg.limit = p.limit /\ p.limit > 0
          /\ k.cfg.window = p.window /\ p.window > 0
          /\ k.cfg.strategy = d.strategy /\ k.cfg.failOpen = d.failOpen
          /\ k.cfg.metrics = c.metrics
          /\ k.store = id
          /\ k.scripted <=> (e /\ d.strategy # "fixed_window")
      BY <1>1, <2>1 DEF Kept
    <2>4. k.cfg.metrics = IF d.metrics = "nil" THEN "noop" ELSE d.metrics
      BY <1>1, <2>3
    <2>5. k.store = m.store
      BY <2>2, <2>3
    <2>6. k.scripted <=> (s.kind = "redis" /\ d.strategy # "fixed_window")
      BY <2>2, <2>3
    <2>7. d.strategy \in strategyRegistry
      BY <1>1
    <2> QED
      BY <1>4, <2>2, <2>3, <2>4, <2>5, <2>6, <2>7, EnforcedBy
  <1> QED
    BY <1>3, <1>4 DEF Fits

(* The store that a step opens, as a view and as a record. *)
LEMMA NextStoreView ==
  ASSUME NEW o
  PROVE  \E e \in BOOLEAN : (e <=> o = "redis") /\ NextStore(o) = StoreView(Len(stores) + 1, e)
  <1> DEFINE x == o = "redis"
  <1>1. x \in BOOLEAN /\ (x <=> o = "redis")
    OBVIOUS
  <1>2. NextStore(o) = StoreView(Len(stores) + 1, x)
    BY Zenon DEF NextStore, StoreView
  <1> HIDE DEF x
  <1> QED
    BY <1>1, <1>2

LEMMA OpenedStore ==
  ASSUME NEW o, NEW b, NEW h
  PROVE  \E x, k \in BOOLEAN :
            x /\ (k <=> h.cfg.strategy \in strategyRegistry) /\ Opened(o, b, h) = StoreOf(o, b, x, k)
  <1> DEFINE y == h.cfg.strategy \in strategyRegistry
  <1> DEFINE z == TRUE
  <1>1. y \in BOOLEAN /\ (y <=> h.cfg.strategy \in strategyRegistry)
    OBVIOUS
  <1>2. z \in BOOLEAN /\ z
    OBVIOUS
  <1>3. Opened(o, b, h) = StoreOf(o, b, z, y)
    BY Zenon DEF Opened, StoreOf
  <1> HIDE DEF y, z
  <1> QED
    BY <1>1, <1>2, <1>3

LEMMA KeptOrClosedStore ==
  ASSUME NEW o, NEW b, NEW h, NEW c, c.strategy = h.cfg.strategy
  PROVE  \E x, k \in BOOLEAN :
            /\ x <=> (k \/ o = "unreachable")
            /\ k <=> h.cfg.strategy \in strategyRegistry
            /\ [Opened(o, b, h) EXCEPT !.open =
                   (c.strategy \in strategyRegistry) \/ o = "unreachable"] = StoreOf(o, b, x, k)
  <1> DEFINE y == h.cfg.strategy \in strategyRegistry
             w == (c.strategy \in strategyRegistry) \/ o = "unreachable"
  <1>1. y \in BOOLEAN /\ (y <=> h.cfg.strategy \in strategyRegistry)
    OBVIOUS
  <1>2. w \in BOOLEAN /\ (w <=> (y \/ o = "unreachable"))
    OBVIOUS
  <1>3. PICK x, k \in BOOLEAN : Opened(o, b, h) = StoreOf(o, b, x, k) /\ (k <=> y)
    BY OpenedStore
  <1> HIDE DEF w, y
  <1>4. k = y
    BY <1>1, <1>3
  <1>5. [StoreOf(o, b, x, k) EXCEPT !.open = w] = StoreOf(o, b, w, k)
    BY DEF StoreOf
  <1>6. [Opened(o, b, h) EXCEPT !.open = w] = StoreOf(o, b, w, y)
    BY <1>3, <1>4, <1>5
  <1> USE DEF w
  <1> QED
    BY <1>1, <1>2, <1>6

(* The configuration in hand, and what is built from it. *)
LEMMA InHand ==
  ASSUME BuildTypeOK, HeldAsAsked, NEW h \in held, NEW c, c = Normalized(h.cfg)
  PROVE  /\ IsDocument(h.cfg) /\ h.asked \in Files \union Literals /\ h.cfg = Wanted(h.asked)
         /\ c.strategy = h.cfg.strategy
  <1>1. IsDocument(h.cfg) /\ h.asked \in Files \union Literals
    BY DEF BuildTypeOK
  <1>2. c.strategy = h.cfg.strategy
    BY <1>1, NormalizedDocument
  <1> QED
    BY <1>1, <1>2 DEF HeldAsAsked

LEMMA DefaultKept ==
  ASSUME NEW d, IsDocument(d), NEW c, c = Normalized(d), c.strategy \in strategyRegistry,
         validateLimitWindow(c.default), NEW id \in Nat, NEW e \in BOOLEAN,
         NEW l, l = constructor(resourceConfigToCore(c, c.default), StoreView(id, e))
  PROVE  Kept(l, c.default, c, id, e)
  <1>1. c.failOpen = d.failOpen /\ c.default = d.default /\ c.metrics \in {"noop", "own"}
    BY NormalizedDocument
  <1>2. d.failOpen \in BOOLEAN /\ d.default \in PolicyDocs
    BY DEF IsDocument
  <1>3. c.failOpen \in BOOLEAN /\ c.default \in PolicyDocs
    BY <1>1, <1>2
  <1> QED
    BY <1>1, <1>3, Constructed

LEMMA NamesKept ==
  ASSUME NEW d, IsDocument(d), NEW c, c = Normalized(d), c.strategy \in strategyRegistry,
         Validate(c), NEW id \in Nat, NEW e \in BOOLEAN,
         NEW f, f = [n \in DOMAIN c.resources |->
                       constructor(resourceConfigToCore(c, c.resources[n]), StoreView(id, e))]
  PROVE  /\ f \in Named /\ DOMAIN f = DOMAIN c.resources
         /\ \A n \in DOMAIN f : Kept(f[n], c.resources[n], c, id, e)
  <1>1. c.failOpen = d.failOpen /\ c.resources = d.resources /\ c.metrics \in {"noop", "own"}
    BY NormalizedDocument
  <1>2. /\ d.failOpen \in BOOLEAN
        /\ DOMAIN d.resources \subseteq Resources \union {NoName}
        /\ \A n \in DOMAIN d.resources : d.resources[n] \in PolicyDocs
    BY DEF IsDocument
  <1>3. c.failOpen \in BOOLEAN /\ DOMAIN c.resources \subseteq Resources \union {NoName}
    BY <1>1, <1>2
  <1>4. \A n \in DOMAIN c.resources : n # NoName /\ validateLimitWindow(c.resources[n])
    BY DEF Validate
  <1>5. ASSUME NEW n \in DOMAIN c.resources PROVE Kept(f[n], c.resources[n], c, id, e)
    <2>1. f[n] = constructor(resourceConfigToCore(c, c.resources[n]), StoreView(id, e))
      OBVIOUS
    <2>2. c.resources[n] \in PolicyDocs
      BY <1>1, <1>2
    <2> QED
      BY <1>1, <1>3, <1>4, <2>1, <2>2, Constructed
  <1>6. DOMAIN f = DOMAIN c.resources
    OBVIOUS
  <1>7. DOMAIN c.resources \in SUBSET Resources
    BY <1>3, <1>4
  <1>8. \A n \in DOMAIN c.resources : f[n] \in Limiters
    BY <1>5 DEF Kept
  <1>9. f \in [DOMAIN c.resources -> Limiters]
    BY <1>8
  <1> QED
    BY <1>5, <1>6, <1>7, <1>9 DEF Named

LEMMA NoNames ==
  <<>> \in Named /\ DOMAIN <<>> = {}
  <1>1. <<>> \in [{} -> Limiters] /\ {} \in SUBSET Resources /\ DOMAIN <<>> = {}
    OBVIOUS
  <1> QED
    BY <1>1 DEF Named

(* What New opens and delivers. *)
LEMMA NewAppends ==
  ASSUME BuildInv, NEW h \in held, NEW o \in {"inmem", "redis", "unreachable"}, New(h, o)
  PROVE  Appended
  <1> DEFINE c  == Normalized(h.cfg)
             id == Len(stores) + 1
             l  == constructor(resourceConfigToCore(c, c.default), NextStore(o))
  <1>1. /\ IsDocument(h.cfg) /\ h.asked \in Files \union Literals /\ h.cfg = Wanted(h.asked)
        /\ c.strategy = h.cfg.strategy
    BY InHand DEF BuildInv
  <1>2. PICK x, k \in BOOLEAN :
           x /\ (k <=> h.cfg.strategy \in strategyRegistry) /\ Opened(o, "New", h) = StoreOf(o, "New", x, k)
    BY OpenedStore
  <1>3. PICK s : s = StoreOf(o, "New", x, k)
    OBVIOUS
  <1>4. /\ s \in Stores /\ s.kind = o /\ s.by = "New" /\ s.open
        /\ s.known <=> h.cfg.strategy \in strategyRegistry
    <2>1. s \in Stores /\ s.kind = o /\ s.by = "New" /\ (s.open <=> x) /\ (s.known <=> k)
      BY <1>3, StoreRecord
    <2> QED
      BY <1>2, <2>1
  <1>5. stores' = Append(stores, s)
    BY <1>2, <1>3 DEF New
  <1>6. id \in Nat
    BY LenProperties DEF BuildInv, BuildTypeOK
  <1>7. CASE o # "unreachable" /\ c.strategy \in strategyRegistry
    <2>1. PICK e \in BOOLEAN : (e <=> o = "redis") /\ NextStore(o) = StoreView(id, e)
      BY NextStoreView
    <2>2. Kept(l, c.default, c, id, e)
      BY <1>1, <1>6, <1>7, <2>1, DefaultKept DEF New
    <2>3. PICK b \in BOOLEAN : b = FALSE
      OBVIOUS
    <2>4. PICK f : f = <<>>
      OBVIOUS
    <2>5. PICK m : m = LimiterOf(h.asked, b, id, l, f)
      OBVIOUS
    <2>6. limiters' = Append(limiters, m)
      BY <1>7, <2>3, <2>4, <2>5 DEF New, Deliver, LimiterOf
    <2>7. Fits(m, s, id)
      <3>1. o \in {"inmem", "redis"} /\ s.known
        BY <1>1, <1>4, <1>7
      <3>2. DOMAIN f = IF b THEN DOMAIN c.resources ELSE {}
        BY <2>3, <2>4, NoNames
      <3>3. f \in Named /\ \A n \in DOMAIN f : Kept(f[n], c.resources[n], c, id, e)
        BY <2>4, NoNames
      <3>4. c = Normalized(h.cfg) /\ s.kind = o /\ s.open /\ s \in Stores
        BY <1>4
      <3> HIDE DEF c, id, l
      <3> QED
        BY <1>1, <1>6, <1>7, <2>1, <2>2, <2>5, <3>1, <3>2, <3>3, <3>4, FitsKept
    <2> QED
      BY <1>4, <1>5, <2>6, <2>7 DEF Appended
  <1>8. CASE ~(o # "unreachable" /\ c.strategy \in strategyRegistry)
    <2>1. UNCHANGED limiters
      BY <1>8 DEF New
    <2>2. s.open <=> (s.kind = "unreachable" \/ (s.by = "New" /\ ~s.known))
      BY <1>1, <1>4, <1>8
    <2> QED
      BY <1>4, <1>5, <2>1, <2>2 DEF Appended
  <1> QED
    BY <1>7, <1>8

(* What NewResourceLimiter opens and delivers. *)
LEMMA NewResourceLimiterAppends ==
  ASSUME BuildInv, NEW h \in held, NEW o \in {"inmem", "redis", "unreachable"}, NewResourceLimiter(h, o)
  PROVE  Appended
  <1> DEFINE c  == Normalized(h.cfg)
             id == Len(stores) + 1
  <1>1. /\ IsDocument(h.cfg) /\ h.asked \in Files \union Literals /\ h.cfg = Wanted(h.asked)
        /\ c.strategy = h.cfg.strategy
    BY InHand DEF BuildInv
  <1>2. PICK x, k \in BOOLEAN :
           /\ x <=> (k \/ o = "unreachable")
           /\ k <=> h.cfg.strategy \in strategyRegistry
           /\ [Opened(o, "NewResourceLimiter", h) EXCEPT !.open =
                  (c.strategy \in strategyRegistry) \/ o = "unreachable"]
              = StoreOf(o, "NewResourceLimiter", x, k)
    <2>1. c.strategy = h.cfg.strategy
      BY <1>1
    <2> HIDE DEF c
    <2> QED
      BY <2>1, KeptOrClosedStore
  <1>3. PICK s : s = StoreOf(o, "NewResourceLimiter", x, k)
    OBVIOUS
  <1>4. /\ s \in Stores /\ s.kind = o /\ s.by = "NewResourceLimiter"
        /\ s.open <=> (s.known \/ o = "unreachable")
        /\ s.known <=> h.cfg.strategy \in strategyRegistry
    <2>1. /\ s \in Stores /\ s.kind = o /\ s.by = "NewResourceLimiter"
          /\ (s.open <=> x) /\ (s.known <=> k)
      BY <1>3, StoreRecord
    <2> QED
      BY <1>2, <2>1
  <1>5. stores' = Append(stores, s)
    BY <1>2, <1>3 DEF NewResourceLimiter
  <1>6. id \in Nat
    BY LenProperties DEF BuildInv, BuildTypeOK
  <1>7. CASE o # "unreachable" /\ c.strategy \in strategyRegistry
    <2>1. PICK e \in BOOLEAN : (e <=> o = "redis") /\ NextStore(o) = StoreView(id, e)
      BY NextStoreView
    <2>2. wrapSharedStore(NextStore(o)) = StoreView(id, e)
      BY <2>1, WrappedStore
    <2>3. PICK l : l = constructor(resourceConfigToCore(c, c.default), StoreView(id, e))
      OBVIOUS
    <2>4. PICK f : f = [n \in DOMAIN c.resources |->
                          constructor(resourceConfigToCore(c, c.resources[n]), StoreView(id, e))]
      OBVIOUS
    <2>5. PICK b \in BOOLEAN : b = TRUE
      OBVIOUS
    <2>6. PICK m : m = LimiterOf(h.asked, b, id, l, f)
      OBVIOUS
    <2>7. limiters' = Append(limiters, m)
      <3>1. newResourceRouter(c, NextStore(o)) = [default |-> l, named |-> f]
        BY <2>2, <2>3, <2>4 DEF newResourceRouter
      <3> QED
        BY <1>7, <2>5, <2>6, <3>1 DEF NewResourceLimiter, Deliver, LimiterOf
    <2>8. Validate(c) /\ validateLimitWindow(c.default)
      BY DEF NewResourceLimiter, Validate
    <2>9. Fits(m, s, id)
      <3>1. o \in {"inmem", "redis"} /\ s.known
        BY <1>1, <1>4, <1>7
      <3>2. c = Normalized(h.cfg) /\ s.kind = o /\ s.open /\ s \in Stores
        BY <1>4, <3>1
      <3> HIDE DEF c, id
      <3>3. /\ f \in Named /\ DOMAIN f = DOMAIN c.resources
            /\ \A n \in DOMAIN f : Kept(f[n], c.resources[n], c, id, e)
        BY <1>1, <1>6, <1>7, <2>1, <2>4, <2>8, <3>2, NamesKept
      <3>4. Kept(l, c.default, c, id, e)
        BY <1>1, <1>6, <1>7, <2>1, <2>3, <2>8, <3>2, DefaultKept
      <3>5. DOMAIN f = IF b THEN DOMAIN c.resources ELSE {}
        BY <2>5, <3>3
      <3> QED
        BY <1>1, <1>6, <1>7, <2>1, <2>6, <3>1, <3>2, <3>3, <3>4, <3>5, FitsKept
    <2> QED
      BY <1>4, <1>5, <2>7, <2>9 DEF Appended
  <1>8. CASE ~(o # "unreachable" /\ c.strategy \in strategyRegistry)
    <2>1. UNCHANGED limiters
      BY <1>8 DEF NewResourceLimiter
    <2>2. s.open <=> (s.kind = "unreachable" \/ (s.by = "New" /\ ~s.known))
      BY <1>1, <1>4, <1>8
    <2> QED
      BY <1>4, <1>5, <2>1, <2>2 DEF Appended
  <1> QED
    BY <1>7, <1>8

-----------------------------------------------------------------------------
(* A limiter as TypeOK has it. *)
LEMMA DeliveredTyped ==
  ASSUME NEW m \in Delivered
  PROVE  /\ m.asked \in Files \union Literals
         /\ {m.byResource, m.open} \subseteq BOOLEAN
         /\ m.default \in Limiters
         /\ DOMAIN m.named \subseteq Resources
         /\ \A n \in DOMAIN m.named : m.named[n] \in Limiters
  <1>1. m.named \in Named
    BY DEF Delivered
  <1>2. PICK S \in SUBSET Resources : m.named \in [S -> Limiters]
    BY <1>1 DEF Named
  <1> QED
    BY <1>2 DEF Delivered

(* A step that only appends a store disturbs nobody. *)
LEMMA StoreAppended ==
  ASSUME BuildInv, NEW s \in Stores, stores' = Append(stores, s), UNCHANGED <<held, limiters>>,
         s.open <=> (s.kind = "unreachable" \/ (s.by = "New" /\ ~s.known))
  PROVE  BuildInv'
  <1> USE DEF BuildInv
  <1>1. stores \in Seq(Stores) /\ Len(stores) \in Nat
    BY LenProperties DEF BuildTypeOK
  <1>2. /\ stores' \in Seq(Stores) /\ Len(stores') = Len(stores) + 1
        /\ \A i \in 1..Len(stores) : stores'[i] = stores[i]
        /\ stores'[Len(stores) + 1] = s
    BY <1>1, AppendProperties
  <1>3. \A i \in 1..Len(limiters) : limiters[i].store \in 1..Len(stores)
    BY DEF BuildTypeOK
  <1>4. \A i \in 1..Len(limiters) :
           limiters[i].store \in 1..Len(stores') /\ stores'[limiters[i].store] = stores[limiters[i].store]
    BY <1>1, <1>2, <1>3
  <1>5. BuildTypeOK'
    BY <1>2, <1>4 DEF BuildTypeOK
  <1>6. IsSeq' /\ HeldAsAsked'
    BY DEF IsSeq, HeldAsAsked
  <1>7. OwnStore'
    BY <1>4 DEF OwnStore
  <1>8. InForce'
    BY <1>4 DEF InForce
  <1>9. NothingLeftOpen'
    <2>1. \A i \in 1..Len(stores') : i \in 1..Len(stores) \/ i = Len(stores) + 1
      BY <1>1, <1>2
    <2>2. \A j \in 1..Len(limiters) : limiters[j].store # Len(stores) + 1
      BY <1>1, <1>3
    <2> QED
      BY <1>2, <2>1, <2>2 DEF NothingLeftOpen
  <1> QED
    BY <1>5, <1>6, <1>7, <1>8, <1>9

(* A store and the limiter that has it. *)
LEMMA LimiterAppended ==
  ASSUME BuildInv, NEW s \in Stores, stores' = Append(stores, s),
         NEW m, limiters' = Append(limiters, m), Fits(m, s, Len(stores) + 1), UNCHANGED held
  PROVE  BuildInv'
  <1> USE DEF BuildInv
  <1>1. stores \in Seq(Stores) /\ Len(stores) \in Nat
    BY LenProperties DEF BuildTypeOK
  <1>2. /\ stores' \in Seq(Stores) /\ Len(stores') = Len(stores) + 1
        /\ \A i \in 1..Len(stores) : stores'[i] = stores[i]
        /\ stores'[Len(stores) + 1] = s
    BY <1>1, AppendProperties
  <1>3. limiters \in Seq(Delivered) /\ Len(limiters) \in Nat /\ m \in Delivered
    BY LenProperties DEF IsSeq, Fits
  <1>4. /\ limiters' \in Seq(Delivered) /\ Len(limiters') = Len(limiters) + 1
        /\ \A i \in 1..Len(limiters) : limiters'[i] = limiters[i]
        /\ limiters'[Len(limiters) + 1] = m
    BY <1>3, AppendProperties
  <1>5. m.store = Len(stores) + 1 /\ m.open
    BY DEF Fits
  <1>6. \A i \in 1..Len(limiters') : i \in 1..Len(limiters) \/ i = Len(limiters) + 1
    BY <1>3, <1>4
  <1>7. /\ \A i \in 1..Len(limiters) :
              limiters[i].store \in 1..Len(stores) /\ limiters[i].store # m.store
        /\ Len(limiters) + 1 \in 1..Len(limiters')
        /\ \A i \in 1..Len(limiters) : i \in 1..Len(limiters')
    BY <1>1, <1>3, <1>4, <1>5 DEF BuildTypeOK
  <1>8. /\ \A i \in 1..Len(limiters) : limiters[i].store \in 1..Len(stores')
        /\ m.store \in 1..Len(stores')
        /\ \A i \in 1..Len(limiters) : stores'[limiters[i].store] = stores[limiters[i].store]
        /\ stores'[m.store] = s
    BY <1>1, <1>2, <1>5, <1>7
  <1>9. BuildTypeOK'
    <2>1. \A h \in held' : IsDocument(h.cfg) /\ h.asked \in Files \union Literals
      BY DEF BuildTypeOK
    <2>2. ASSUME NEW i \in 1..Len(limiters')
          PROVE  limiters'[i] \in Delivered /\ limiters'[i].store \in 1..Len(stores')
      BY <1>3, <1>4, <1>6, <1>8
    <2>3. ASSUME NEW i \in 1..Len(limiters'), NEW k, k = limiters'[i]
          PROVE  /\ k.asked \in Files \union Literals
                 /\ {k.byResource, k.open} \subseteq BOOLEAN
                 /\ k.store \in 1..Len(stores')
                 /\ k.default \in Limiters
                 /\ DOMAIN k.named \subseteq Resources
                 /\ \A n \in DOMAIN k.named : k.named[n] \in Limiters
      BY <2>2, <2>3, DeliveredTyped
    <2> QED
      BY <1>2, <2>1, <2>3 DEF BuildTypeOK
  <1>10. IsSeq' /\ HeldAsAsked'
    BY <1>4 DEF IsSeq, HeldAsAsked
  <1>11. OwnStore'
    <2>1. s.kind # "unreachable" /\ s.known
      BY DEF Fits
    <2>2. ASSUME NEW i \in 1..Len(limiters')
          PROVE  stores'[limiters'[i].store].kind # "unreachable" /\ stores'[limiters'[i].store].known
      BY <1>4, <1>6, <1>8, <2>1 DEF OwnStore
    <2>3. ASSUME NEW i \in 1..Len(limiters'), NEW j \in 1..Len(limiters'),
                 limiters'[i].store = limiters'[j].store
          PROVE  i = j
      BY <1>4, <1>6, <1>7, <2>3 DEF OwnStore
    <2> QED
      BY <2>2, <2>3 DEF OwnStore
  <1>12. InForce'
    <2>1. ASSUME NEW i \in 1..Len(limiters'), NEW n \in Resources \union {NoName}
          PROVE  Enforced(limiters'[i], stores'[limiters'[i].store], n)
      <3>1. CASE i \in 1..Len(limiters)
        <4>1. Enforced(limiters[i], stores[limiters[i].store], n)
          BY <3>1 DEF InForce
        <4>2. limiters'[i] = limiters[i] /\ stores'[limiters'[i].store] = stores[limiters[i].store]
          BY <1>4, <1>8, <3>1
        <4> QED
          BY <4>1, <4>2
      <3>2. CASE i = Len(limiters) + 1
        <4>1. Enforced(m, s, n)
          BY DEF Fits
        <4>2. limiters'[i] = m /\ stores'[limiters'[i].store] = s
          BY <1>4, <1>8, <3>2
        <4> QED
          BY <4>1, <4>2
      <3> QED
        BY <1>6, <3>1, <3>2
    <2> QED
      BY <2>1 DEF InForce
  <1>13. NothingLeftOpen'
    <2> DEFINE Left(r) == r.kind = "unreachable" \/ (r.by = "New" /\ ~r.known)
    <2>1. \A i \in 1..Len(stores') : i \in 1..Len(stores) \/ i = Len(stores) + 1
      BY <1>1, <1>2
    <2>2. ASSUME NEW i \in 1..Len(stores)
          PROVE  stores'[i].open <=> \/ \E j \in 1..Len(limiters') :
                                           limiters'[j].open /\ limiters'[j].store = i
                                     \/ Left(stores'[i])
      <3>1. i # m.store
        BY <1>1, <1>5
      <3>2. (\E j \in 1..Len(limiters') : limiters'[j].open /\ limiters'[j].store = i)
              <=> \E j \in 1..Len(limiters) : limiters[j].open /\ limiters[j].store = i
        BY <1>4, <1>6, <1>7, <3>1
      <3> QED
        BY <1>2, <3>2 DEF NothingLeftOpen
    <2>3. /\ stores'[m.store].open
          /\ \E j \in 1..Len(limiters') : limiters'[j].open /\ limiters'[j].store = m.store
      BY <1>4, <1>5, <1>7, <1>8 DEF Fits
    <2> QED
      BY <1>2, <1>5, <2>1, <2>2, <2>3 DEF NothingLeftOpen
  <1> QED
    BY <1>9, <1>10, <1>11, <1>12, <1>13

(* The state of a store or a limiter has no part in what is enforced. *)
LEMMA EnforcedStill ==
  ASSUME NEW m, NEW s, NEW n, Enforced(m, s, n), NEW k, NEW r,
         k.asked = m.asked, k.byResource = m.byResource, k.store = m.store,
         k.default = m.default, k.named = m.named, r.kind = s.kind
  PROVE  Enforced(k, r, n)
  BY DEF Enforced, Serving

(* Close takes its store from no other limiter, since none has it. *)
LEMMA CloseKeeps ==
  ASSUME BuildInv, NEW i \in 1..Len(limiters), CloseLimiter(i)
  PROVE  BuildInv'
  <1> USE DEF BuildInv
  <1> DEFINE id == limiters[i].store
  <1>1. stores \in Seq(Stores) /\ Len(stores) \in Nat /\ id \in 1..Len(stores)
    BY LenProperties DEF BuildTypeOK
  <1>2. limiters \in Seq(Delivered) /\ Len(limiters) \in Nat
    BY LenProperties DEF IsSeq
  <1>3. stores' = [stores EXCEPT ![id].open = FALSE]
    BY DEF CloseLimiter
  <1>4. limiters' = [limiters EXCEPT ![i].open = FALSE]
    BY DEF CloseLimiter
  <1>5. /\ stores' \in Seq(Stores) /\ Len(stores') = Len(stores)
        /\ \A k \in 1..Len(stores) :
             /\ k # id => stores'[k] = stores[k]
             /\ stores'[k].kind = stores[k].kind /\ stores'[k].by = stores[k].by
             /\ stores'[k].known = stores[k].known
        /\ ~stores'[id].open
    <2>1. stores[id] \in Stores
      BY <1>1, ElementOfSeq
    <2>2. PICK r : r = [stores[id] EXCEPT !.open = FALSE]
      OBVIOUS
    <2>3. /\ r \in Stores /\ ~r.open /\ r.kind = stores[id].kind /\ r.by = stores[id].by
          /\ r.known = stores[id].known
      BY <2>1, <2>2 DEF Stores
    <2>4. stores' = [stores EXCEPT ![id] = r]
      BY <1>3, <2>2
    <2>5. /\ stores' \in Seq(Stores) /\ Len(stores') = Len(stores)
          /\ \A k \in 1..Len(stores) : stores'[k] = IF k = id THEN r ELSE stores[k]
      BY <1>1, <2>3, <2>4, ExceptSeq
    <2> QED
      BY <1>1, <2>3, <2>5
  <1>6. /\ limiters' \in Seq(Delivered) /\ Len(limiters') = Len(limiters)
        /\ \A j \in 1..Len(limiters) :
             /\ j # i => limiters'[j] = limiters[j]
             /\ limiters'[j].asked = limiters[j].asked
             /\ limiters'[j].byResource = limiters[j].byResource
             /\ limiters'[j].store = limiters[j].store
             /\ limiters'[j].default = limiters[j].default
             /\ limiters'[j].named = limiters[j].named
        /\ ~limiters'[i].open
    <2>1. limiters[i] \in Delivered
      BY <1>2, ElementOfSeq
    <2>2. PICK r : r = [limiters[i] EXCEPT !.open = FALSE]
      OBVIOUS
    <2>3. /\ r \in Delivered /\ ~r.open
          /\ r.asked = limiters[i].asked /\ r.byResource = limiters[i].byResource
          /\ r.store = limiters[i].store /\ r.default = limiters[i].default
          /\ r.named = limiters[i].named
      BY <2>1, <2>2 DEF Delivered
    <2>4. limiters' = [limiters EXCEPT ![i] = r]
      BY <1>4, <2>2
    <2>5. /\ limiters' \in Seq(Delivered) /\ Len(limiters') = Len(limiters)
          /\ \A k \in 1..Len(limiters) : limiters'[k] = IF k = i THEN r ELSE limiters[k]
      BY <1>2, <2>3, <2>4, ExceptSeq
    <2> QED
      BY <1>2, <2>3, <2>5
  <1>7. \A j \in 1..Len(limiters) : limiters[j].store \in 1..Len(stores)
    BY DEF BuildTypeOK
  <1>8. BuildTypeOK'
    <2>1. \A h \in held' : IsDocument(h.cfg) /\ h.asked \in Files \union Literals
      BY DEF BuildTypeOK, CloseLimiter
    <2>2. ASSUME NEW j \in 1..Len(limiters')
          PROVE  limiters'[j] \in Delivered /\ limiters'[j].store \in 1..Len(stores')
      BY <1>5, <1>6, <1>7, ElementOfSeq
    <2>3. ASSUME NEW j \in 1..Len(limiters'), NEW k, k = limiters'[j]
          PROVE  /\ k.asked \in Files \union Literals
                 /\ {k.byResource, k.open} \subseteq BOOLEAN
                 /\ k.store \in 1..Len(stores')
                 /\ k.default \in Limiters
                 /\ DOMAIN k.named \subseteq Resources
                 /\ \A n \in DOMAIN k.named : k.named[n] \in Limiters
      BY <2>2, <2>3, DeliveredTyped
    <2> QED
      BY <1>5, <2>1, <2>3 DEF BuildTypeOK
  <1>9. IsSeq' /\ HeldAsAsked'
    BY <1>6 DEF IsSeq, HeldAsAsked, CloseLimiter
  <1>10. OwnStore'
    BY <1>5, <1>6, <1>7 DEF OwnStore
  <1>11. InForce'
    <2>1. ASSUME NEW j \in 1..Len(limiters'), NEW n \in Resources \union {NoName}
          PROVE  Enforced(limiters'[j], stores'[limiters'[j].store], n)
      <3>1. j \in 1..Len(limiters)
        BY <1>6
      <3>2. Enforced(limiters[j], stores[limiters[j].store], n)
        BY <3>1 DEF InForce
      <3>3. stores'[limiters'[j].store].kind = stores[limiters[j].store].kind
        BY <1>5, <1>6, <1>7, <3>1
      <3> QED
        BY <1>6, <3>1, <3>2, <3>3, EnforcedStill
    <2> QED
      BY <2>1 DEF InForce
  <1>12. NothingLeftOpen'
    <2> DEFINE Left(r) == r.kind = "unreachable" \/ (r.by = "New" /\ ~r.known)
    <2>1. ASSUME NEW k \in 1..Len(stores'), k # id
          PROVE  stores'[k].open <=> \/ \E j \in 1..Len(limiters') :
                                           limiters'[j].open /\ limiters'[j].store = k
                                     \/ Left(stores'[k])
      <3>1. (\E j \in 1..Len(limiters') : limiters'[j].open /\ limiters'[j].store = k)
              <=> \E j \in 1..Len(limiters) : limiters[j].open /\ limiters[j].store = k
        BY <1>6, <2>1
      <3> QED
        BY <1>5, <2>1, <3>1 DEF NothingLeftOpen
    <2>2. \A j \in 1..Len(limiters') : ~(limiters'[j].open /\ limiters'[j].store = id)
      BY <1>6 DEF OwnStore
    <2>3. ~Left(stores'[id])
      BY <1>1, <1>5 DEF OwnStore
    <2>4. \A k \in 1..Len(stores') :
             stores'[k].open <=> \/ \E j \in 1..Len(limiters') :
                                       limiters'[j].open /\ limiters'[j].store = k
                                 \/ Left(stores'[k])
      BY <1>1, <1>5, <2>1, <2>2, <2>3
    <2> QED
      BY <2>4 DEF NothingLeftOpen
  <1> QED
    BY <1>8, <1>9, <1>10, <1>11, <1>12

LEMMA HeldReplaced ==
  ASSUME BuildInv, UNCHANGED <<stores, limiters>>,
         \A h \in held' : /\ IsDocument(h.cfg) /\ h.asked \in Files \union Literals
                          /\ h.cfg = Wanted(h.asked)
  PROVE  BuildInv'
  BY DEF BuildInv, BuildTypeOK, IsSeq, HeldAsAsked, OwnStore, InForce, NothingLeftOpen

LEMMA InitHolds ==
  ASSUME BuildInit
  PROVE  BuildInv
  <1>1. Len(limiters) = 0 /\ Len(stores) = 0 /\ 1..0 = {}
    BY DEF BuildInit
  <1>2. stores \in Seq(Stores) /\ limiters \in Seq(Delivered)
    BY DEF BuildInit
  <1>3. BuildTypeOK
    BY <1>1, <1>2 DEF BuildTypeOK, BuildInit
  <1>4. OwnStore /\ InForce /\ NothingLeftOpen
    BY <1>1 DEF OwnStore, InForce, NothingLeftOpen
  <1> QED
    BY <1>2, <1>3, <1>4 DEF BuildInv, IsSeq, HeldAsAsked, BuildInit

LEMMA StepKeeps ==
  ASSUME BuildInv, [BuildNext]_buildVars
  PROVE  BuildInv'
  <1>1. ASSUME NEW f \in Files, Load(f)
        PROVE  BuildInv'
    <2>1. ASSUME NEW h \in held'
          PROVE  IsDocument(h.cfg) /\ h.asked \in Files \union Literals /\ h.cfg = Wanted(h.asked)
      <3>1. PICK c \in LoadResourceConfig(f) : h = [cfg |-> c, asked |-> f]
        BY <1>1 DEF Load
      <3> QED
        BY <3>1, Loaded
    <2> QED
      BY <1>1, <2>1, HeldReplaced DEF Load
  <1>2. ASSUME NEW c \in Literals, Make(c)
        PROVE  BuildInv'
    <2>1. ASSUME NEW h \in held'
          PROVE  IsDocument(h.cfg) /\ h.asked \in Files \union Literals /\ h.cfg = Wanted(h.asked)
      <3>1. h = [cfg |-> c, asked |-> c]
        BY <1>2 DEF Make
      <3> QED
        BY <3>1, Literal
    <2> QED
      BY <1>2, <2>1, HeldReplaced DEF Make
  <1>3. ASSUME Appended, UNCHANGED held
        PROVE  BuildInv'
    BY <1>3, StoreAppended, LimiterAppended DEF Appended
  <1>4. ASSUME NEW h \in held, NEW o \in {"inmem", "redis", "unreachable"}, New(h, o)
        PROVE  BuildInv'
    BY <1>3, <1>4, NewAppends DEF New
  <1>5. ASSUME NEW h \in held, NEW o \in {"inmem", "redis", "unreachable"}, NewResourceLimiter(h, o)
        PROVE  BuildInv'
    BY <1>3, <1>5, NewResourceLimiterAppends DEF NewResourceLimiter
  <1>6. ASSUME NEW i \in 1..Len(limiters), CloseLimiter(i)
        PROVE  BuildInv'
    BY <1>6, CloseKeeps
  <1>7. ASSUME UNCHANGED buildVars
        PROVE  BuildInv'
    BY <1>7, HeldReplaced DEF buildVars, BuildInv, BuildTypeOK, HeldAsAsked
  <1> QED
    BY <1>1, <1>2, <1>4, <1>5, <1>6, <1>7 DEF BuildNext

(* Each limiter has a store of its own and holds the policies asked for,   *)
(* in every reachable state (limiter.go:25-75, resource_limiter.go:45-94). *)
THEOREM BuildInvariance == BuildSpec => []BuildInv
  <1> QED
    BY InitHolds, StepKeeps, PTL DEF BuildSpec

(* Every store and limiter is well formed; a limiter has a positive limit  *)
(* and window, which its constructor divides by (limiter.go:25-75).        *)
THEOREM BuildTypeCorrect == BuildSpec => []BuildTypeOK
  <1>1. BuildInv => BuildTypeOK
    BY DEF BuildInv
  <1> QED
    BY <1>1, BuildInvariance, PTL

(* Every limiter enforces exactly what was asked for, whatever the way of  *)
(* the configuration and however many limiters were built and closed       *)
(* (config/resource.go:60-104, limiter.go:25-75, resource_limiter.go).     *)
THEOREM AskedIsEnforced == BuildSpec => []InForce
  <1>1. BuildInv => InForce
    BY DEF BuildInv
  <1> QED
    BY <1>1, BuildInvariance, PTL

(* No store is left open that nobody can close, but for the two ways of    *)
(* New and newStore (limiter.go:30-38; redis.go:28-34).                    *)
THEOREM StoresAreClosed == BuildSpec => []NothingLeftOpen
  <1>1. BuildInv => NothingLeftOpen
    BY DEF BuildInv
  <1> QED
    BY <1>1, BuildInvariance, PTL

-----------------------------------------------------------------------------
(* The resource router.                                                    *)
(*                                                                         *)
(* That resources do not mix comes down to buildResourceKey: with the      *)
(* length in front, different names and keys make different strings, so    *)
(* the store's count under a string is the number of calls of one name and *)
(* key.  That the store is closed once is an invariant that says what each *)
(* state of closeOnce stands for.                                          *)

Key(p) == buildResourceKey(p[1], p[2])

(* The store's count is that of the name and key, and bounds what was      *)
(* admitted; a call under way is held to the policy of its name.           *)
CountsOK ==
    /\ \A p \in Pairs : counters[Key(p)] = counted[p] /\ admitted[p] <= counted[p]
    /\ \A t \in Threads : pc[t] = "allow" => loc[t].limit = LimitOf(loc[t].pair[1])

(* What the states of closeOnce stand for.                                 *)
OnceOK ==
    /\ once # "done" => closes = 0 /\ store = "open"
    /\ once = "done" => closes = 1 /\ store # "open" /\ closeErr = store
    /\ \A t \in Threads : pc[t] = "close" => once = "running"
    /\ \A t \in Threads : pc[t] = "report" => once = "done"
    /\ \A t, u \in Threads : pc[t] = "close" /\ pc[u] = "close" => t = u

IInv == TypeOK /\ CountsOK /\ Isolated /\ OnceOK

-----------------------------------------------------------------------------

(* Two pairs of sequences that make the same sequence are the same if the  *)
(* first ones are of the same length.                                      *)
LEMMA SplitUnique ==
  ASSUME NEW S, NEW a \in Seq(S), NEW b \in Seq(S), NEW c \in Seq(S), NEW d \in Seq(S),
         Len(a) = Len(c), a \o b = c \o d
  PROVE  a = c /\ b = d
  <1>1. Len(a) \in Nat /\ Len(b) \in Nat /\ Len(c) \in Nat /\ Len(d) \in Nat
    BY LenProperties
  <1>2. /\ Len(a \o b) = Len(a) + Len(b)
        /\ \A i \in 1..(Len(a) + Len(b)) :
             (a \o b)[i] = IF i <= Len(a) THEN a[i] ELSE b[i - Len(a)]
    BY ConcatProperties
  <1>3. /\ Len(c \o d) = Len(c) + Len(d)
        /\ \A i \in 1..(Len(c) + Len(d)) :
             (c \o d)[i] = IF i <= Len(c) THEN c[i] ELSE d[i - Len(c)]
    BY ConcatProperties
  <1> DEFINE s == a \o b
  <1>4. /\ Len(b) = Len(d)
        /\ \A i \in 1..(Len(a) + Len(b)) : s[i] = IF i <= Len(a) THEN a[i] ELSE b[i - Len(a)]
        /\ \A i \in 1..(Len(a) + Len(b)) : s[i] = IF i <= Len(a) THEN c[i] ELSE d[i - Len(a)]
    BY <1>1, <1>2, <1>3
  <1> HIDE DEF s
  <1>5. \A i \in 1..Len(a) : a[i] = c[i]
    <2> TAKE i \in 1..Len(a)
    <2>1. i \in 1..(Len(a) + Len(b)) /\ i <= Len(a)
      BY <1>1
    <2> QED
      BY <2>1, <1>4
  <1>6. \A i \in 1..Len(b) : b[i] = d[i]
    <2> TAKE i \in 1..Len(b)
    <2> DEFINE j == i + Len(a)
    <2>1. j \in 1..(Len(a) + Len(b)) /\ ~(j <= Len(a)) /\ j - Len(a) = i
      BY <1>1
    <2> HIDE DEF j
    <2> QED
      BY <2>1, <1>4
  <1>7. a = c
    BY <1>5, SeqEqual
  <1>8. b = d
    BY <1>4, <1>6, SeqEqual
  <1> QED
    BY <1>7, <1>8

(* So are two triples with the same middle.                                *)
LEMMA SplitAround ==
  ASSUME NEW S, NEW a \in Seq(S), NEW b \in Seq(S), NEW c \in Seq(S), NEW d \in Seq(S),
         NEW m \in Seq(S), Len(a) = Len(c), (a \o m) \o b = (c \o m) \o d
  PROVE  a = c /\ b = d
  <1>1. /\ a \o m \in Seq(S) /\ c \o m \in Seq(S)
        /\ Len(a \o m) = Len(c \o m)
    <2>1. a \o m \in Seq(S) /\ Len(a \o m) = Len(a) + Len(m)
      BY ConcatProperties
    <2>2. c \o m \in Seq(S) /\ Len(c \o m) = Len(c) + Len(m)
      BY ConcatProperties
    <2> QED
      BY <2>1, <2>2
  <1> DEFINE l == a \o m
             r == c \o m
  <1>2. l \in Seq(S) /\ r \in Seq(S) /\ Len(l) = Len(r) /\ l \o b = r \o d
    BY <1>1
  <1> HIDE DEF l, r
  <1>3. l = r /\ b = d
    BY <1>2, SplitUnique, Zenon
  <1>4. a \o m = c \o m
    BY <1>3 DEF l, r
  <1> QED
    BY <1>3, <1>4, SplitUnique, Zenon

(* Different names or keys make different storage keys                     *)
(* (resource_limiter.go:96-98).                                            *)
LEMMA KeyInjective ==
  ASSUME NEW a \in Seq(Chars), NEW b \in Seq(Chars), NEW c \in Seq(Chars), NEW d \in Seq(Chars),
         buildResourceKey(a, b) = buildResourceKey(c, d)
  PROVE  a = c /\ b = d
  <1>1. <<":">> \in Seq(Chars)
    BY NamesAssumption
  <1> DEFINE colon == <<":">>
  <1>2. Len(a) = Len(c) /\ (a \o colon) \o b = (c \o colon) \o d
    BY DEF buildResourceKey
  <1>3. colon \in Seq(Chars)
    BY <1>1
  <1> HIDE DEF colon
  <1>4. ASSUME NEW m \in Seq(Chars), (a \o m) \o b = (c \o m) \o d
        PROVE  a = c /\ b = d
    BY <1>2, <1>4, SplitAround
  <1> QED
    BY <1>2, <1>3, <1>4

(* The same for the pairs of the model. *)
LEMMA KeysApart ==
  ASSUME NEW p \in Pairs, NEW q \in Pairs,
         buildResourceKey(p[1], p[2]) = buildResourceKey(q[1], q[2])
  PROVE  p = q
  <1>1. /\ p[1] \in Seq(Chars) /\ p[2] \in Seq(Chars) /\ q[1] \in Seq(Chars) /\ q[2] \in Seq(Chars)
        /\ p = <<p[1], p[2]>> /\ q = <<q[1], q[2]>>
    BY NamesAssumption DEF Pairs
  <1>2. p[1] = q[1] /\ p[2] = q[2]
    BY <1>1, KeyInjective
  <1> QED
    BY <1>1, <1>2

(* The store has an entry for each pair. *)
LEMMA PairTypes ==
  ASSUME NEW p \in Pairs
  PROVE  Key(p) \in StorageKeys
  BY DEF Key, StorageKeys

(* Every policy allows at least one call. *)
LEMMA LimitType ==
  ASSUME TypeOK, NEW r
  PROVE  LimitOf(r) \in Nat \ {0}
  BY ConfigsAssumption DEF TypeOK, LimitOf

(* The router as it is built. *)
LEMMA InitIInv == Init => IInv
  <1> SUFFICES ASSUME Init PROVE IInv
    OBVIOUS
  <1>1. TypeOK
    BY DEF Init, TypeOK, NoCall
  <1>2. CountsOK
    BY PairTypes DEF Init, CountsOK
  <1>3. Isolated
    BY <1>1, LimitType DEF Init, Isolated
  <1>4. OnceOK
    BY DEF Init, OnceOK
  <1> QED
    BY <1>1, <1>2, <1>3, <1>4 DEF IInv
-----------------------------------------------------------------------------
(* A step that leaves the counts alone. *)
LEMMA CountsUntouched ==
  ASSUME CountsOK, Isolated,
         UNCHANGED <<cfg, counters, counted, admitted, denied>>,
         \A t \in Threads : pc'[t] = "allow" =>
             (pc[t] = "allow" /\ loc'[t] = loc[t]) \/ loc'[t].limit = LimitOf(loc'[t].pair[1])
  PROVE  CountsOK' /\ Isolated'
  <1>1. \A r : LimitOf(r)' = LimitOf(r)
    BY DEF LimitOf
  <1>2. CountsOK'
    BY <1>1 DEF CountsOK, Key
  <1>3. Isolated'
    BY <1>1 DEF Isolated
  <1> QED
    BY <1>2, <1>3
-----------------------------------------------------------------------------
(* Each step keeps the types. *)
LEMMA TypeInductive ==
  ASSUME TypeOK, [Next]_vars
  PROVE  TypeOK'
  <1> USE DEF TypeOK
  <1>1. NoCall \in [pair : Pairs \union {<<>>}, limit : Nat \ {0}]
    BY DEF NoCall
  <1>2. ASSUME NEW t \in Threads, NEW p \in Pairs, AllowResource(t, p)
        PROVE  TypeOK'
    <2>1. [pair |-> p, limit |-> LimitOf(p[1])] \in [pair : Pairs \union {<<>>}, limit : Nat \ {0}]
      BY LimitType
    <2>2. loc' \in [Threads -> [pair : Pairs \union {<<>>}, limit : Nat \ {0}]]
      BY <1>2, <2>1 DEF AllowResource
    <2>3. \A u \in Threads : pc'[u] = "allow" => loc'[u].pair \in Pairs
      BY <1>2 DEF AllowResource, Goto
    <2> QED
      BY <1>2, <2>2, <2>3 DEF AllowResource, Begin, Goto
  <1>3. ASSUME NEW t \in Threads, NEW p \in Pairs, Count(p)
        PROVE  counters' \in [StorageKeys -> Nat] /\ counted' \in [Pairs -> Nat]
    BY <1>3, PairTypes DEF Count, Key
  <1>4. ASSUME NEW t \in Threads, Return(t)
        PROVE  /\ pc' \in [Threads -> {"idle", "allow", "once", "close", "report"}]
               /\ loc' \in [Threads -> [pair : Pairs \union {<<>>}, limit : Nat \ {0}]]
               /\ \A u \in Threads : pc'[u] = "allow" => loc'[u].pair \in Pairs
    BY <1>1, <1>4 DEF Return, Goto
  <1>5. ASSUME NEW t \in Threads, LimiterAllow(t)
        PROVE  TypeOK'
    <2>1. loc[t].pair \in Pairs
      BY <1>5 DEF LimiterAllow
    <2>2. admitted' \in [Pairs -> Nat] /\ denied' \in [Pairs -> Nat]
      BY <1>5, <2>1 DEF LimiterAllow
    <2> QED
      BY <1>3, <1>4, <1>5, <2>1, <2>2 DEF LimiterAllow
  <1>6. ASSUME NEW t \in Threads, StoreError(t)
        PROVE  TypeOK'
    <2>1. loc[t].pair \in Pairs
      BY <1>6 DEF StoreError
    <2>2. counters' \in [StorageKeys -> Nat] /\ counted' \in [Pairs -> Nat]
      BY <1>3, <1>6, <2>1 DEF StoreError
    <2> QED
      BY <1>4, <1>6, <2>2 DEF StoreError
  <1>7. ASSUME NEW t \in Threads, Close(t)
        PROVE  TypeOK'
    BY <1>7 DEF Close, Begin, Goto
  <1>8. ASSUME NEW t \in Threads, OnceRun(t)
        PROVE  TypeOK'
    BY <1>8 DEF OnceRun, Goto
  <1>9. ASSUME NEW t \in Threads, OnceWait(t)
        PROVE  TypeOK'
    BY <1>9 DEF OnceWait, Goto
  <1>10. ASSUME NEW t \in Threads, StoreClose(t)
         PROVE  TypeOK'
    BY <1>10 DEF StoreClose, Outcomes, Goto
  <1>11. ASSUME NEW t \in Threads, CloseReturn(t)
         PROVE  TypeOK'
    BY <1>4, <1>11 DEF CloseReturn
  <1>12. CASE UNCHANGED vars
    BY <1>12 DEF vars
  <1> QED
    BY <1>2, <1>5, <1>6, <1>7, <1>8, <1>9, <1>10, <1>11, <1>12 DEF Next, Invoke, Step
-----------------------------------------------------------------------------
(* A call that is counted is counted for its own name and key, and judged  *)
(* by that count.                                                          *)
LEMMA CountOne ==
  ASSUME TypeOK, CountsOK, NEW p \in Pairs, Count(p), UNCHANGED cfg
  PROVE  /\ \A q \in Pairs : counters'[Key(q)] = counted'[q]
         /\ counted'[p] = counted[p] + 1
         /\ \A q \in Pairs : q # p => counted'[q] = counted[q]
  <1>1. \A q \in Pairs : counted'[q] = IF q = p THEN counted[p] + 1 ELSE counted[q]
    BY DEF Count, TypeOK
  <1>2. \A q \in Pairs : counters'[Key(q)] = IF q = p THEN counters[Key(p)] + 1 ELSE counters[Key(q)]
    <2> TAKE q \in Pairs
    <2>1. counters' = [counters EXCEPT ![Key(p)] = @ + 1] /\ counters \in [StorageKeys -> Nat]
      BY DEF Count, TypeOK, Key
    <2>2. Key(p) \in StorageKeys /\ Key(q) \in StorageKeys
      BY PairTypes
    <2>3. Key(q) = Key(p) => q = p
      BY KeysApart DEF Key
    <2> QED
      BY <2>1, <2>2, <2>3
  <1> QED
    BY <1>1, <1>2 DEF CountsOK

(* A decision admits no more than the limit and denies only beyond it. *)
LEMMA LimiterAllowCounts ==
  ASSUME TypeOK, CountsOK, Isolated, NEW t \in Threads, LimiterAllow(t)
  PROVE  CountsOK' /\ Isolated'
  <1> DEFINE p == loc[t].pair
             limit == LimitOf(p[1])
  <1>1. /\ p \in Pairs /\ loc[t].limit = limit /\ Count(p) /\ UNCHANGED cfg
        /\ limit \in Nat \ {0}
    BY LimitType DEF LimiterAllow, TypeOK, CountsOK
  <1>2. \A r : LimitOf(r)' = LimitOf(r)
    BY <1>1 DEF LimitOf
  <1>3. /\ \A q \in Pairs : counters'[Key(q)] = counted'[q]
        /\ counted'[p] = counted[p] + 1
        /\ \A q \in Pairs : q # p => counted'[q] = counted[q]
    BY <1>1, CountOne
  <1>4. /\ \A q \in Pairs : q # p => admitted'[q] = admitted[q] /\ denied'[q] = denied[q]
        /\ \/ counted'[p] <= limit /\ admitted'[p] = admitted[p] + 1 /\ denied'[p] = denied[p]
           \/ ~(counted'[p] <= limit) /\ admitted'[p] = admitted[p] /\ denied'[p] = denied[p] + 1
    BY <1>1, <1>3 DEF LimiterAllow, TypeOK, Key
  <1>5. \A q \in Pairs : counted[q] \in Nat /\ admitted[q] \in Nat /\ denied[q] \in Nat
    BY DEF TypeOK
  <1> HIDE DEF p, limit
  <1>6. \A q \in Pairs : admitted'[q] <= counted'[q]
    BY <1>1, <1>3, <1>4, <1>5 DEF CountsOK
  <1>7. \A u \in Threads : pc'[u] = "allow" => loc'[u].limit = LimitOf(loc'[u].pair[1])
    <2> TAKE u \in Threads
    <2>1. pc'[u] = "allow" => pc[u] = "allow" /\ loc'[u] = loc[u]
      BY DEF LimiterAllow, Return, Goto, TypeOK
    <2> QED
      BY <2>1 DEF CountsOK
  <1>8. CountsOK'
    BY <1>2, <1>3, <1>6, <1>7 DEF CountsOK, Key
  <1>9. admitted'[p] <= limit /\ (denied'[p] > 0 => counted'[p] > limit)
    <2>1. admitted[p] <= limit /\ (denied[p] > 0 => counted[p] > limit) /\ admitted[p] <= counted[p]
      BY <1>1 DEF CountsOK, Isolated, limit
    <2> QED
      BY <1>1, <1>3, <1>4, <1>5, <2>1
  <1>10. Isolated'
    <2> SUFFICES ASSUME NEW q \in Pairs
                 PROVE  admitted'[q] <= LimitOf(q[1]) /\ (denied'[q] > 0 => counted'[q] > LimitOf(q[1]))
      BY <1>2 DEF Isolated
    <2>1. CASE q = p
      BY <1>9, <2>1 DEF limit
    <2>2. CASE q # p
      BY <1>3, <1>4, <2>2 DEF Isolated
    <2> QED
      BY <2>1, <2>2
  <1> QED
    BY <1>8, <1>10

(* A failed call can only use up the limit of its own name and key. *)
LEMMA StoreErrorCounts ==
  ASSUME TypeOK, CountsOK, Isolated, NEW t \in Threads, StoreError(t)
  PROVE  CountsOK' /\ Isolated'
  <1> DEFINE p == loc[t].pair
  <1>1. p \in Pairs /\ UNCHANGED <<cfg, admitted, denied>>
    BY DEF StoreError, TypeOK
  <1>2. \A u \in Threads : pc'[u] = "allow" => pc[u] = "allow" /\ loc'[u] = loc[u]
    BY DEF StoreError, Return, Goto, TypeOK
  <1>3. CASE UNCHANGED <<counters, counted>>
    BY <1>1, <1>2, <1>3, CountsUntouched
  <1>4. CASE Count(p)
    <2>1. \A r : LimitOf(r)' = LimitOf(r)
      BY <1>1 DEF LimitOf
    <2>2. /\ \A q \in Pairs : counters'[Key(q)] = counted'[q]
          /\ counted'[p] = counted[p] + 1
          /\ \A q \in Pairs : q # p => counted'[q] = counted[q]
      BY <1>1, <1>4, CountOne
    <2>3. ASSUME NEW q \in Pairs
          PROVE  /\ counted[q] <= counted'[q] /\ admitted[q] \in Nat /\ denied[q] \in Nat
                 /\ counted[q] \in Nat /\ counted'[q] \in Nat
      <3>1. counted[q] \in Nat /\ admitted[q] \in Nat /\ denied[q] \in Nat
        BY DEF TypeOK
      <3>2. counted'[q] = counted[q] \/ counted'[q] = counted[q] + 1
        BY <2>2
      <3> QED
        BY <3>1, <3>2
    <2>4. CountsOK'
      <3>1. \A q \in Pairs : counters'[Key(q)] = counted'[q] /\ admitted'[q] <= counted'[q]
        BY <1>1, <2>2, <2>3 DEF CountsOK
      <3>2. \A u \in Threads : pc'[u] = "allow" => loc'[u].limit = LimitOf(loc'[u].pair[1])
        BY <1>2 DEF CountsOK
      <3> QED
        BY <2>1, <3>1, <3>2 DEF CountsOK, Key
    <2>5. Isolated'
      <3> SUFFICES ASSUME NEW q \in Pairs
                   PROVE  admitted[q] <= LimitOf(q[1]) /\ (denied[q] > 0 => counted'[q] > LimitOf(q[1]))
        BY <1>1, <2>1 DEF Isolated
      <3>1. LimitOf(q[1]) \in Nat
        BY LimitType
      <3> QED
        BY <2>3, <3>1 DEF Isolated
    <2> QED
      BY <2>4, <2>5
  <1> QED
    BY <1>3, <1>4 DEF StoreError

(* Each step keeps the counts apart. *)
LEMMA CountsInductive ==
  ASSUME TypeOK, CountsOK, Isolated, [Next]_vars
  PROVE  CountsOK' /\ Isolated'
  <1>1. ASSUME NEW t \in Threads, NEW q \in Pairs, AllowResource(t, q)
        PROVE  CountsOK' /\ Isolated'
    <2>1. \A u \in Threads : pc'[u] = "allow" =>
            (pc[u] = "allow" /\ loc'[u] = loc[u]) \/ loc'[u].limit = LimitOf(loc'[u].pair[1])
      BY <1>1 DEF AllowResource, Goto, TypeOK
    <2> QED
      BY <1>1, <2>1, CountsUntouched DEF AllowResource
  <1>2. ASSUME NEW t \in Threads,
               Close(t) \/ OnceRun(t) \/ OnceWait(t) \/ StoreClose(t) \/ CloseReturn(t)
        PROVE  CountsOK' /\ Isolated'
    <2>1. UNCHANGED <<cfg, counters, counted, admitted, denied>>
      BY <1>2 DEF Close, OnceRun, OnceWait, StoreClose, CloseReturn
    <2>2. \A u \in Threads : pc'[u] = "allow" => pc[u] = "allow" /\ loc'[u] = loc[u]
      BY <1>2 DEF Close, OnceRun, OnceWait, StoreClose, CloseReturn, Return, Goto, TypeOK
    <2> QED
      BY <2>1, <2>2, CountsUntouched
  <1>3. CASE UNCHANGED vars
    BY <1>3, CountsUntouched DEF vars
  <1> QED
    BY <1>1, <1>2, <1>3, LimiterAllowCounts, StoreErrorCounts DEF Next, Invoke, Step
-----------------------------------------------------------------------------
(* The goroutine in StoreClose is the only one, and the first.             *)
LEMMA OnceInductive ==
  ASSUME TypeOK, OnceOK, [Next]_vars
  PROVE  OnceOK'
  <1> USE DEF TypeOK, OnceOK
  <1>1. ASSUME NEW t \in Threads, NEW p \in Pairs, AllowResource(t, p)
        PROVE  OnceOK'
    BY <1>1 DEF AllowResource, Begin, Goto
  <1>2. ASSUME NEW t \in Threads, LimiterAllow(t) \/ StoreError(t) \/ CloseReturn(t)
        PROVE  OnceOK'
    BY <1>2 DEF LimiterAllow, StoreError, CloseReturn, Return, Goto
  <1>3. ASSUME NEW t \in Threads, Close(t)
        PROVE  OnceOK'
    BY <1>3 DEF Close, Begin, Goto
  <1>4. ASSUME NEW t \in Threads, OnceRun(t)
        PROVE  OnceOK'
    BY <1>4 DEF OnceRun, Goto
  <1>5. ASSUME NEW t \in Threads, OnceWait(t)
        PROVE  OnceOK'
    BY <1>5 DEF OnceWait, Goto
  <1>6. ASSUME NEW t \in Threads, StoreClose(t)
        PROVE  OnceOK'
    <2>1. closes' = 1 /\ once' = "done" /\ store' # "open" /\ closeErr' = store'
      BY <1>6 DEF StoreClose, Outcomes
    <2>2. \A u \in Threads : pc'[u] # "close"
      BY <1>6 DEF StoreClose, Goto
    <2> QED
      BY <2>1, <2>2
  <1>7. CASE UNCHANGED vars
    BY <1>7 DEF vars
  <1> QED
    BY <1>1, <1>2, <1>3, <1>4, <1>5, <1>6, <1>7 DEF Next, Invoke, Step
-----------------------------------------------------------------------------
(* IInv holds in every reachable state.                                    *)
THEOREM Invariance == Spec => []IInv
  <1>1. IInv /\ [Next]_vars => IInv'
    BY TypeInductive, CountsInductive, OnceInductive DEF IInv
  <1> QED
    BY InitIInv, <1>1, PTL DEF Spec

(* Type correctness of the router.                                         *)
THEOREM TypeCorrect == Spec => []TypeOK
  <1>1. IInv => TypeOK
    BY DEF IInv
  <1> QED
    BY Invariance, <1>1, PTL

(* For any names, keys and policies, names and keys are kept apart: each   *)
(* has the limit of its policy to itself (resource_limiter.go:63-69).      *)
THEOREM ResourcesIsolated == Spec => []Isolated
  <1>1. IInv => Isolated
    BY DEF IInv
  <1> QED
    BY Invariance, <1>1, PTL

(* For any number of goroutines that call Close, the store is closed once, *)
(* before any of them returns, and all report the outcome                  *)
(* (resource_limiter.go:71-76).                                            *)
THEOREM StoreClosedOnce == Spec => []ClosedOnce
  <1>1. IInv => ClosedOnce
    BY DEF IInv, TypeOK, OnceOK, ClosedOnce
  <1> QED
    BY Invariance, <1>1, PTL
=============================================================================
