-------------------------- MODULE MiddlewareProofs --------------------------
(***************************************************************************)
(* Proofs about Middleware for any clients, proxies, paths and chains of   *)
(* layers, of any limiters.                                                *)
(*                                                                         *)
(* The invariant follows a request along the chain, and ties what a client *)
(* was told of a quota to what the limiter owes it: the key a layer        *)
(* computes is the same for every way of a request, and rounding a delay   *)
(* to seconds never makes it shorter than the client takes it to be.       *)
(***************************************************************************)
EXTENDS Middleware, SequenceTheorems, TLAPS

(* A request on its way has passed the layers before the one it is at. *)
OnItsWay ==
    \A c \in Clients :
        /\ pc[c] = "asking" =>
             /\ request[c] \in Sent(c, want[c]) /\ at[c] \in Layers
             /\ passed[c] = 1..(at[c] - 1)
             /\ response[c].status = "none" /\ response[c].retry = None
        /\ pc[c] # "idle" => want[c] \in Paths

(* The layer's quota of a client, for a path where it tells paths apart. *)
TellsPaths(i) == Layer(i).byResource \/ Layer(i).key = "path"

Quota(i, c, p) ==
    <<i, <<IF Layer(i).byResource THEN p ELSE Any, c, IF Layer(i).key = "path" THEN p ELSE Any>>>>

(* A delay that is still to run is at least as long as the limiter's. *)
Covered(o, t) == t \in Nat \union {None} /\ (t # None => o # None /\ o <= t)

ToldCoversOwed ==
    \A i \in Layers, c \in Clients, p \in Paths \union {Any} :
        /\ Covered(owed[Quota(i, c, p)], told[<<i, c, p>>].header)
        /\ Covered(owed[Quota(i, c, p)], told[<<i, c, p>>].body)
        /\ told[<<i, c, p>>].header # None \/ told[<<i, c, p>>].body # None => TellsPaths(i) \/ p = Any

IInv == TypeOK /\ OnItsWay /\ ServedIffAdmitted /\ ToldCoversOwed

-----------------------------------------------------------------------------
(* Rounding. *)

LEMMA DivBounds ==
  ASSUME NEW a \in Nat, NEW w \in Nat \ {0}
  PROVE  /\ a \div w \in Nat /\ a % w \in 0..(w - 1)
         /\ (a \div w) * w \in Nat /\ a = (a \div w) * w + (a % w)
         /\ (a \div w + 1) * w = (a \div w) * w + w
  OBVIOUS

LEMMA DivMultiple ==
  ASSUME NEW q \in Nat, NEW w \in Nat \ {0}
  PROVE  (q * w) \div w = q
  OBVIOUS

(* Rounded up to seconds, a delay is no shorter. *)
LEMMA CeilCovers ==
  ASSUME NEW d \in Nat
  PROVE  CeilSeconds(d) \in Nat /\ CeilSeconds(d) * Second \in Nat /\ d <= CeilSeconds(d) * Second
  <1>1. Second \in Nat \ {0}
    BY EnvironmentAssumption
  <1>2. PICK a \in Nat : a = d + Second - 1
    BY <1>1
  <1>3. /\ a \div Second \in Nat /\ a % Second \in 0..(Second - 1)
        /\ (a \div Second) * Second \in Nat /\ a = (a \div Second) * Second + (a % Second)
    BY <1>1, DivBounds
  <1> QED
    BY <1>1, <1>2, <1>3 DEF CeilSeconds

(* Rounded to the nearest second it is half a second short at most. *)
LEMMA NearestCovers ==
  ASSUME NEW d \in Nat
  PROVE  /\ NearestSecond(d) \in Nat /\ NearestSecond(d) * Second + Second \div 2 \in Nat
         /\ d <= NearestSecond(d) * Second + Second \div 2
  <1>1. Second \in Nat \ {0} /\ Second % 2 = 0
    BY EnvironmentAssumption
  <1>2. Second \div 2 \in Nat /\ Second = 2 * (Second \div 2)
    BY <1>1
  <1>3. PICK q \in Nat, r \in 0..(Second - 1) :
           /\ q = d \div Second /\ r = d % Second
           /\ q * Second \in Nat /\ d = q * Second + r /\ (q + 1) * Second = q * Second + Second
    BY <1>1, DivBounds
  <1>4. CASE 2 * r < Second \/ (2 * r = Second /\ q % 2 = 0)
    <2>1. Float64(d, Second) = q * Second
      BY <1>3, <1>4 DEF Float64
    <2>2. NearestSecond(d) = q
      BY <1>1, <1>3, <2>1, DivMultiple DEF NearestSecond
    <2> QED
      BY <1>1, <1>2, <1>3, <1>4, <2>2
  <1>5. CASE ~(2 * r < Second \/ (2 * r = Second /\ q % 2 = 0))
    <2>1. Float64(d, Second) = (q + 1) * Second
      BY <1>3, <1>5 DEF Float64
    <2>2. NearestSecond(d) = q + 1
      BY <1>1, <1>3, <2>1, DivMultiple DEF NearestSecond
    <2> QED
      BY <1>1, <1>2, <1>3, <2>2
  <1> QED
    BY <1>4, <1>5

-----------------------------------------------------------------------------
(* The chain. *)

LEMMA Chosen ==
  ASSUME cfg \in Configs
  PROVE  /\ cfg.framework \in {"http", "gin", "echo", "fiber"}
         /\ Len(cfg.layers) \in Nat \ {0}
         /\ \A i \in Layers : /\ Layer(i).key \in {"ip", "header", "path"}
                              /\ Layer(i).byResource \in BOOLEAN
         /\ cfg.clients \subseteq Clients /\ cfg.paths \subseteq Paths /\ Delays \subseteq Nat
  <1>1. /\ cfg.framework \in {"http", "gin", "echo", "fiber"}
        /\ cfg.layers # <<>>
        /\ cfg.layers \in Seq([key : {"ip", "header", "path"}, byResource : BOOLEAN,
                               headers : BOOLEAN, custom : BOOLEAN])
        /\ cfg.clients \subseteq Clients /\ cfg.paths \subseteq Paths /\ cfg.delays \subseteq Nat
    BY ConfigsAssumption
  <1>2. Len(cfg.layers) \in Nat \ {0}
    BY <1>1, EmptySeq, LenProperties
  <1>3. ASSUME NEW i \in Layers
        PROVE  Layer(i) \in [key : {"ip", "header", "path"}, byResource : BOOLEAN,
                             headers : BOOLEAN, custom : BOOLEAN]
    BY <1>1, ElementOfSeq DEF Layers, Layer
  <1> QED
    BY <1>1, <1>2, <1>3 DEF Delays

(* Every way of a request leads to the same key. *)
LEMMA SentFields ==
  ASSUME NEW c \in Clients, NEW p, NEW q \in Sent(c, p)
  PROVE  q.apiKey = c /\ q.path = p /\ KeyByIP(q) = c
  <1>1. c # Any
    BY EnvironmentAssumption
  <1> DEFINE Way(xff, realIP, remote) ==
               [xff |-> xff, realIP |-> realIP, remote |-> remote, apiKey |-> c, path |-> p]
  <1>2. \/ q = Way(<<>>, Any, c)
        \/ \E x \in Proxies : q = Way(<<c>>, Any, x)
        \/ \E x \in Proxies : q = Way(<<c, x>>, Any, x)
        \/ \E x \in Proxies : q = Way(<<>>, c, x)
    BY DEF Sent
  <1>3. q.apiKey = c /\ q.path = p
    BY <1>2
  <1>4. KeyByIP(q) = c
    <2>1. CASE q = Way(<<>>, Any, c)
      BY <2>1 DEF KeyByIP
    <2>2. CASE \E x \in Proxies : q = Way(<<c>>, Any, x)
      BY <2>2 DEF KeyByIP
    <2>3. CASE \E x \in Proxies : q = Way(<<c, x>>, Any, x)
      BY <2>3 DEF KeyByIP
    <2>4. CASE \E x \in Proxies : q = Way(<<>>, c, x)
      BY <1>1, <2>4 DEF KeyByIP
    <2> QED
      BY <1>2, <2>1, <2>2, <2>3, <2>4
  <1> QED
    BY <1>3, <1>4

LEMMA SubjectIsQuota ==
  ASSUME cfg \in Configs, NEW c \in Clients, NEW i \in Layers, NEW p, p = want[c], NEW q \in Sent(c, p),
         NEW m, m = IF TellsPaths(i) THEN p ELSE Any
  PROVE  <<i, Subject(Layer(i), q)>> = Quota(i, c, m) /\ Meant(i, c) = <<i, c, m>>
  <1>1. q.apiKey = c /\ q.path = p /\ KeyByIP(q) = c
    BY SentFields
  <1>2. Layer(i).key \in {"ip", "header", "path"}
    BY Chosen
  <1>3. IP(q) = c
    BY <1>1 DEF IP, FrameworkIP
  <1>4. KeyFunc(Layer(i), q) = <<c, IF Layer(i).key = "path" THEN p ELSE Any>>
    BY <1>1, <1>2, <1>3 DEF KeyFunc
  <1>5. Subject(Layer(i), q)
          = <<IF Layer(i).byResource THEN p ELSE Any, c, IF Layer(i).key = "path" THEN p ELSE Any>>
    BY <1>1, <1>4 DEF Subject, ResourceFunc
  <1>6. Meant(i, c) = <<i, c, m>>
    BY DEF Meant, TellsPaths
  <1> QED
    BY <1>5, <1>6 DEF Quota, TellsPaths

Responses == [status : Statuses, limit : Nat, retry : Int, body : Int]

(* What a layer writes. *)
LEMMA ReplyFields ==
  ASSUME cfg \in Configs, NEW r \in Responses, NEW i \in Layers, NEW o \in Results,
         NEW n, n = Reply(r, i, o)
  PROVE  /\ n \in Responses
         /\ n.status = IF o.kind = "admitted" THEN r.status ELSE o.kind
         /\ \/ n.retry = r.retry
            \/ o.kind = "denied" /\ o.retryAfter > 0 /\ n.retry = CeilSeconds(o.retryAfter)
         /\ o.kind = "denied" => n.body \in {None, NearestSecond(o.retryAfter)}
  <1>1. o.kind \in {"admitted", "denied", "error"} /\ o.retryAfter \in Nat
    BY Chosen DEF Results
  <1>2. /\ CeilSeconds(o.retryAfter) \in Int /\ NearestSecond(o.retryAfter) \in Int /\ None \in Int
        /\ i \in Nat
    <2>1. CeilSeconds(o.retryAfter) \in Nat /\ NearestSecond(o.retryAfter) \in Nat
      BY <1>1, CeilCovers, NearestCovers
    <2>2. None \in Int
      BY DEF None
    <2>3. i \in Nat
      BY Chosen DEF Layers
    <2> QED
      BY <2>1, <2>2, <2>3
  <1>3. PICK s \in Int : s = IF o.kind = "denied" /\ o.retryAfter > 0 THEN CeilSeconds(o.retryAfter) ELSE r.retry
    BY <1>2 DEF Responses
  <1>4. PICK g : g = setRateLimitHeaders(r, i, o)
    OBVIOUS
  <1>5. g \in Responses /\ g.status = r.status /\ g.retry = s
    BY <1>2, <1>3, <1>4 DEF setRateLimitHeaders, Responses
  <1>6. PICK h : h = IF o.kind # "error" /\ shouldSetHeaders(Layer(i)) THEN g ELSE r
    OBVIOUS
  <1>7. h \in Responses /\ h.status = r.status /\ h.retry \in {r.retry, s}
    BY <1>5, <1>6
  <1>8. PICK b \in Int : b = IF o.kind = "denied" /\ ~Layer(i).custom THEN NearestSecond(o.retryAfter) ELSE None
    BY <1>2
  <1>9. n = IF o.kind = "admitted" THEN h ELSE [h EXCEPT !.status = o.kind, !.body = b]
    BY <1>4, <1>6, <1>8 DEF Reply
  <1>10. CASE o.kind = "admitted"
    BY <1>3, <1>7, <1>9, <1>10
  <1>11. CASE o.kind # "admitted"
    <2>1. PICK k \in Statuses : k = o.kind /\ k # "admitted"
      BY <1>1, <1>11 DEF Statuses
    <2>2. n = [[h EXCEPT !.status = k] EXCEPT !.body = b]
      BY <1>9, <1>11, <2>1
    <2>3. n \in Responses /\ n.status = k /\ n.retry = h.retry /\ n.body = b
      BY <1>7, <2>1, <2>2 DEF Responses
    <2> QED
      BY <1>3, <1>7, <1>8, <1>11, <2>1, <2>3
  <1> QED
    BY <1>10, <1>11

(* Only an admitted request goes on, in every framework. *)
LEMMA OnlyAdmittedGoesOn ==
  ASSUME cfg \in Configs, NEW l, NEW o
  PROVE  GoesOn(l, o) <=> o.kind = "admitted"
  <1>1. cfg.framework \in {"http", "gin", "echo", "fiber"}
    BY Chosen
  <1> QED
    BY <1>1 DEF GoesOn, httpCallsNext, echoCallsNext, fiberCallsNext, ginAborts

(* A quota belongs to one client, and to one path where paths are told apart. *)
LEMMA QuotasApart ==
  ASSUME NEW i, NEW c, NEW p, NEW j, NEW d, NEW r, Quota(i, c, p) = Quota(j, d, r)
  PROVE  i = j /\ c = d /\ (TellsPaths(i) => p = r)
  <1>1. i = j /\ c = d
    BY DEF Quota
  <1>2. /\ (IF Layer(i).byResource THEN p ELSE Any) = (IF Layer(i).byResource THEN r ELSE Any)
        /\ (IF Layer(i).key = "path" THEN p ELSE Any) = (IF Layer(i).key = "path" THEN r ELSE Any)
    BY <1>1 DEF Quota
  <1> QED
    BY <1>1, <1>2 DEF TellsPaths

LEMMA QuotaTyped ==
  ASSUME NEW i \in Layers, NEW c \in Clients, NEW p \in Paths \union {Any}
  PROVE  Quota(i, c, p) \in Layers \X Subjects
  BY DEF Quota, Subjects, Addresses

(* The shorter of two delays. *)
LEMMA ShorterCovers ==
  ASSUME NEW o \in Nat \union {None}, NEW t, Covered(o, t), NEW d \in Nat, NEW s \in Nat, d <= s,
         NEW n, n = IF o = None \/ d < o THEN d ELSE o
  PROVE  Covered(n, Shorter(t, s))
  BY DEF Covered, Shorter, None

LEMMA StillCovers ==
  ASSUME NEW o \in Nat \union {None}, NEW t, Covered(o, t), NEW d \in Nat,
         NEW n, n = IF o = None \/ d < o THEN d ELSE o
  PROVE  Covered(n, t)
  BY DEF Covered, None

(* What Handle does, with the result of the limiter and what is written. *)
Handled(c, o, r, i, m) ==
    /\ pc[c] = "asking" /\ i \in Layers /\ i = at[c]
    /\ o \in Results
    /\ r = Reply(response[c], i, o)
    /\ m \in Paths \union {Any} /\ (TellsPaths(i) \/ m = Any) /\ Meant(i, c) = <<i, c, m>>
    /\ Allow(Quota(i, c, m), o)
    /\ told' = [told EXCEPT ![<<i, c, m>>] = Told(@, r, o)]
    /\ passed' = IF o.kind = "admitted" THEN [passed EXCEPT ![c] = @ \union {i}] ELSE passed
    /\ \/ /\ o.kind = "admitted" /\ i < Len(cfg.layers)
          /\ at' = [at EXCEPT ![c] = i + 1]
          /\ response' = [response EXCEPT ![c] = r]
          /\ UNCHANGED <<pc, request>>
       \/ /\ o.kind = "admitted" /\ i = Len(cfg.layers)
          /\ response' = [response EXCEPT ![c] = [r EXCEPT !.status = "served"]]
          /\ pc' = [pc EXCEPT ![c] = "idle"]
          /\ request' = [request EXCEPT ![c] = NoRequest]
          /\ UNCHANGED at
       \/ /\ o.kind # "admitted"
          /\ response' = [response EXCEPT ![c] = r]
          /\ pc' = [pc EXCEPT ![c] = "refused"]
          /\ request' = [request EXCEPT ![c] = NoRequest]
          /\ UNCHANGED at
    /\ UNCHANGED <<cfg, want>>

LEMMA HandleIsHandled ==
  ASSUME IInv, NEW c \in Clients, Handle(c)
  PROVE  \E o, r, i, m : Handled(c, o, r, i, m)
  <1> USE DEF IInv
  <1>1. cfg \in Configs /\ pc[c] = "asking"
    BY DEF TypeOK, Handle
  <1>2. PICK i : i = at[c]
    OBVIOUS
  <1>3. i \in Layers /\ request[c] \in Sent(c, want[c]) /\ want[c] \in Paths
    BY <1>1, <1>2 DEF OnItsWay
  <1>4. PICK m : m = IF TellsPaths(i) THEN want[c] ELSE Any
    OBVIOUS
  <1>5. <<i, Subject(Layer(i), request[c])>> = Quota(i, c, m) /\ Meant(i, c) = <<i, c, m>>
    BY <1>1, <1>3, <1>4, SubjectIsQuota
  <1>6. m \in Paths \union {Any} /\ (TellsPaths(i) \/ m = Any)
    BY <1>3, <1>4
  <1>7. PICK o, r :
          /\ o \in Results
          /\ r = Reply(response[c], i, o)
          /\ Allow(<<i, Subject(Layer(i), request[c])>>, o)
          /\ passed' = IF o.kind = "admitted" THEN [passed EXCEPT ![c] = @ \union {i}] ELSE passed
          /\ told' = [told EXCEPT ![Meant(i, c)] = Told(@, r, o)]
          /\ \/ /\ GoesOn(Layer(i), o) /\ i < Len(cfg.layers)
                /\ at' = [at EXCEPT ![c] = i + 1]
                /\ response' = [response EXCEPT ![c] = r]
                /\ UNCHANGED <<pc, request>>
             \/ /\ GoesOn(Layer(i), o) /\ i = Len(cfg.layers)
                /\ response' = [response EXCEPT ![c] = [r EXCEPT !.status = "served"]]
                /\ pc' = [pc EXCEPT ![c] = "idle"]
                /\ request' = [request EXCEPT ![c] = NoRequest]
                /\ UNCHANGED at
             \/ /\ ~GoesOn(Layer(i), o)
                /\ response' = [response EXCEPT ![c] = r]
                /\ pc' = [pc EXCEPT ![c] = "refused"]
                /\ request' = [request EXCEPT ![c] = NoRequest]
                /\ UNCHANGED at
    BY <1>2 DEF Handle
  <1>8. UNCHANGED <<cfg, want>>
    BY DEF Handle
  <1>9. GoesOn(Layer(i), o) <=> o.kind = "admitted"
    BY <1>1, OnlyAdmittedGoesOn
  <1>10. Handled(c, o, r, i, m)
    BY <1>1, <1>2, <1>3, <1>5, <1>6, <1>7, <1>8, <1>9 DEF Handled
  <1> QED
    BY <1>10

(* The same chain after the step as before. *)
LEMMA SameChain ==
  ASSUME UNCHANGED cfg
  PROVE  Layers' = Layers /\ \A i : Layer(i)' = Layer(i) /\ TellsPaths(i)' = TellsPaths(i)
  BY DEF Layers, Layer, TellsPaths

LEMMA CoveredNext ==
  ASSUME UNCHANGED cfg,
         \A i \in Layers, c \in Clients, p \in Paths \union {Any} :
            /\ Covered(owed'[Quota(i, c, p)], told'[<<i, c, p>>].header)
            /\ Covered(owed'[Quota(i, c, p)], told'[<<i, c, p>>].body)
            /\ told'[<<i, c, p>>].header # None \/ told'[<<i, c, p>>].body # None
                 => TellsPaths(i) \/ p = Any
  PROVE  ToldCoversOwed'
  <1>1. Layers' = Layers
    BY SameChain
  <1>2. ASSUME NEW i, NEW c, NEW p PROVE Quota(i, c, p)' = Quota(i, c, p) /\ TellsPaths(i)' = TellsPaths(i)
    BY DEF Quota, Layer, TellsPaths
  <1> QED
    BY <1>1, <1>2 DEF ToldCoversOwed

(* The limiter's debt and what the client was told of it, after a result. *)
LEMMA ToldKept ==
  ASSUME IInv, NEW c \in Clients, NEW o, NEW r, NEW i, NEW m, Handled(c, o, r, i, m)
  PROVE  /\ owed' \in [Layers \X Subjects -> Nat \union {None}]
         /\ told' \in [Layers \X Clients \X (Paths \union {Any}) -> [header : Int, body : Int]]
         /\ ToldCoversOwed'
  <1> USE DEF IInv
  <1>1. /\ cfg \in Configs /\ pc[c] = "asking" /\ i \in Layers /\ i = at[c] /\ o \in Results
        /\ r = Reply(response[c], i, o) /\ m \in Paths \union {Any} /\ (TellsPaths(i) \/ m = Any)
        /\ Allow(Quota(i, c, m), o) /\ UNCHANGED cfg
        /\ told' = [told EXCEPT ![<<i, c, m>>] = Told(@, r, o)]
    BY DEF Handled, TypeOK
  <1>2. PICK x : x = Quota(i, c, m)
    OBVIOUS
  <1>3. PICK y : y = <<i, c, m>>
    OBVIOUS
  <1>4. /\ x \in Layers \X Subjects /\ y \in Layers \X Clients \X (Paths \union {Any})
        /\ owed[x] \in Nat \union {None}
    BY <1>1, <1>2, <1>3, QuotaTyped DEF TypeOK
  <1>5. /\ Covered(owed[x], told[y].header) /\ Covered(owed[x], told[y].body)
    BY <1>1, <1>2, <1>3 DEF ToldCoversOwed
  <1>6. PICK t : t = Told(told[y], r, o)
    OBVIOUS
  <1>7. told' = [told EXCEPT ![y] = t]
    BY <1>1, <1>3, <1>6
  <1>8. PICK w : /\ owed' = [owed EXCEPT ![x] = w] /\ w \in Nat \union {None}
                 /\ t \in [header : Int, body : Int]
                 /\ Covered(w, t.header) /\ Covered(w, t.body)
    <2>1. CASE o.kind = "admitted"
      <3>1. owed' = [owed EXCEPT ![x] = None]
        BY <1>1, <1>2, <2>1 DEF Allow
      <3>2. t = NothingTold
        BY <1>6, <2>1 DEF Told
      <3>3. t \in [header : Int, body : Int] /\ Covered(None, t.header) /\ Covered(None, t.body)
        BY <3>2 DEF NothingTold, Covered, None
      <3> QED
        BY <3>1, <3>3
    <2>2. CASE o.kind = "error"
      <3>1. owed' = owed
        BY <1>1, <2>2 DEF Allow
      <3>2. t = told[y] /\ t \in [header : Int, body : Int]
        BY <1>4, <1>6, <2>2 DEF Told, TypeOK
      <3>3. owed' = [owed EXCEPT ![x] = owed[x]]
        BY <1>4, <3>1 DEF TypeOK
      <3> QED
        BY <1>4, <1>5, <3>2, <3>3
    <2>3. CASE o.kind = "denied"
      <3>1. PICK d \in Nat : d = o.retryAfter
        BY <1>1, Chosen DEF Results
      <3>2. owed' = [owed EXCEPT ![x] = IF d > 0 /\ (@ = None \/ d < @) THEN d ELSE @]
        BY <1>1, <1>2, <2>3, <3>1 DEF Allow
      <3>3. PICK w : w = IF d > 0 /\ (owed[x] = None \/ d < owed[x]) THEN d ELSE owed[x]
        OBVIOUS
      <3>4. owed' = [owed EXCEPT ![x] = w] /\ w \in Nat \union {None}
        BY <1>4, <3>2, <3>3 DEF TypeOK
      <3>5. /\ r.retry = None \/ (d > 0 /\ r.retry = CeilSeconds(d))
            /\ r.body \in {None, NearestSecond(d)}
        <4>1. response[c].retry = None /\ response[c] \in Responses
          BY <1>1 DEF OnItsWay, TypeOK, Responses
        <4> QED
          BY <1>1, <2>3, <3>1, <4>1, ReplyFields
      <3>6. PICK h, b :
              /\ h = IF r.retry = None THEN None ELSE r.retry * Second
              /\ b = IF r.body = None \/ d = 0 THEN None ELSE r.body * Second + Second \div 2
        OBVIOUS
      <3>7. /\ h = None \/ (h \in Nat /\ d > 0 /\ d <= h)
            /\ b = None \/ (b \in Nat /\ d > 0 /\ d <= b)
        BY <3>1, <3>5, <3>6, CeilCovers, NearestCovers
      <3>8. t = [header |-> Shorter(told[y].header, h), body |-> Shorter(told[y].body, b)]
        BY <1>6, <2>3, <3>1, <3>6 DEF Told
      <3>9. /\ Covered(w, Shorter(told[y].header, h)) /\ Covered(w, Shorter(told[y].body, b))
        <4>1. CASE d = 0
          <5>1. w = owed[x] /\ h = None /\ b = None
            BY <3>3, <3>7, <4>1
          <5> QED
            BY <1>5, <5>1 DEF Shorter
        <4>2. CASE d > 0
          <5>1. w = IF owed[x] = None \/ d < owed[x] THEN d ELSE owed[x]
            BY <3>3, <4>2
          <5>2. /\ Covered(w, told[y].header) /\ Covered(w, told[y].body)
            BY <1>4, <1>5, <3>1, <5>1, StillCovers
          <5>3. h # None => Covered(w, Shorter(told[y].header, h))
            BY <1>4, <1>5, <3>1, <3>7, <5>1, ShorterCovers
          <5>4. b # None => Covered(w, Shorter(told[y].body, b))
            BY <1>4, <1>5, <3>1, <3>7, <5>1, ShorterCovers
          <5>5. Shorter(told[y].header, None) = told[y].header /\ Shorter(told[y].body, None) = told[y].body
            BY DEF Shorter
          <5> QED
            BY <5>2, <5>3, <5>4, <5>5
        <4> QED
          BY <3>1, <4>1, <4>2
      <3>10. t \in [header : Int, body : Int] /\ Covered(w, t.header) /\ Covered(w, t.body)
        BY <3>8, <3>9 DEF Covered, None
      <3> QED
        BY <3>4, <3>10
    <2>4. o.kind \in {"admitted", "denied", "error"}
      BY <1>1 DEF Results
    <2> QED
      BY <2>1, <2>2, <2>3, <2>4
  <1>9. /\ owed' \in [Layers \X Subjects -> Nat \union {None}] /\ owed'[x] = w
        /\ \A z \in Layers \X Subjects : z # x => owed'[z] = owed[z]
    BY <1>4, <1>8 DEF TypeOK
  <1>10. /\ told' \in [Layers \X Clients \X (Paths \union {Any}) -> [header : Int, body : Int]]
         /\ told'[y] = t
         /\ \A z \in Layers \X Clients \X (Paths \union {Any}) : z # y => told'[z] = told[z]
    BY <1>4, <1>7, <1>8 DEF TypeOK
  <1>11. ASSUME NEW j \in Layers, NEW d \in Clients, NEW p \in Paths \union {Any},
                NEW u, u = Quota(j, d, p), NEW v, v = <<j, d, p>>
         PROVE  /\ Covered(owed'[u], told'[v].header) /\ Covered(owed'[u], told'[v].body)
                /\ told'[v].header # None \/ told'[v].body # None => TellsPaths(j) \/ p = Any
    <2>1. /\ u \in Layers \X Subjects /\ v \in Layers \X Clients \X (Paths \union {Any})
      BY <1>11, QuotaTyped
    <2>2. /\ Covered(owed[u], told[v].header) /\ Covered(owed[u], told[v].body)
          /\ told[v].header # None \/ told[v].body # None => TellsPaths(j) \/ p = Any
      BY <1>11 DEF ToldCoversOwed
    <2>3. CASE v = y
      <3>1. j = i /\ d = c /\ p = m
        BY <1>3, <1>11, <2>3
      <3>2. u = x
        BY <1>2, <1>11, <3>1
      <3> QED
        BY <1>1, <1>8, <1>9, <1>10, <2>3, <3>1, <3>2
    <2>4. CASE v # y /\ u # x
      BY <1>9, <1>10, <2>1, <2>2, <2>4
    <2>5. CASE v # y /\ u = x
      <3>1. j = i /\ d = c /\ (TellsPaths(j) => p = m)
        <4>1. Quota(j, d, p) = Quota(i, c, m)
          BY <1>2, <1>11, <2>5
        <4> QED
          BY <4>1, QuotasApart
      <3>2. ~(TellsPaths(j) \/ p = Any)
        BY <1>1, <1>3, <1>11, <2>5, <3>1
      <3>3. told[v].header = None /\ told[v].body = None /\ told'[v] = told[v]
        BY <1>10, <2>1, <2>2, <2>5, <3>2
      <3> QED
        BY <3>3 DEF Covered
    <2> QED
      BY <2>3, <2>4, <2>5
  <1>12. ToldCoversOwed'
    <2>1. \A j \in Layers, d \in Clients, p \in Paths \union {Any} :
             /\ Covered(owed'[Quota(j, d, p)], told'[<<j, d, p>>].header)
             /\ Covered(owed'[Quota(j, d, p)], told'[<<j, d, p>>].body)
             /\ told'[<<j, d, p>>].header # None \/ told'[<<j, d, p>>].body # None
                  => TellsPaths(j) \/ p = Any
      BY <1>11
    <2> QED
      BY <1>1, <2>1, CoveredNext
  <1> QED
    BY <1>9, <1>10, <1>12

-----------------------------------------------------------------------------
(* The two invariants of the chain, for one client. *)
Way(c) ==
    /\ pc[c] = "asking" =>
         /\ request[c] \in Sent(c, want[c]) /\ at[c] \in Layers
         /\ passed[c] = 1..(at[c] - 1)
         /\ response[c].status = "none" /\ response[c].retry = None
    /\ pc[c] # "idle" => want[c] \in Paths

Outcome(c) ==
    (pc[c] # "asking" /\ response[c].status # "none") =>
        /\ (response[c].status = "served") <=> (passed[c] = Layers)
        /\ response[c].status # "served" => passed[c] = 1..(at[c] - 1)
        /\ response[c].retry # None => response[c].status = "denied"

LEMMA WayNext ==
  ASSUME NEW c,
         /\ pc'[c] = "asking" =>
              /\ request'[c] \in Sent(c, want'[c]) /\ at'[c] \in Layers'
              /\ passed'[c] = 1..(at'[c] - 1)
              /\ response'[c].status = "none" /\ response'[c].retry = None
         /\ pc'[c] # "idle" => want'[c] \in Paths
  PROVE  Way(c)'
  BY DEF Way

LEMMA OutcomeNext ==
  ASSUME NEW c,
         (pc'[c] # "asking" /\ response'[c].status # "none") =>
            /\ (response'[c].status = "served") <=> (passed'[c] = Layers')
            /\ response'[c].status # "served" => passed'[c] = 1..(at'[c] - 1)
            /\ response'[c].retry # None => response'[c].status = "denied"
  PROVE  Outcome(c)'
  BY DEF Outcome

(* The request goes on exactly if it was admitted. *)
LEMMA ChainKept ==
  ASSUME IInv, NEW c \in Clients, NEW o, NEW r, NEW i, NEW m, Handled(c, o, r, i, m)
  PROVE  /\ pc' \in [Clients -> {"idle", "asking", "refused"}]
         /\ request' \in [Clients -> Requests \union {NoRequest}]
         /\ at' \in [Clients -> Nat]
         /\ response' \in [Clients -> Responses]
         /\ passed' \in [Clients -> SUBSET Nat]
         /\ OnItsWay' /\ ServedIffAdmitted'
  <1> USE DEF IInv
  <1>1. /\ cfg \in Configs /\ pc[c] = "asking" /\ i \in Layers /\ i = at[c] /\ o \in Results
        /\ r = Reply(response[c], i, o) /\ UNCHANGED <<cfg, want>>
        /\ passed' = IF o.kind = "admitted" THEN [passed EXCEPT ![c] = @ \union {i}] ELSE passed
    BY DEF Handled, TypeOK
  <1>2. PICK n \in Nat : n = Len(cfg.layers) /\ n # 0
    BY <1>1, Chosen
  <1>3. i \in 1..n /\ Layers = 1..n /\ i \in Nat
    BY <1>1, <1>2 DEF Layers
  <1>4. /\ request[c] \in Sent(c, want[c]) /\ passed[c] = 1..(i - 1)
        /\ response[c].status = "none" /\ response[c].retry = None /\ want[c] \in Paths
    BY <1>1 DEF OnItsWay
  <1>5. PICK k : k = o.kind /\ k \in {"admitted", "denied", "error"}
    BY <1>1 DEF Results
  <1>6. /\ r \in Responses
        /\ r.status = IF k = "admitted" THEN "none" ELSE k
        /\ r.retry # None => k = "denied"
    <2>1. response[c] \in Responses
      BY <1>1 DEF TypeOK, Responses
    <2> QED
      BY <1>1, <1>4, <1>5, <2>1, ReplyFields
  <1>7. Layers' = 1..n
    BY <1>1, <1>3, SameChain
  <1>8. PICK s : s = [r EXCEPT !.status = "served"]
    OBVIOUS
  <1>9. s \in Responses /\ s.status = "served" /\ s.retry = r.retry
    BY <1>6, <1>8 DEF Responses, Statuses
  <1>10. /\ pc \in [Clients -> {"idle", "asking", "refused"}]
         /\ request \in [Clients -> Requests \union {NoRequest}]
         /\ at \in [Clients -> Nat]
         /\ response \in [Clients -> Responses]
         /\ passed \in [Clients -> SUBSET Nat]
    BY DEF TypeOK, Responses
  <1>11. ASSUME NEW d \in Clients, pc'[d] = pc[d], request'[d] = request[d], at'[d] = at[d],
                response'[d] = response[d], passed'[d] = passed[d]
         PROVE  Way(d)' /\ Outcome(d)'
    <2>1. Way(d) /\ Outcome(d)
      BY <1>11 DEF OnItsWay, ServedIffAdmitted, Way, Outcome
    <2> QED
      BY <1>1, <1>3, <1>7, <1>11, <2>1 DEF Way, Outcome
  <1>12. CASE k = "admitted" /\ i < n
    <2>1. /\ at' = [at EXCEPT ![c] = i + 1] /\ response' = [response EXCEPT ![c] = r]
          /\ UNCHANGED <<pc, request>> /\ passed' = [passed EXCEPT ![c] = passed[c] \union {i}]
      BY <1>1, <1>2, <1>5, <1>12 DEF Handled
    <2>2. 1..i = passed[c] \union {i} /\ i + 1 \in 1..n
      BY <1>3, <1>4, <1>12
    <2>3. /\ pc'[c] = "asking" /\ request'[c] = request[c] /\ at'[c] = i + 1
          /\ response'[c] = r /\ passed'[c] = 1..i
      BY <1>1, <1>10, <2>1, <2>2
    <2>4. Way(c)' /\ Outcome(c)'
      <3>1. at'[c] - 1 = i /\ at'[c] \in Layers' /\ want' = want
        BY <1>1, <1>3, <1>7, <2>2, <2>3
      <3>2. r.status = "none" /\ r.retry = None
        BY <1>5, <1>6, <1>12
      <3> QED
        BY <1>4, <2>3, <3>1, <3>2, WayNext, OutcomeNext
    <2>5. ASSUME NEW d \in Clients, d # c PROVE Way(d)' /\ Outcome(d)'
      BY <1>10, <1>11, <2>1, <2>5
    <2>6. 1..i \in SUBSET Nat /\ i + 1 \in Nat
      BY <1>3
    <2>7. passed' \in [Clients -> SUBSET Nat] /\ at' \in [Clients -> Nat]
      BY <1>10, <2>1, <2>2, <2>6
    <2>8. OnItsWay' /\ ServedIffAdmitted'
      BY <2>4, <2>5 DEF OnItsWay, ServedIffAdmitted, Way, Outcome
    <2> QED
      BY <1>6, <1>10, <2>1, <2>7, <2>8
  <1>13. CASE k = "admitted" /\ i = n
    <2>1. /\ response' = [response EXCEPT ![c] = s] /\ pc' = [pc EXCEPT ![c] = "idle"]
          /\ request' = [request EXCEPT ![c] = NoRequest] /\ UNCHANGED at
          /\ passed' = [passed EXCEPT ![c] = passed[c] \union {i}]
      BY <1>1, <1>2, <1>5, <1>8, <1>13 DEF Handled
    <2>2. 1..i = passed[c] \union {i}
      BY <1>3, <1>4, <1>13
    <2>3. /\ pc'[c] = "idle" /\ response'[c] = s /\ passed'[c] = 1..n /\ s.retry = None
      BY <1>6, <1>9, <1>10, <1>13, <2>1, <2>2
    <2>4. Way(c)' /\ Outcome(c)'
      BY <1>7, <1>9, <2>3, WayNext, OutcomeNext
    <2>5. ASSUME NEW d \in Clients, d # c PROVE Way(d)' /\ Outcome(d)'
      BY <1>10, <1>11, <2>1, <2>5
    <2> QED
      BY <1>3, <1>9, <1>10, <2>1, <2>2, <2>4, <2>5 DEF OnItsWay, ServedIffAdmitted, Way, Outcome
  <1>14. CASE k # "admitted"
    <2>1. /\ response' = [response EXCEPT ![c] = r] /\ pc' = [pc EXCEPT ![c] = "refused"]
          /\ request' = [request EXCEPT ![c] = NoRequest] /\ UNCHANGED <<at, passed>>
      BY <1>1, <1>2, <1>5, <1>14 DEF Handled
    <2>2. /\ pc'[c] = "refused" /\ response'[c] = r /\ passed'[c] = 1..(i - 1) /\ at'[c] = i
      BY <1>1, <1>4, <1>10, <2>1
    <2>3. 1..(i - 1) # 1..n
      <3>1. i \in 1..n /\ i \notin 1..(i - 1)
        BY <1>3
      <3> QED
        BY <3>1
    <2>4. Way(c)' /\ Outcome(c)'
      BY <1>1, <1>4, <1>5, <1>6, <1>7, <1>14, <2>2, <2>3, WayNext, OutcomeNext
    <2>5. ASSUME NEW d \in Clients, d # c PROVE Way(d)' /\ Outcome(d)'
      BY <1>10, <1>11, <2>1, <2>5
    <2> QED
      BY <1>6, <1>10, <2>1, <2>4, <2>5 DEF OnItsWay, ServedIffAdmitted, Way, Outcome
  <1> QED
    BY <1>3, <1>5, <1>12, <1>13, <1>14

LEMMA HandleKeeps ==
  ASSUME IInv, NEW c \in Clients, Handle(c)
  PROVE  IInv'
  <1>1. PICK o, r, i, m : Handled(c, o, r, i, m)
    BY HandleIsHandled
  <1>2. /\ owed' \in [Layers \X Subjects -> Nat \union {None}]
        /\ told' \in [Layers \X Clients \X (Paths \union {Any}) -> [header : Int, body : Int]]
        /\ ToldCoversOwed'
    BY <1>1, ToldKept
  <1>3. /\ pc' \in [Clients -> {"idle", "asking", "refused"}]
        /\ request' \in [Clients -> Requests \union {NoRequest}]
        /\ at' \in [Clients -> Nat]
        /\ response' \in [Clients -> Responses]
        /\ passed' \in [Clients -> SUBSET Nat]
        /\ OnItsWay' /\ ServedIffAdmitted'
    BY <1>1, ChainKept
  <1>4. UNCHANGED <<cfg, want>>
    BY <1>1 DEF Handled
  <1>5. TypeOK'
    <2>1. Layers' = Layers
      BY <1>4, SameChain
    <2>2. cfg' \in Configs /\ want' \in [Clients -> Paths \union {Any}]
      BY <1>4 DEF IInv, TypeOK
    <2> QED
      BY <1>2, <1>3, <2>1, <2>2 DEF TypeOK, Responses
  <1> QED
    BY <1>2, <1>3, <1>5 DEF IInv

(* A step that leaves the debts and what was told of them alone. *)
LEMMA DebtsUntouched ==
  ASSUME IInv, UNCHANGED <<cfg, owed, told>>
  PROVE  ToldCoversOwed' /\ Layers' = Layers
  <1>1. ToldCoversOwed'
    BY CoveredNext DEF IInv, ToldCoversOwed
  <1> QED
    BY <1>1, SameChain

LEMMA SendKeeps ==
  ASSUME IInv, NEW c \in Clients, NEW p \in Paths, Send(c, p)
  PROVE  IInv'
  <1> USE DEF IInv
  <1>1. PICK q \in Sent(c, p) : request' = [request EXCEPT ![c] = q]
    BY DEF Send
  <1>2. /\ want' = [want EXCEPT ![c] = p] /\ at' = [at EXCEPT ![c] = 1]
        /\ passed' = [passed EXCEPT ![c] = {}] /\ pc' = [pc EXCEPT ![c] = "asking"]
        /\ UNCHANGED <<cfg, owed, told>>
    BY DEF Send
  <1>3. PICK n : n = NoResponse /\ response' = [response EXCEPT ![c] = n]
    BY DEF Send
  <1>4. n \in Responses /\ n.status = "none" /\ n.retry = None
    BY <1>3 DEF NoResponse, Responses, Statuses, None
  <1>5. ToldCoversOwed' /\ Layers' = Layers
    BY <1>2, DebtsUntouched
  <1>6. 1 \in Layers /\ 1..(1 - 1) = {}
    <2>1. cfg \in Configs
      BY DEF TypeOK
    <2>2. Len(cfg.layers) \in Nat \ {0}
      BY <2>1, Chosen
    <2> QED
      BY <2>2 DEF Layers
  <1>7. /\ cfg \in Configs /\ pc \in [Clients -> {"idle", "asking", "refused"}]
        /\ want \in [Clients -> Paths \union {Any}]
        /\ request \in [Clients -> Requests \union {NoRequest}]
        /\ at \in [Clients -> Nat] /\ response \in [Clients -> Responses]
        /\ passed \in [Clients -> SUBSET Nat]
    BY DEF TypeOK, Responses
  <1>8. TypeOK'
    <2>1. q \in Requests
      BY DEF Requests
    <2>2. request' \in [Clients -> Requests \union {NoRequest}]
      BY <1>1, <1>7, <2>1
    <2>3. /\ pc' \in [Clients -> {"idle", "asking", "refused"}]
          /\ want' \in [Clients -> Paths \union {Any}]
          /\ at' \in [Clients -> Nat] /\ passed' \in [Clients -> SUBSET Nat]
      BY <1>2, <1>7
    <2>4. response' \in [Clients -> Responses]
      BY <1>3, <1>4, <1>7
    <2>5. /\ owed' \in [Layers \X Subjects -> Nat \union {None}]
          /\ told' \in [Layers \X Clients \X (Paths \union {Any}) -> [header : Int, body : Int]]
      BY <1>2 DEF TypeOK
    <2> QED
      BY <1>2, <1>5, <1>7, <2>2, <2>3, <2>4, <2>5 DEF TypeOK, Responses
  <1>9. ASSUME NEW d \in Clients PROVE Way(d)' /\ Outcome(d)'
    <2>1. CASE d = c
      <3>1. /\ pc'[d] = "asking" /\ request'[d] = q /\ want'[d] = p /\ at'[d] = 1
            /\ passed'[d] = {} /\ response'[d] = n
        BY <1>1, <1>2, <1>3, <1>7, <2>1
      <3> QED
        BY <1>4, <1>5, <1>6, <2>1, <3>1, WayNext, OutcomeNext
    <2>2. CASE d # c
      <3>1. /\ pc'[d] = pc[d] /\ request'[d] = request[d] /\ want'[d] = want[d] /\ at'[d] = at[d]
            /\ passed'[d] = passed[d] /\ response'[d] = response[d]
        BY <1>1, <1>2, <1>3, <1>7, <2>2
      <3>2. Way(d) /\ Outcome(d)
        BY DEF OnItsWay, ServedIffAdmitted, Way, Outcome
      <3> QED
        BY <1>5, <3>1, <3>2 DEF Way, Outcome
    <2> QED
      BY <2>1, <2>2
  <1>10. OnItsWay' /\ ServedIffAdmitted'
    BY <1>9 DEF OnItsWay, ServedIffAdmitted, Way, Outcome
  <1> QED
    BY <1>5, <1>8, <1>10

(* A debt and what was told of it run out together. *)
LEMMA LessCovers ==
  ASSUME NEW o \in Nat \union {None}, NEW t, Covered(o, t)
  PROVE  /\ Less(o) \in Nat \union {None} /\ Covered(Less(o), Less(t))
         /\ Less(t) # None => t # None
  BY DEF Covered, Less, None

LEMMA TickKeeps ==
  ASSUME IInv, Tick
  PROVE  IInv'
  <1> USE DEF IInv
  <1>1. UNCHANGED <<cfg, pc, want, request, at, response, passed>>
    BY DEF Tick
  <1>2. Layers' = Layers
    BY <1>1, SameChain
  <1>3. /\ owed' = [x \in Layers \X Subjects |-> Less(owed[x])]
        /\ told' = [x \in Layers \X Clients \X (Paths \union {Any}) |->
                      [header |-> Less(told[x].header), body |-> Less(told[x].body)]]
    BY DEF Tick, TypeOK
  <1>4. ASSUME NEW o \in Int PROVE Less(o) \in Int
    BY DEF Less
  <1>5. /\ owed' \in [Layers \X Subjects -> Nat \union {None}]
        /\ told' \in [Layers \X Clients \X (Paths \union {Any}) -> [header : Int, body : Int]]
    <2>1. ASSUME NEW o \in Nat \union {None} PROVE Less(o) \in Nat \union {None}
      BY DEF Less, None
    <2>2. owed' \in [Layers \X Subjects -> Nat \union {None}]
      BY <1>3, <2>1 DEF TypeOK
    <2>3. told' \in [Layers \X Clients \X (Paths \union {Any}) -> [header : Int, body : Int]]
      BY <1>3, <1>4 DEF TypeOK
    <2> QED
      BY <2>2, <2>3
  <1>6. TypeOK'
    BY <1>1, <1>2, <1>5 DEF TypeOK
  <1>7. ASSUME NEW i \in Layers, NEW c \in Clients, NEW p \in Paths \union {Any},
               NEW x, x = Quota(i, c, p), NEW y, y = <<i, c, p>>
        PROVE  /\ Covered(owed'[x], told'[y].header) /\ Covered(owed'[x], told'[y].body)
               /\ told'[y].header # None \/ told'[y].body # None => TellsPaths(i) \/ p = Any
    <2>1. x \in Layers \X Subjects /\ y \in Layers \X Clients \X (Paths \union {Any})
      BY <1>7, QuotaTyped
    <2>2. /\ Covered(owed[x], told[y].header) /\ Covered(owed[x], told[y].body)
          /\ told[y].header # None \/ told[y].body # None => TellsPaths(i) \/ p = Any
      BY <1>7 DEF ToldCoversOwed
    <2>3. PICK o, h, b : o = owed[x] /\ h = told[y].header /\ b = told[y].body
      OBVIOUS
    <2>4. owed'[x] = Less(o) /\ told'[y].header = Less(h) /\ told'[y].body = Less(b)
      BY <1>3, <2>1, <2>3
    <2>5. o \in Nat \union {None}
      BY <2>1, <2>3 DEF TypeOK
    <2>6. /\ Covered(Less(o), Less(h)) /\ Covered(Less(o), Less(b))
          /\ Less(h) # None => h # None
          /\ Less(b) # None => b # None
      BY <2>2, <2>3, <2>5, LessCovers
    <2> QED
      BY <2>2, <2>3, <2>4, <2>6
  <1>8. ToldCoversOwed'
    BY <1>1, <1>7, CoveredNext
  <1>9. OnItsWay' /\ ServedIffAdmitted'
    BY <1>1, <1>2 DEF OnItsWay, ServedIffAdmitted
  <1> QED
    BY <1>6, <1>8, <1>9

LEMMA StutterKeeps ==
  ASSUME IInv, UNCHANGED vars
  PROVE  IInv'
  <1> USE DEF IInv
  <1>1. UNCHANGED <<cfg, owed, pc, want, request, at, response, told, passed>>
    BY DEF vars
  <1>2. ToldCoversOwed' /\ Layers' = Layers
    BY <1>1, DebtsUntouched
  <1>3. TypeOK'
    BY <1>1, <1>2 DEF TypeOK
  <1>4. OnItsWay' /\ ServedIffAdmitted'
    BY <1>1, <1>2 DEF OnItsWay, ServedIffAdmitted
  <1> QED
    BY <1>2, <1>3, <1>4

LEMMA InitHolds == Init => IInv
  <1> SUFFICES ASSUME Init PROVE IInv
    OBVIOUS
  <1>1. /\ cfg \in Configs
        /\ owed = [x \in Layers \X Subjects |-> None]
        /\ pc = [c \in Clients |-> "idle"]
        /\ want = [c \in Clients |-> Any]
        /\ request = [c \in Clients |-> NoRequest]
        /\ at = [c \in Clients |-> 0]
        /\ passed = [c \in Clients |-> {}]
    BY DEF Init
  <1>2. PICK n : n = NoResponse /\ response = [c \in Clients |-> n]
    BY DEF Init
  <1>3. n \in Responses /\ n.status = "none"
    BY <1>2 DEF NoResponse, Responses, Statuses, None
  <1>4. PICK t : t = NothingTold /\ told = [x \in Layers \X Clients \X (Paths \union {Any}) |-> t]
    BY DEF Init
  <1>5. t \in [header : Int, body : Int] /\ t.header = None /\ t.body = None
    BY <1>4 DEF NothingTold, None
  <1>6. TypeOK
    BY <1>1, <1>2, <1>3, <1>4, <1>5 DEF TypeOK, Responses
  <1>7. OnItsWay
    BY <1>1 DEF OnItsWay
  <1>8. ServedIffAdmitted
    BY <1>2, <1>3 DEF ServedIffAdmitted
  <1>9. ToldCoversOwed
    <2>1. ASSUME NEW i \in Layers, NEW c \in Clients, NEW p \in Paths \union {Any}
          PROVE  told[<<i, c, p>>].header = None /\ told[<<i, c, p>>].body = None
      BY <1>4, <1>5
    <2>2. ASSUME NEW o PROVE Covered(o, None)
      BY DEF Covered
    <2> QED
      BY <2>1, <2>2 DEF ToldCoversOwed
  <1> QED
    BY <1>6, <1>7, <1>8, <1>9 DEF IInv

LEMMA StepKeeps == IInv /\ [Next]_vars => IInv'
  <1> SUFFICES ASSUME IInv, [Next]_vars PROVE IInv'
    OBVIOUS
  <1>1. ASSUME NEW c \in Clients, Request(c) PROVE IInv'
    <2>1. PICK p \in cfg.paths : Send(c, p)
      BY <1>1 DEF Request
    <2>2. cfg.paths \subseteq Paths
      BY Chosen DEF IInv, TypeOK
    <2> QED
      BY <2>1, <2>2, SendKeeps
  <1>2. ASSUME NEW c \in Clients, Handle(c) PROVE IInv'
    BY <1>2, HandleKeeps
  <1>3. ASSUME NEW c \in Clients, Retry(c) PROVE IInv'
    <2>1. pc[c] = "refused" /\ Send(c, want[c])
      BY <1>3 DEF Retry
    <2>2. want[c] \in Paths
      BY <2>1 DEF IInv, OnItsWay
    <2> QED
      BY <2>1, <2>2, SendKeeps
  <1>4. CASE Tick
    BY <1>4, TickKeeps
  <1>5. CASE UNCHANGED vars
    BY <1>5, StutterKeeps
  <1> QED
    BY <1>1, <1>2, <1>3, <1>4, <1>5 DEF Next

-----------------------------------------------------------------------------
(* A request has passed exactly the layers before the one it is at, and no *)
(* limiter owes a client a longer delay than the client was told (http 74- *)
(* 163, and the chains of gin, echo and fiber).                            *)
THEOREM InductiveInvariant == Spec => []IInv
  BY InitHolds, StepKeeps, PTL DEF Spec

(* Every variable keeps its type: also a response that layer after layer   *)
(* has written to, and the delays, however often they are reported.        *)
THEOREM TypeCorrect == Spec => []TypeOK
  <1>1. IInv => TypeOK
    BY DEF IInv
  <1> QED
    BY <1>1, InductiveInvariant, PTL

(* Behind a chain of any length, in any of the frameworks, the handler     *)
(* runs exactly for the requests that every layer has admitted, and no     *)
(* layer after a refusal is asked (http 138-163, gin 72-99, echo 65-86,    *)
(* fiber 64-84).                                                           *)
THEOREM ServedOnlyIfAdmitted == Spec => []ServedIffAdmitted
  <1>1. IInv => ServedIffAdmitted
    BY DEF IInv
  <1> QED
    BY <1>1, InductiveInvariant, PTL

(* A denial finds a debt that has not run out, and what was told of it has *)
(* not either.                                                             *)
LEMMA DenialOwed ==
  ASSUME IInv, NEW c \in Clients, NEW d \in Clients, Handle(c), Denied(d)
  PROVE  told[Meant(at[d], d)].header # 0 /\ told[Meant(at[d], d)].body # 0
  <1> USE DEF IInv
  <1>1. PICK o, r, i, m : Handled(c, o, r, i, m)
    BY HandleIsHandled
  <1>2. /\ cfg \in Configs /\ pc[c] = "asking" /\ i \in Layers /\ i = at[c] /\ o \in Results
        /\ r = Reply(response[c], i, o) /\ m \in Paths \union {Any}
        /\ Allow(Quota(i, c, m), o)
    BY <1>1 DEF Handled, TypeOK
  <1>3. d = c /\ o.kind # "admitted" /\ response' = [response EXCEPT ![c] = r]
    BY <1>1 DEF Handled, Denied, TypeOK
  <1>4. r.status = o.kind
    <2>1. response[c] \in Responses
      BY DEF TypeOK, Responses
    <2> QED
      BY <1>2, <1>3, <2>1, ReplyFields
  <1>5. o.kind = "denied"
    BY <1>3, <1>4 DEF Denied, TypeOK
  <1>6. owed[Quota(i, c, m)] # 0
    BY <1>2, <1>5 DEF Allow
  <1>7. Meant(i, c) = <<i, c, m>>
    BY <1>1 DEF Handled
  <1>8. /\ Covered(owed[Quota(i, c, m)], told[<<i, c, m>>].header)
        /\ Covered(owed[Quota(i, c, m)], told[<<i, c, m>>].body)
    BY <1>2 DEF ToldCoversOwed
  <1>9. owed[Quota(i, c, m)] \in Nat \union {None}
    BY <1>2, QuotaTyped DEF TypeOK
  <1> QED
    BY <1>2, <1>3, <1>6, <1>7, <1>8, <1>9 DEF Covered, None

(* For any delays of the limiters: who has waited for what a Retry-After   *)
(* header said, or half a second more than the body said, is not denied by *)
(* the same layer for the same quota again, unless it was admitted in      *)
(* between (http 74-121, 159, 250-253).                                    *)
THEOREM AnnouncedDelaysHold == Spec => AnnouncedDelaysKept
  <1> DEFINE A == \A c \in Clients : Denied(c) =>
                    LET t == told[Meant(at[c], c)] IN t.header # 0 /\ t.body # 0
  <1>1. ASSUME IInv, [Next]_vars PROVE [A]_vars
    <2> SUFFICES ASSUME NEW d \in Clients, Denied(d)
                 PROVE  told[Meant(at[d], d)].header # 0 /\ told[Meant(at[d], d)].body # 0
      OBVIOUS
    <2>1. ASSUME NEW c \in Clients, Handle(c)
          PROVE  told[Meant(at[d], d)].header # 0 /\ told[Meant(at[d], d)].body # 0
      BY <1>1, <2>1, DenialOwed
    <2>2. ASSUME NEW c \in Clients, NEW p, Send(c, p) PROVE FALSE
      BY <1>1, <2>2 DEF Send, Denied, IInv, TypeOK
    <2>3. ASSUME NEW c \in Clients, Request(c) \/ Retry(c) PROVE FALSE
      BY <2>2, <2>3 DEF Request, Retry
    <2>4. CASE Tick \/ UNCHANGED vars
      BY <2>4 DEF Tick, vars, Denied
    <2> QED
      BY <1>1, <2>1, <2>3, <2>4 DEF Next
  <1>2. Spec => [][A]_vars
    BY <1>1, InductiveInvariant, PTL DEF Spec
  <1> QED
    BY <1>2 DEF AnnouncedDelaysKept
=============================================================================
