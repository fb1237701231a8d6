---------------------------- MODULE Construction ----------------------------
(***************************************************************************)
(* From a configuration to a limiter and back: the loader of configuration *)
(* files (config/resource.go), validation (core), New and                  *)
(* NewResourceLimiter (limiter.go), the wrapping of the shared store       *)
(* (resource_limiter.go), and Close.                                       *)
(*                                                                         *)
(* A program loads files or makes configurations itself, builds limiters   *)
(* from them, of which some fail, and closes the others.  Every store it   *)
(* opens is kept on record: an in-memory store runs a collector goroutine, *)
(* a Redis store a pool of connections, until it is closed.                *)
(***************************************************************************)
EXTENDS Integers, Sequences

CONSTANTS
    Resources,  \* resource names
    Files,      \* configuration files
    Literals,   \* configurations that programs make themselves
    MaxStores   \* bound on the number of stores opened

NoName == ""    \* the empty name, which Validate refuses

(* A document, or a configuration: policies for some names and a default.  *)
(* What ParseDuration makes of the text of a window, and whether it can.   *)
PolicyDocs == [limit : Int, window : Int, parses : BOOLEAN]
IsDocument(d) ==
    /\ DOMAIN d = {"strategy", "redisURL", "failOpen", "metrics", "default", "resources"}
    /\ d.redisURL \in {"", "url", "malformed"}
    /\ d.failOpen \in BOOLEAN
    /\ d.metrics \in {"nil", "own"}
    /\ d.default \in PolicyDocs
    /\ DOMAIN d.resources \subseteq Resources \union {NoName}
    /\ \A n \in DOMAIN d.resources : d.resources[n] \in PolicyDocs

(* A file holds fields of its own or, under the key "gorl", an envelope. *)
ASSUME InputsAssumption ==
    /\ MaxStores \in Nat
    /\ \A d \in Literals : IsDocument(d)
    /\ \A f \in Files :
         /\ DOMAIN f = {"readable", "ext", "parses", "top", "envelope", "gorl"}
         /\ {f.readable, f.parses, f.envelope} \subseteq BOOLEAN
         /\ IsDocument(f.top) /\ f.top.metrics = "nil"
         /\ IsDocument(f.gorl) /\ f.gorl.metrics = "nil"

VARIABLES
    held,       \* the configuration the program holds, if any, and where it is from
    stores,     \* every store opened so far
    limiters    \* every limiter built so far

buildVars == <<held, stores, limiters>>

strategyRegistry == {"fixed_window", "token_bucket", "sliding_window", "leaky_bucket"}

-----------------------------------------------------------------------------
(* Pure parts.  A function that can fail returns the set of its results.   *)

(* Mutant: zero passes. *)
validateNotNegative(p) == p.limit >= 0 /\ p.window >= 0

validateLimitWindow(p) == p.limit > 0 /\ p.window > 0

Validate(c) ==
    /\ validateLimitWindow(c.default)
    /\ \A n \in DOMAIN c.resources : n # NoName /\ validateLimitWindow(c.resources[n])

(* toCore: the windows of all policies have to parse, the rest is copied. *)
Parses(d) == d.default.parses /\ \A n \in DOMAIN d.resources : d.resources[n].parses

toCore(d) == IF Parses(d) /\ Validate(d) THEN {d} ELSE {}

Formats == {".json", ".yaml", ".yml"}

(* The envelope replaces the fields beside it. *)
Document(f) == IF f.envelope THEN f.gorl ELSE f.top

LoadResourceConfig(f) ==
    IF f.readable /\ f.ext \in Formats /\ f.parses THEN toCore(Document(f)) ELSE {}

normalizeMetrics(m) == IF m = "nil" THEN "noop" ELSE m

(* Mutant: the wrapper hides EvalScript. *)
wrapWithoutScripts(s) == [id |-> s.id, evalScript |-> FALSE]

(* The shared store without its Close; EvalScript is passed on. *)
wrapSharedStore(s) == [id |-> s.id, evalScript |-> s.evalScript]

resourceConfigToCore(c, p) ==
    [strategy |-> c.strategy, limit |-> p.limit, window |-> p.window,
     failOpen |-> c.failOpen, metrics |-> c.metrics]

(* A constructor of the registry: its fields, and the path that Allow will *)
(* take; the fixed window needs one Incr only and no script.               *)
constructor(cfg, s) ==
    [cfg |-> cfg, store |-> s.id,
     scripted |-> cfg.strategy # "fixed_window" /\ s.evalScript]

Normalized(c) == [c EXCEPT !.metrics = normalizeMetrics(@)]

newResourceRouter(c, s) ==
    [default |-> constructor(resourceConfigToCore(c, c.default), wrapSharedStore(s)),
     named |-> [n \in DOMAIN c.resources |->
                  constructor(resourceConfigToCore(c, c.resources[n]), wrapSharedStore(s))]]

(* newStore: how it can end for a URL. *)
StoreOutcomes(url) ==
    CASE url = ""          -> {"inmem"}
      [] url = "url"       -> {"redis", "unreachable"}
      [] url = "malformed" -> {"refused"}
-----------------------------------------------------------------------------
(* A limiter of one policy, with what its constructor relies on: it        *)
(* divides by the limit, and by the window.                                *)
Policies == [strategy : strategyRegistry, limit : Nat \ {0}, window : Nat \ {0},
             failOpen : BOOLEAN, metrics : {"noop", "own"}]
Limiters == [cfg : Policies, store : Nat, scripted : BOOLEAN]

Stores == [kind : {"inmem", "redis", "unreachable"}, open : BOOLEAN,
           by : {"New", "NewResourceLimiter"}, known : BOOLEAN]

BuildTypeOK ==
    /\ \A h \in held : IsDocument(h.cfg) /\ h.asked \in Files \union Literals
    /\ stores \in Seq(Stores)
    /\ \A i \in 1..Len(limiters) : LET m == limiters[i] IN
         /\ m.asked \in Files \union Literals
         /\ {m.byResource, m.open} \subseteq BOOLEAN
         /\ m.store \in 1..Len(stores)
         /\ m.default \in Limiters
         /\ DOMAIN m.named \subseteq Resources
         /\ \A n \in DOMAIN m.named : m.named[n] \in Limiters

BuildInit ==
    /\ held = {}
    /\ stores = <<>>
    /\ limiters = <<>>

Load(f) ==
    /\ held' = { [cfg |-> c, asked |-> f] : c \in LoadResourceConfig(f) }
    /\ UNCHANGED <<stores, limiters>>

Make(c) ==
    /\ held' = {[cfg |-> c, asked |-> c]}
    /\ UNCHANGED <<stores, limiters>>

Opened(o, by, h) ==
    [kind |-> o, open |-> TRUE, by |-> by, known |-> h.cfg.strategy \in strategyRegistry]

NextStore(o) == [id |-> Len(stores) + 1, evalScript |-> o = "redis"]

(* A limiter comes to the program. *)
Deliver(h, built, byResource) ==
    limiters' = Append(limiters, [asked |-> h.asked, byResource |-> byResource, open |-> TRUE,
                                  store |-> Len(stores) + 1,
                                  default |-> built.default, named |-> built.named])

(* New, with the default policy as its Config.  The store stays open when  *)
(* its strategy is unknown, the client when its Ping fails.                *)
New(h, o) ==
    LET c == Normalized(h.cfg) IN
    /\ Len(stores) < MaxStores
    /\ validateLimitWindow(c.default)
    /\ o \in StoreOutcomes(c.redisURL) \ {"refused"}
    /\ stores' = Append(stores, Opened(o, "New", h))
    /\ IF o # "unreachable" /\ c.strategy \in strategyRegistry
       THEN Deliver(h, [default |-> constructor(resourceConfigToCore(c, c.default), NextStore(o)),
                        named |-> <<>>], FALSE)
       ELSE UNCHANGED limiters
    /\ UNCHANGED held

(* Mutant: the store stays open as in New. *)
NewResourceLimiterKeeping(h, o) ==
    LET c == Normalized(h.cfg) IN
    /\ Len(stores) < MaxStores
    /\ Validate(c)
    /\ o \in StoreOutcomes(c.redisURL) \ {"refused"}
    /\ stores' = Append(stores, Opened(o, "NewResourceLimiter", h))
    /\ IF o # "unreachable" /\ c.strategy \in strategyRegistry
       THEN Deliver(h, newResourceRouter(c, NextStore(o)), TRUE)
       ELSE UNCHANGED limiters
    /\ UNCHANGED held

(* NewResourceLimiter, which closes the store when the strategy is unknown. *)
NewResourceLimiter(h, o) ==
    LET c     == Normalized(h.cfg)
        known == c.strategy \in strategyRegistry IN
    /\ Len(stores) < MaxStores
    /\ Validate(c)
    /\ o \in StoreOutcomes(c.redisURL) \ {"refused"}
    /\ stores' = Append(stores, [Opened(o, "NewResourceLimiter", h) EXCEPT
                                    !.open = known \/ o = "unreachable"])
    /\ IF o # "unreachable" /\ known
       THEN Deliver(h, newResourceRouter(c, NextStore(o)), TRUE)
       ELSE UNCHANGED limiters
    /\ UNCHANGED held

(* Close of a limiter of any kind closes the store it was built with. *)
CloseLimiter(i) ==
    /\ limiters[i].open
    /\ limiters' = [limiters EXCEPT ![i].open = FALSE]
    /\ stores' = [stores EXCEPT ![limiters[i].store].open = FALSE]
    /\ UNCHANGED held

BuildNext ==
    \/ \E f \in Files : Load(f)
    \/ \E c \in Literals : Make(c)
    \/ \E h \in held : \E o \in {"inmem", "redis", "unreachable"} : New(h, o) \/ NewResourceLimiter(h, o)
    \/ \E i \in 1..Len(limiters) : CloseLimiter(i)

BuildSpec == BuildInit /\ [][BuildNext]_buildVars

-----------------------------------------------------------------------------
(* What the program asked for: the envelope of a file that has one. *)
Wanted(a) == IF "envelope" \notin DOMAIN a THEN a ELSE IF a.envelope THEN a.gorl ELSE a.top

(* The limiter that serves a name. *)
Serving(m, n) == IF n \in DOMAIN m.named THEN m.named[n] ELSE m.default

(* The policy asked for a name, and how the limiter that serves it is held *)
(* to it.                                                                  *)
Enforced(m, s, n) ==
    LET d == Wanted(m.asked)
        p == IF m.byResource /\ n \in DOMAIN d.resources THEN d.resources[n] ELSE d.default
        l == Serving(m, n) IN
    /\ l.cfg.limit = p.limit /\ p.limit > 0
    /\ l.cfg.window = p.window /\ p.window > 0
    /\ l.cfg.strategy = d.strategy /\ d.strategy \in strategyRegistry
    /\ l.cfg.failOpen = d.failOpen
    /\ l.cfg.metrics = IF d.metrics = "nil" THEN "noop" ELSE d.metrics
    /\ l.store = m.store
    /\ l.scripted <=> (s.kind = "redis" /\ d.strategy # "fixed_window")

(* Whatever way a configuration took, each limiter enforces exactly the    *)
(* policy asked for the name, a positive one of a known strategy, with the *)
(* FailOpen asked for, and never calls a nil collector; all share the one  *)
(* store that Close will close; and on Redis every strategy that keeps     *)
(* several keys decides in a script, also behind the wrapper of a shared   *)
(* store, whose type hides EvalScript unless it passes it on               *)
(* (resource.go:60-104, limiter.go:25-75, resource_limiter.go:45-94;       *)
(* docs/reference/public-api.md:45-47).                                    *)
InForce ==
    \A i \in 1..Len(limiters) : \A n \in Resources \union {NoName} :
        Enforced(limiters[i], stores[limiters[i].store], n)

(* A store is open only while somebody can close it, through a limiter     *)
(* that is open itself; except for what New leaves behind when it does not *)
(* know the strategy, and a client whose Ping failed                       *)
(* (limiter.go:30-38, 50-61; redis.go:28-34).                              *)
NothingLeftOpen ==
    \A i \in 1..Len(stores) : LET s == stores[i] IN
        s.open <=> \/ \E j \in 1..Len(limiters) : limiters[j].open /\ limiters[j].store = i
                   \/ s.kind = "unreachable"
                   \/ s.by = "New" /\ ~s.known
=============================================================================
