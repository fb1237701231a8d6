----------------------------- MODULE Middleware -----------------------------
(***************************************************************************)
(* The middleware for net/http, gin, echo and fiber, between clients and a *)
(* handler.                                                                *)
(*                                                                         *)
(* A request passes a chain of layers, each a RateLimit or a               *)
(* RateLimitByResource with a limiter of its own, and is served if all of  *)
(* them admit it.  A refused client is told how long to wait, in whole     *)
(* seconds: by the Retry-After header, rounded up, and by the body of the  *)
(* default answer, rounded to the nearest.  The limiters are the subject   *)
(* of other modules; here each is the contract of core.Limiter for every   *)
(* key.  All delays are what is left of them, so time needs no bound.      *)
(***************************************************************************)
EXTENDS TTLCell, Sequences

CONSTANTS
    Clients,    \* their addresses
    Proxies,    \* the addresses of proxies on the way
    Paths,      \* the paths of requests
    Second,     \* in units of time; the limiters' durations are finer than seconds
    Configs     \* the chains to consider

None == -1      \* no delay, no header, no value in a body
Any  == ""      \* no address, no path, no resource

ASSUME EnvironmentAssumption ==
    /\ Any \notin Clients \union Proxies \union Paths
    /\ Second \in Nat \ {0} /\ Second % 2 = 0

ASSUME ConfigsAssumption ==
    \A c \in Configs :
        /\ c.framework \in {"http", "gin", "echo", "fiber"}
        /\ c.layers # <<>>
        /\ c.layers \in Seq([key : {"ip", "header", "path"},
                             byResource : BOOLEAN,      \* RateLimitByResource
                             headers : BOOLEAN,         \* SetHeaders (net/http only)
                             custom : BOOLEAN])         \* own denied and error handlers
        /\ c.clients \subseteq Clients /\ c.paths \subseteq Paths
        /\ c.delays \subseteq Nat                         \* of the RetryAfter of the limiters
        /\ {c.mayFail, c.obedient} \subseteq BOOLEAN

VARIABLES
    cfg,        \* the chain, chosen at the start
    owed,       \* the limiters: the time until a denied key can count on admission
    pc,         \* "idle", "asking" or "refused"
    want,       \* the path each client is after
    request,    \* its request under way
    at,         \* the layer that has reached
    response,   \* what has been written of its response
    told,       \* (history) what is left of the shortest delay a client was told since
                \* its last admission, by the header and by the body
    passed      \* (history) the layers that have admitted the request

vars == <<cfg, owed, pc, want, request, at, response, told, passed>>

Delays  == cfg.delays
Layers  == 1..Len(cfg.layers)
Layer(i) == cfg.layers[i]

Addresses == Clients \union Proxies \union {Any}
Subjects  == (Paths \union {Any}) \X Addresses \X (Paths \union {Any})

Statuses == {"none", "served", "denied", "error"}

NoResponse == [status |-> "none", limit |-> 0, retry |-> None, body |-> None]
NoRequest  == [xff |-> <<>>, realIP |-> Any, remote |-> Any, apiKey |-> Any, path |-> Any]
NothingTold == [header |-> None, body |-> None]

(* The honest ways of a request: straight, through one or two proxies that *)
(* append to X-Forwarded-For, or through one that sets X-Real-Ip.          *)
Sent(c, p) ==
    LET Way(xff, realIP, remote) ==
            [xff |-> xff, realIP |-> realIP, remote |-> remote, apiKey |-> c, path |-> p] IN
    {Way(<<>>, Any, c)}
        \union { Way(<<c>>, Any, x) : x \in Proxies }
        \union { Way(<<c, x>>, Any, x) : x \in Proxies }
        \union { Way(<<>>, c, x) : x \in Proxies }

Requests == UNION { Sent(c, p) : c \in Clients, p \in Paths }

TypeOK ==
    /\ cfg \in Configs
    /\ owed \in [Layers \X Subjects -> Nat \union {None}]
    /\ pc \in [Clients -> {"idle", "asking", "refused"}]
    /\ want \in [Clients -> Paths \union {Any}]
    /\ request \in [Clients -> Requests \union {NoRequest}]
    /\ at \in [Clients -> Nat]
    /\ response \in [Clients -> [status : Statuses, limit : Nat, retry : Int, body : Int]]
    /\ told \in [Layers \X Clients \X (Paths \union {Any}) -> [header : Int, body : Int]]
    /\ passed \in [Clients -> SUBSET Nat]

Init ==
    /\ cfg \in Configs
    /\ owed = [x \in Layers \X Subjects |-> None]
    /\ pc = [c \in Clients |-> "idle"]
    /\ want = [c \in Clients |-> Any]
    /\ request = [c \in Clients |-> NoRequest]
    /\ at = [c \in Clients |-> 0]
    /\ response = [c \in Clients |-> NoResponse]
    /\ told = [x \in Layers \X Clients \X (Paths \union {Any}) |-> NothingTold]
    /\ passed = [c \in Clients |-> {}]

-----------------------------------------------------------------------------
KeyByIP(q) ==
    IF q.xff # <<>> THEN Head(q.xff) ELSE IF q.realIP # Any THEN q.realIP ELSE q.remote

(* ClientIP, RealIP and IP of the frameworks, set up for the proxies. *)
FrameworkIP(q) == q.apiKey

IP(q) == IF cfg.framework = "http" THEN KeyByIP(q) ELSE FrameworkIP(q)

(* KeyFunc: the default, or KeyByHeader, or KeyByPath. *)
KeyFunc(l, q) ==
    CASE l.key = "ip"     -> <<IP(q), Any>>
      [] l.key = "header" -> <<q.apiKey, Any>>
      [] l.key = "path"   -> <<IP(q), q.path>>

(* ResourceFunc: the path, unless it is told otherwise; gin and echo take  *)
(* the pattern of the route instead, and there a path stands for its route *)
(* (gin.go:49-56, echo.go:49-56).                                          *)
ResourceFunc(q) == q.path

(* What Allow or AllowResource is called with. *)
Subject(l, q) ==
    <<IF l.byResource THEN ResourceFunc(q) ELSE Any, KeyFunc(l, q)[1], KeyFunc(l, q)[2]>>

(* What core.Limiter promises: a denied key that waits for RetryAfter is   *)
(* admitted, unless another call was admitted meanwhile.                   *)
Allow(x, o) ==
    \/ /\ o = [kind |-> "admitted", retryAfter |-> 0]
       /\ owed' = [owed EXCEPT ![x] = None]
    \/ /\ owed[x] # 0
       /\ \E d \in Delays :
            /\ o = [kind |-> "denied", retryAfter |-> d]
            /\ owed' = [owed EXCEPT ![x] = IF d > 0 /\ (@ = None \/ d < @) THEN d ELSE @]
    \/ /\ cfg.mayFail
       /\ o = [kind |-> "error", retryAfter |-> 0]
       /\ UNCHANGED owed

Results == [kind : {"admitted", "denied", "error"}, retryAfter : Delays \union {0}]

(* Mutant: the header is truncated. *)
TruncatedSeconds(d) == d \div Second

(* int(math.Ceil(d.Seconds())) *)
CeilSeconds(d) == (d + Second - 1) \div Second

(* fmt.Sprintf("%.0fs", d.Seconds()): the nearest, and from the middle the *)
(* even one.                                                               *)
NearestSecond(d) == Float64(d, Second) \div Second

shouldSetHeaders(l) == cfg.framework # "http" \/ l.headers

(* RateLimit-Limit and -Remaining of layer i replace those of the layers   *)
(* before it; Retry-After only if the request is denied.                   *)
setRateLimitHeaders(r, i, o) ==
    [r EXCEPT !.limit = i,
              !.retry = IF o.kind = "denied" /\ o.retryAfter > 0 THEN CeilSeconds(o.retryAfter) ELSE @]

(* Mutant: the refusal is written for every result. *)
ReplyAlways(r, i, o) == [r EXCEPT !.status = o.kind, !.body = NearestSecond(o.retryAfter)]

(* What layer i writes; a denied or error handler of its own writes what   *)
(* it likes into the body.                                                 *)
Reply(r, i, o) ==
    LET h == IF o.kind # "error" /\ shouldSetHeaders(Layer(i)) THEN setRateLimitHeaders(r, i, o) ELSE r IN
    IF o.kind = "admitted" THEN h
    ELSE [h EXCEPT !.status = o.kind,
                   !.body = IF o.kind = "denied" /\ ~Layer(i).custom
                            THEN NearestSecond(o.retryAfter) ELSE None]

(* Mutants: no Abort after a handler of the user's own, Abort always. *)
ginForgetsAbort(l, o) == o.kind # "admitted" /\ ~l.custom
ginAlwaysAborts(l, o) == TRUE

(* A layer of net/http, echo and fiber calls the next handler itself, as   *)
(* its last statement; gin runs it when the layer has returned, unless the *)
(* layer has aborted the chain.                                            *)
httpCallsNext(o)  == o.kind = "admitted"
echoCallsNext(o)  == o.kind = "admitted"
fiberCallsNext(o) == o.kind = "admitted"
ginAborts(l, o)   == o.kind # "admitted"

GoesOn(l, o) ==
    CASE cfg.framework = "http"  -> httpCallsNext(o)
      [] cfg.framework = "echo"  -> echoCallsNext(o)
      [] cfg.framework = "fiber" -> fiberCallsNext(o)
      [] cfg.framework = "gin"   -> ~ginAborts(l, o)

-----------------------------------------------------------------------------
Shorter(old, d) == IF d = None \/ (old # None /\ old < d) THEN old ELSE d

(* The quota a client's request counts for in layer i, whatever its way. *)
Meant(i, c) ==
    <<i, c, IF Layer(i).byResource \/ Layer(i).key = "path" THEN want[c] ELSE Any>>

(* What a client knows after it has been answered; a body rounded down is  *)
(* half a second short at most.                                            *)
Told(t, r, o) ==
    CASE o.kind = "admitted" -> NothingTold
      [] o.kind = "error"    -> t
      [] o.kind = "denied"   ->
           [header |-> Shorter(t.header, IF r.retry = None THEN None ELSE r.retry * Second),
            body   |-> Shorter(t.body, IF r.body = None \/ o.retryAfter = 0 THEN None
                                       ELSE r.body * Second + Second \div 2)]

(* The next layer of the chain handles the request of c. *)
Handle(c) ==
    LET i == at[c]
        l == Layer(i) IN
    /\ pc[c] = "asking"
    /\ \E o \in Results :
         LET r == Reply(response[c], i, o) IN
         /\ Allow(<<i, Subject(l, request[c])>>, o)
         /\ passed' = IF o.kind = "admitted" THEN [passed EXCEPT ![c] = @ \union {i}] ELSE passed
         /\ told' = [told EXCEPT ![Meant(i, c)] = Told(@, r, o)]
         /\ \/ /\ GoesOn(l, o) /\ i < Len(cfg.layers)
               /\ at' = [at EXCEPT ![c] = i + 1]
               /\ response' = [response EXCEPT ![c] = r]
               /\ UNCHANGED <<pc, request>>
            \/ /\ GoesOn(l, o) /\ i = Len(cfg.layers)
               /\ response' = [response EXCEPT ![c] = [r EXCEPT !.status = "served"]]
               /\ pc' = [pc EXCEPT ![c] = "idle"]
               /\ request' = [request EXCEPT ![c] = NoRequest]
               /\ UNCHANGED at
            \/ /\ ~GoesOn(l, o)
               /\ response' = [response EXCEPT ![c] = r]
               /\ pc' = [pc EXCEPT ![c] = "refused"]
               /\ request' = [request EXCEPT ![c] = NoRequest]
               /\ UNCHANGED at
    /\ UNCHANGED <<cfg, want>>

Send(c, p) ==
    /\ want' = [want EXCEPT ![c] = p]
    /\ \E q \in Sent(c, p) : request' = [request EXCEPT ![c] = q]
    /\ at' = [at EXCEPT ![c] = 1]
    /\ response' = [response EXCEPT ![c] = NoResponse]
    /\ passed' = [passed EXCEPT ![c] = {}]
    /\ pc' = [pc EXCEPT ![c] = "asking"]
    /\ UNCHANGED <<cfg, owed, told>>

Request(c) ==
    /\ c \in cfg.clients
    /\ pc[c] = "idle" \/ (pc[c] = "refused" /\ ~cfg.obedient)
    /\ \E p \in cfg.paths : Send(c, p)

(* An obedient client that was refused waits as long as the layer said,    *)
(* and asks for the same again.                                            *)
Retry(c) ==
    /\ cfg.obedient
    /\ pc[c] = "refused"
    /\ told[Meant(at[c], c)].header \in {0, None}
    /\ Send(c, want[c])

Less(d) == IF d > 0 THEN d - 1 ELSE d

Tick ==
    /\ owed' = [x \in DOMAIN owed |-> Less(owed[x])]
    /\ told' = [x \in DOMAIN told |-> [header |-> Less(told[x].header), body |-> Less(told[x].body)]]
    /\ UNCHANGED <<cfg, pc, want, request, at, response, passed>>

Next ==
    \/ \E c \in Clients : Request(c) \/ Handle(c) \/ Retry(c)
    \/ Tick

Spec == Init /\ [][Next]_vars

(* Requests are handled, time passes, and a refused client tries again. *)
FairSpec == Spec /\ WF_vars(Tick) /\ \A c \in Clients : WF_vars(Handle(c)) /\ WF_vars(Retry(c))

-----------------------------------------------------------------------------
(* A request is served exactly if every layer admitted it, and the layer   *)
(* that refuses it is the last one to be asked: the handler never runs     *)
(* after a refusal, also of a handler of the user's own, and the quota of  *)
(* later layers is not touched.  A delay is announced only by a denial     *)
(* (http 138-163, gin 72-99, echo 65-86, fiber 64-84).                     *)
ServedIffAdmitted ==
    \A c \in Clients : (pc[c] # "asking" /\ response[c].status # "none") =>
        /\ (response[c].status = "served") <=> (passed[c] = Layers)
        /\ response[c].status # "served" => passed[c] = 1..(at[c] - 1)
        /\ response[c].retry # None => response[c].status = "denied"

Denied(c) == pc[c] = "asking" /\ pc'[c] = "refused" /\ response'[c].status = "denied"

(* The announced delays are kept in the client's units: with no admission  *)
(* in between, nobody who has waited for the seconds of a Retry-After      *)
(* header, or for half a second more than the body said, is denied by the  *)
(* same layer again, whatever the way of the two requests                  *)
(* (http 74-121, 159, 250-253).                                            *)
AnnouncedDelaysKept ==
    [][ \A c \in Clients : Denied(c) =>
          LET t == told[Meant(at[c], c)] IN t.header # 0 /\ t.body # 0 ]_vars

(* A client that waits as long as Retry-After says is served in the end,   *)
(* also behind two limiters, of which the first counts every attempt that  *)
(* the second denies (http 133-254).                                       *)
ObedientClientServed ==
    cfg.obedient => \A c \in Clients : (pc[c] # "idle") ~> (pc[c] = "idle")
=============================================================================
