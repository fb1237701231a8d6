------------------------------ MODULE MCRouter ------------------------------
(* Small instances of ResourceRouter and of Construction for TLC.  The two *)
(* share no state, so a behaviour is one of the one or of the other: the   *)
(* interleavings of both would show nothing more.                          *)
EXTENDS ResourceRouter, Construction, TLC

-----------------------------------------------------------------------------
(* ResourceRouter.                                                         *)

(* Names and keys that are the same string when only a colon is between    *)
(* them: "a" and ":b", "a:" and "b".                                       *)
CheckedNames == {<<"a">>, <<"a", ":">>}
CheckedKeys  == {<<"b">>, <<":", "b">>}

(* One configured resource, and the default policy for the other name. *)
Router(redis) ==
    [redis |-> redis, default |-> 2,
     resources |-> (<<"a">> :> 1), maxCalls |-> 4]
CheckedConfigs == {Router(FALSE), Router(TRUE)}

-----------------------------------------------------------------------------
(* Construction.                                                           *)

Policy(limit, window) == [limit |-> limit, window |-> window, parses |-> TRUE]
Garbled == [limit |-> 1, window |-> 0, parses |-> FALSE]

Doc(strategy, url, default, resources) ==
    [strategy |-> strategy, redisURL |-> url, failOpen |-> url = "url", metrics |-> "nil",
     default |-> default, resources |-> resources]

(* What a file without fields of its own decodes to. *)
Zero == Doc("", "", Garbled, <<>>)

(* Valid and invalid documents: a zero limit, a window that does not       *)
(* parse, an empty name, an unknown strategy, a URL that is none.          *)
Docs ==
    { Doc(s, u, Policy(2, 3), "login" :> Policy(1, 4)) :
        s \in {"fixed_window", "token_bucket", "unknown"}, u \in {"", "url", "malformed"} }
    \union { Doc("token_bucket", "", p, "login" :> q) :
               p \in {Policy(2, 3), Policy(0, 3)}, q \in {Policy(1, 4), Policy(1, 0), Garbled} }
    \union {Doc("leaky_bucket", "", Policy(2, 3), "" :> Policy(1, 4))}

(* The envelope with and without fields beside it. *)
File(ext, top, envelope, gorl) ==
    [readable |-> TRUE, ext |-> ext, parses |-> TRUE,
     top |-> top, envelope |-> envelope, gorl |-> gorl]

CheckedFiles ==
    { File(".json", d, FALSE, Zero) : d \in Docs }
    \union { File(".yaml", Zero, TRUE, e) : e \in { x \in Docs : x.redisURL # "malformed" /\ ~Parses(x) } }
    \union { File(".yaml", d, TRUE, Doc("token_bucket", "url", Policy(2, 3), "login" :> Policy(1, 4))) :
               d \in {Zero, Doc("fixed_window", "", Policy(5, 5), <<>>)} }
    \union {File(".toml", Zero, FALSE, Zero)}
    \union { [File(".yml", d, FALSE, Zero) EXCEPT !.readable = r, !.parses = ~r] :
               r \in BOOLEAN, d \in {CHOOSE x \in Docs : TRUE} }

CheckedLiterals ==
    { [d EXCEPT !.metrics = "own"] :
        d \in { x \in Docs : Parses(x) /\ x.redisURL = "" /\ x.strategy # "fixed_window" } }

-----------------------------------------------------------------------------
(* Nothing is built yet, respectively no call of the router was made yet. *)
NothingBuilt == held = {} /\ stores = <<>>
NothingCalled == calls = 0

RouterInvoke(t) == NothingBuilt /\ Invoke(t) /\ UNCHANGED buildVars
RouterStep(t)   == Step(t) /\ UNCHANGED buildVars
Build           == NothingCalled /\ ~cfg.redis /\ BuildNext /\ UNCHANGED vars

EitherNext == Build \/ \E t \in Threads : RouterInvoke(t) \/ RouterStep(t)

EitherInit == Init /\ BuildInit

EitherSpec ==
    /\ EitherInit
    /\ [][EitherNext]_<<vars, buildVars>>
    /\ \A t \in Threads : WF_<<vars, buildVars>>(RouterStep(t))
=============================================================================
