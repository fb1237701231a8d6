---------------------------- MODULE MCMiddleware ----------------------------
(* Small instances of Middleware for TLC. *)
EXTENDS Middleware

Layer1(key, byResource) == [key |-> key, byResource |-> byResource, headers |-> TRUE, custom |-> FALSE]

(* Two clients behind proxies, one layer that counts by address. *)
Shared == [framework |-> "http", layers |-> <<Layer1("ip", FALSE)>>,
           clients |-> Clients, paths |-> {"/a"}, delays |-> {2, 3},
           mayFail |-> TRUE, obedient |-> FALSE]

(* Handlers of the user's own, on limiters that fail. *)
Custom(f) == [framework |-> f,
              layers |-> <<[Layer1("header", FALSE) EXCEPT !.custom = TRUE],
                           [Layer1("path", FALSE) EXCEPT !.custom = TRUE, !.headers = FALSE]>>,
              clients |-> {"c1"}, paths |-> IF f = "http" THEN Paths ELSE {"/a"},
              delays |-> {0, 2, 7}, mayFail |-> TRUE, obedient |-> FALSE]

(* A client that obeys, behind a limiter of its address and one of the     *)
(* resource.                                                               *)
Stacked(f) == [framework |-> f, layers |-> <<Layer1("ip", FALSE), Layer1("ip", TRUE)>>,
               clients |-> {"c1"}, paths |-> IF f = "gin" THEN Paths ELSE {"/a"},
               delays |-> {2, 3, 7}, mayFail |-> FALSE, obedient |-> TRUE]

CheckedConfigs == {Shared} \union { Custom(f) : f \in {"http", "gin", "echo", "fiber"} }
                           \union { Stacked(f) : f \in {"http", "gin", "echo", "fiber"} }
=============================================================================
