------------------------------- MODULE Setup -------------------------------
(***************************************************************************)
(* What a component does before a request is rendered: it installs its     *)
(* spawner (SpawnerInit), validates its route table (RouteTable), looks up *)
(* a static path (StaticPath) and registers its handlers, which claim the  *)
(* request (HandlerCore).  The four share no state, so a behaviour is one  *)
(* of one of them while the others have not begun.                         *)
(***************************************************************************)
EXTENDS SpawnerInit, StaticPath, RouteTable, HandlerCore

VARIABLE part  \* which of the four the behaviour is about

setupVars == <<spawnerVars, pathVars, routeVars, vars, part>>

NoPath ==
    /\ raw = <<>> /\ decoded = <<>> /\ probe = <<>>
    /\ passes = 0 /\ verdict = "none" /\ key = <<>>

NoRoutes ==
    /\ listings = <<>> /\ excluded = {} /\ entries = <<>>
    /\ seen = {} /\ table = <<>> /\ outcome = "idle"

NoCalls ==
    /\ app = <<>> /\ rejected = FALSE
    /\ next = [m \in Methods |-> 1]
    /\ phase = [m \in Methods |-> "idle"]
    /\ selection = [m \in Methods |-> Unclaimed]
    /\ router = [m \in Methods |-> "empty"]
    /\ registered = [m \in Methods |-> FALSE]
    /\ reply = [m \in Methods |-> NoReply]

SetupInit ==
    /\ SpawnerInit
    /\ \/ part = "spawner" /\ NoPath /\ NoRoutes /\ NoCalls
       \/ part = "static" /\ PathInit /\ NoRoutes /\ NoCalls
       \/ part = "routes" /\ NoPath /\ RouteInit /\ NoCalls
       \/ part = "handlers" /\ NoPath /\ NoRoutes /\ Init

Others(own) ==
    /\ own # "spawner" => UNCHANGED spawnerVars
    /\ own # "static" => UNCHANGED pathVars
    /\ own # "routes" => UNCHANGED routeVars
    /\ own # "handlers" => UNCHANGED vars

SetupNext ==
    /\ \/ part = "spawner" /\ SpawnerNext /\ Others("spawner")
       \/ part = "static" /\ PathNext /\ Others("static")
       \/ part = "routes" /\ RouteNext /\ Others("routes")
       \/ part = "handlers" /\ Next /\ Others("handlers")
    /\ UNCHANGED part

SetupSpec == SetupInit /\ [][SetupNext]_setupVars

-----------------------------------------------------------------------------
(* The instance TLC checks *)

SomeRawBytes ==
    {"2", "3", "5", "a", "e", "f", ".", "/", ":", "\\", "%", "%25", "%2f", "%a2", "%e2"}

\* Any few units, and more of those that spell the bytes of one character.
MaxUnits == 5
MaxSpelled == 4
ByteSpellings ==
    {<<"%e2">>, <<"%a2">>} \cup {<<"%25", high, "2">> : high \in {"a", "e", "f"}}
        \cup {<<"%25", "2", "5", high, "2">> : high \in {"a", "e"}}
SomeRawPaths ==
    UNION {[1..n -> SomeRawBytes \ {"%a2", "%e2"}] : n \in 0..MaxUnits}
        \cup {FlattenSeq(s) : s \in UNION {[1..n -> ByteSpellings] : n \in 0..MaxSpelled}}
SomeSegments ==
    {Static("a"), Param("x"), Param("y"), OptionalParam("x"), Splat, Malformed}
=============================================================================
