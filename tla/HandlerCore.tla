----------------------------- MODULE HandlerCore -----------------------------
(***************************************************************************)
(* HandlerCore (src/handler/core.rs, render.rs): the registration calls of *)
(* an application claim a request for a server function, an asset or the   *)
(* route table, and render turns the claim into a response.                *)
(*                                                                         *)
(* The same application is run on one request of each method, so that      *)
(* their answers can be compared.  `app' is the sequence of registration   *)
(* calls; a call carries what the application's callbacks do with the      *)
(* request.  A Content-Length header is a set of at most one number.       *)
(* ResponseOptions are left out: the application sets no header with them. *)
(***************************************************************************)
EXTENDS Naturals, Sequences

CONSTANTS
    Methods,    \* methods of the requests compared
    MaxCalls,   \* bound: registration calls of an application
    Size        \* bytes of a body

ASSUME MethodsAssumption == Methods \subseteq {"GET", "HEAD", "POST"}
ASSUME MaxCallsAssumption == MaxCalls \in Nat
ASSUME SizeAssumption == Size \in Nat \ {0}

VARIABLES
    app,         \* the registration calls
    rejected,    \* the request breached a request policy when it was built
    next,        \* the call a request is at
    phase,       \* whether it is registering, refused or answered
    selection,   \* HandlerCore::selection
    router,      \* the SSR router has the application's routes
    registered,  \* HandlerCore::routes_registered
    reply        \* the response of render

vars == <<app, rejected, next, phase, selection, router, registered, reply>>

Response(by, body, length) ==
    [by |-> by, body |-> body, bytes |-> Size, length |-> length]

\* plain_response: the crate's own answers have a synchronous body.
Plain(by) == Response(by, "Sync", {})

Bodies == {"Sync", "Async"}
Lengths == {{}, {Size}}
NoReply == [by |-> "none"]

ServerFnCalls ==
    [call : {"server_fn"}, method : {"GET", "POST"}, path : BOOLEAN,
     body : Bodies]

\* prefix: not a valid one, one that does not match the request, or one that
\* does; key: what normalize_static_path makes of the rest.
StaticCalls ==
    [call : {"static"}, prefix : {"invalid", "other"}]
    \cup [call : {"static"}, prefix : {"matches"}, key : {"invalid", "unknown"}]
    \cup [call : {"static"}, prefix : {"matches"}, key : {"asset"},
          body : Bodies, length : Lengths]

\* generate_routes discovers a table; generate_routes_from has a valid one.  The
\* builder's variants of generate_routes are one call with other arguments.
RouteCalls ==
    [call : {"generate_routes"}, valid : BOOLEAN, serves : BOOLEAN]
    \cup [call : {"generate_routes_from"}, serves : BOOLEAN]

Calls == ServerFnCalls \cup StaticCalls \cup RouteCalls

Unclaimed == [kind |-> "Unclaimed"]
NotFound == [kind |-> "NotFound"]
Preset(response) == [kind |-> "Preset", response |-> response]
ServerFn(response) == [kind |-> "ServerFn", response |-> response]

Replies ==
    [by : {"404", "405", "policy", "static", "server_fn", "ssr"},
     body : Bodies, bytes : {0, Size}, length : {{}, {0}, {Size}}]
Selections ==
    {Unclaimed, NotFound} \cup {Preset(r) : r \in Replies}
                          \cup {ServerFn(r) : r \in Replies}

TypeOK ==
    /\ app \in UNION {[1..n -> Calls] : n \in 0..MaxCalls}
    /\ rejected \in BOOLEAN
    /\ next \in [Methods -> 1..Len(app) + 1]
    /\ phase \in [Methods -> {"registering", "refused", "answered"}]
    /\ selection \in [Methods -> Selections]
    /\ router \in [Methods -> {"empty", "serves", "other"}]
    /\ registered \in [Methods -> BOOLEAN]
    /\ reply \in [Methods -> {NoReply} \cup Replies]

Init ==
    /\ app \in UNION {[1..n -> Calls] : n \in 0..MaxCalls}
    /\ rejected \in BOOLEAN
    /\ next = [m \in Methods |-> 1]
    /\ phase = [m \in Methods |-> "registering"]
    /\ selection = [m \in Methods |->
                       IF rejected THEN Preset(Plain("policy")) ELSE Unclaimed]
    /\ router = [m \in Methods |-> "empty"]
    /\ registered = [m \in Methods |-> FALSE]
    /\ reply = [m \in Methods |-> NoReply]

-----------------------------------------------------------------------------
(* Registration *)

Call(m) == app[next[m]]

Calling(m, names) ==
    /\ phase[m] = "registering"
    /\ next[m] <= Len(app)
    /\ Call(m).call \in names

\* shortcut: an earlier call has claimed the request.
Shortcut(m) == selection[m] # Unclaimed

Continue(m) ==
    /\ next' = [next EXCEPT ![m] = @ + 1]
    /\ UNCHANGED <<app, rejected, phase, reply>>

\* A RegistrationError: the application gives up.
Refuse(m) ==
    /\ phase' = [phase EXCEPT ![m] = "refused"]
    /\ UNCHANGED <<app, rejected, next, selection, router, registered, reply>>

Select(m, choice) ==
    /\ selection' = [selection EXCEPT ![m] = choice]
    /\ UNCHANGED <<router, registered>>
    /\ Continue(m)

Pass(m) == UNCHANGED <<selection, router, registered>> /\ Continue(m)

WithServerFn(m) ==
    /\ Calling(m, {"server_fn"})
    /\ IF ~Shortcut(m) /\ Call(m).method = m /\ Call(m).path
       THEN Select(m, ServerFn(Response("server_fn", Call(m).body, {})))
       ELSE Pass(m)

\* Mutant: the body of a HEAD response is blanked before its length is taken.
BlankedLength(m, asset) ==
    IF asset.length # {} THEN asset.length
    ELSE IF m = "HEAD" THEN {0}
    ELSE IF asset.body = "Sync" THEN {Size} ELSE {}

\* The Content-Length that an asset gets, from the body before HEAD blanks it.
AssetLength(m, asset) ==
    IF asset.length # {} THEN asset.length
    ELSE IF asset.body = "Sync" THEN {Size} ELSE {}

Asset(m, asset) ==
    [by |-> "static",
     body |-> IF m = "HEAD" THEN "Sync" ELSE asset.body,
     bytes |-> IF m = "HEAD" THEN 0 ELSE Size,
     length |-> AssetLength(m, asset)]

StaticChoice(m) ==
    CASE m \notin {"GET", "HEAD"} -> Preset(Plain("405"))
      [] m \in {"GET", "HEAD"} /\ Call(m).key \in {"invalid", "unknown"} -> NotFound
      [] OTHER -> Preset(Asset(m, Call(m)))

\* Mutant: a claimed request skips the validation of the prefix.
StaticUnvalidated(m) ==
    /\ Calling(m, {"static"})
    /\ IF Shortcut(m) THEN Pass(m)
       ELSE CASE Call(m).prefix = "invalid" -> Refuse(m)
              [] Call(m).prefix = "other" -> Pass(m)
              [] Call(m).prefix = "matches" -> Select(m, StaticChoice(m))

\* Mutant: a later prefix takes a claimed request over.
StaticTakesOver(m) ==
    /\ Calling(m, {"static"})
    /\ CASE Call(m).prefix = "invalid" -> Refuse(m)
         [] Call(m).prefix = "other" -> Pass(m)
         [] Call(m).prefix = "matches" -> Select(m, StaticChoice(m))

\* The prefix is validated even if the request is claimed already.
StaticFilesHandler(m) ==
    /\ Calling(m, {"static"})
    /\ IF Call(m).prefix = "invalid" THEN Refuse(m)
       ELSE IF Shortcut(m) \/ Call(m).prefix = "other" THEN Pass(m)
       ELSE Select(m, StaticChoice(m))

Install(m, table) ==
    /\ registered' = [registered EXCEPT ![m] = TRUE]
    /\ router' = [router EXCEPT ![m] = table]
    /\ UNCHANGED selection
    /\ Continue(m)

Table(m) == IF Call(m).serves THEN "serves" ELSE "other"

\* Mutant: skipping the discovery skips the note of it as well.
RoutesSkippedUnnoted(m) ==
    /\ Calling(m, {"generate_routes"})
    /\ IF registered[m] THEN Refuse(m)
       ELSE IF Shortcut(m) THEN Pass(m)
       ELSE IF ~Call(m).valid THEN Refuse(m)
       ELSE Install(m, Table(m))

\* Discovery and validation are skipped for a claimed request.
GenerateRoutes(m) ==
    /\ Calling(m, {"generate_routes"})
    /\ IF registered[m] THEN Refuse(m)
       ELSE IF Shortcut(m) THEN Install(m, router[m])
       ELSE IF ~Call(m).valid THEN Refuse(m)
       ELSE Install(m, Table(m))

GenerateRoutesFrom(m) ==
    /\ Calling(m, {"generate_routes_from"})
    /\ IF registered[m] THEN Refuse(m)
       ELSE Install(m, IF Shortcut(m) THEN router[m] ELSE Table(m))

-----------------------------------------------------------------------------
(* render *)

Rendered(m) ==
    CASE selection[m].kind \in {"Preset", "ServerFn"} -> selection[m].response
      [] selection[m] = Unclaimed /\ router[m] = "serves"
           -> Response("ssr", "Async", {})
      [] OTHER -> Plain("404")

\* Mutant: the length of the body is added to the header.
FinishedAppends(m, r) ==
    [by |-> r.by,
     body |-> IF m = "HEAD" THEN "Sync" ELSE r.body,
     bytes |-> IF m = "HEAD" THEN 0 ELSE r.bytes,
     length |-> IF r.body = "Sync" THEN r.length \cup {r.bytes} ELSE r.length]

\* The length of a synchronous body without one, then HEAD loses its body.
Finished(m, r) ==
    [by |-> r.by,
     body |-> IF m = "HEAD" THEN "Sync" ELSE r.body,
     bytes |-> IF m = "HEAD" THEN 0 ELSE r.bytes,
     length |-> IF r.length = {} /\ r.body = "Sync" THEN {r.bytes} ELSE r.length]

Render(m) ==
    /\ phase[m] = "registering"
    /\ next[m] > Len(app)
    /\ phase' = [phase EXCEPT ![m] = "answered"]
    /\ reply' = [reply EXCEPT ![m] = Finished(m, Rendered(m))]
    /\ UNCHANGED <<app, rejected, next, selection, router, registered>>

Next ==
    \E m \in Methods :
        \/ WithServerFn(m)
        \/ StaticFilesHandler(m)
        \/ GenerateRoutes(m)
        \/ GenerateRoutesFrom(m)
        \/ Render(m)

Spec == Init /\ [][Next]_vars

-----------------------------------------------------------------------------
(* Properties *)

Answered(m) == phase[m] = "answered"
Has(names) == {i \in 1..Len(app) : app[i].call \in names}

\* The call that claims a request first keeps it, whatever is registered later.
FirstClaimStands ==
    [][\A m \in Methods : Shortcut(m) => selection'[m] = selection[m]]_vars

\* A request is answered only by an application whose static prefixes are valid,
\* whose routes are registered at most once and, if the answer comes from the
\* route table, whose table is valid (core.rs:265-266, 376-380).
AnsweredMeansConfigured ==
    \A m \in Methods : Answered(m) =>
        /\ \A i \in Has({"static"}) : app[i].prefix # "invalid"
        /\ \A i, j \in Has({"generate_routes", "generate_routes_from"}) : i = j
        /\ reply[m].by = "ssr" =>
               \A i \in Has({"generate_routes"}) : app[i].valid

\* An application that refuses a request refuses it for every method, unless the
\* fault is in a route table that a claimed request does not need.
SameForEveryMethod ==
    \A m, n \in Methods :
        phase[m] = "refused" /\ Answered(n) =>
            \E i \in Has({"generate_routes"}) : ~app[i].valid

\* HEAD is answered by what answers GET and has no body, unless GET is answered
\* by a server function, which is registered for one method; and it has the
\* Content-Length of GET where GET has a synchronous body (CHANGELOG.md:94-96).
\* Of asynchronous bodies HeadLengthIsOriginal speaks.
HeadAgreesWithGet ==
    {"GET", "HEAD"} \subseteq Methods /\ Answered("GET") /\ Answered("HEAD")
    /\ reply["GET"].by # "server_fn" =>
        /\ reply["HEAD"].by = reply["GET"].by
        /\ reply["HEAD"].bytes = 0
        /\ reply["GET"].body = "Sync" => reply["HEAD"].length = reply["GET"].length

\* "HEAD responses compute Content-Length from the original Body::Sync before
\* the body is blanked" (CHANGELOG.md:94-95): never from the blanked body.
HeadLengthIsOriginal ==
    "HEAD" \in Methods /\ Answered("HEAD") => reply["HEAD"].length # {0}
=============================================================================
