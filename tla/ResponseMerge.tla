--------------------------- MODULE ResponseMerge ---------------------------
(***************************************************************************)
(* How the status and the headers of an answer come together: what the     *)
(* application writes to ResponseOptions while it renders (src/response.rs *)
(* and src/utils.rs), the redirect policy for server functions             *)
(* (src/handler/server_fns.rs, http_util.rs), from_app, which merges the   *)
(* options when it has the first chunk (src/integration.rs), and the tail  *)
(* of HandlerCore::render (src/handler/render.rs).                         *)
(*                                                                         *)
(* Four headers stand for the others: one that is list-valued, the         *)
(* Location, and two that the crate gives a default.  A Location is        *)
(* "local" (a path), "remote" (a URL of another origin), "broken" (not a   *)
(* URL, or with a backslash) or what the sanitizer makes of these.         *)
(***************************************************************************)
EXTENDS Naturals, FiniteSets, Sequences, SequencesExt

CONSTANTS
    Targets,    \* what redirects and referrers may point to
    Values,     \* values of the other headers
    Statuses,   \* statuses a server function or an application chooses
    MaxWrites   \* bound: writes to the options

ASSUME TargetsAssumption == Targets \subseteq {"local", "remote", "broken"}
ASSUME StatusesAssumption == Statuses \subseteq 200..599
ASSUME MaxWritesAssumption == MaxWrites \in Nat

VARIABLES
    request,   \* what the headers of the request say
    source,    \* Selection, and what its response is made from
    stage,     \* "rendering", "streaming" or "sent"
    options,   \* ResponseOptions
    written,   \* the writes to it so far
    response   \* the response, once there is one

mergeVars == <<request, source, stage, options, written, response>>

Names == {"Set-Cookie", "Location", "Content-Type", "X-Content-Type-Options"}
ListValued == {"Set-Cookie"}
ValuesOf(name) == IF name = "Location" THEN Targets ELSE Values

NoHeaders == [name \in Names |-> <<>>]
NoStatus == 0
Parts(status, headers) == [status |-> status, headers |-> headers]
NoResponse == Parts(NoStatus, NoHeaders)

Success(status) == status \in 200..299
Redirection(status) == status \in 300..399

SsrModes == {"Async", "Static", "InOrder", "PartiallyBlocked", "OutOfOrder"}

\* render_mode: whether the application is collected before its first chunk, or
\* its chunks are sent as they come, in order or not.
RenderMode(mode, islands) ==
    CASE mode \in {"Async", "Static"} -> "collected"
      [] mode = "InOrder" -> "in_order"
      [] OTHER -> IF islands THEN "in_order" ELSE "out_of_order"

-----------------------------------------------------------------------------
(* The request and what answers it *)

\* accepts_html, and the Referer with its other spelling mirrored into it.
Requests ==
    [html : BOOLEAN, islands : BOOLEAN,
     referer : {{}} \cup {{t} : t \in Targets},
     referrer : {{}} \cup {{t} : t \in Targets}]

Mirrored(r) == IF r.referer # {} THEN r.referer ELSE r.referrer

Headers(location, cookie) ==
    [NoHeaders EXCEPT !["Location"] = location, !["Set-Cookie"] = cookie]

Locations == {<<>>} \cup {<<t>> : t \in Targets}

\* A route (none is static: see RouteTable), a server function with its response
\* (413 if the request is larger than its limit), a response that was there
\* before, or nothing.
Sources ==
    [kind : {"ssr"}, mode : SsrModes \ {"Static"}]
    \cup [kind : {"server_fn"},
          own : {Parts(s, Headers(l, <<"own">>)) : s \in Statuses, l \in Locations}
                \cup {Parts(413, NoHeaders)}]
    \cup [kind : {"preset"}, own : {Parts(200, NoHeaders), Parts(405, NoHeaders)}]
    \cup [kind : {"not_found"}]

\* A request is looked at only where its fields matter.
MergeInit ==
    /\ request \in Requests
    /\ source \in Sources
    /\ source.kind # "ssr" => ~request.islands
    /\ source.kind # "server_fn" => request.referer = {} /\ request.referrer = {}
    /\ stage = "rendering"
    /\ options = NoResponse
    /\ written = <<>>
    /\ response = NoResponse

-----------------------------------------------------------------------------
(* The application *)

\* The options are in the context of routes and server functions.
MayWrite ==
    /\ source.kind \in {"ssr", "server_fn"}
    /\ stage \in {"rendering", "streaming"}
    /\ Len(written) < MaxWrites

Write(w, parts) ==
    /\ MayWrite
    /\ written' = Append(written, [write |-> w, late |-> stage # "rendering"])
    /\ options' = parts
    /\ UNCHANGED <<request, source, stage, response>>

SetStatus(s) ==
    Write([op |-> "status", status |-> s], [options EXCEPT !.status = s])

InsertHeader(name, v) ==
    Write([op |-> "insert", name |-> name, value |-> v],
          [options EXCEPT !.headers[name] = <<v>>])

AppendHeader(name, v) ==
    Write([op |-> "append", name |-> name, value |-> v],
          [options EXCEPT !.headers[name] = Append(@, v)])

\* overwrite: nothing that was written before is left.
Overwrite(s, name, v) ==
    Write([op |-> "overwrite", status |-> s, name |-> name, value |-> v],
          Parts(s, [NoHeaders EXCEPT ![name] = <<v>>]))

\* redirect: a Location in any case, a status only for a browser.  The header
\* that tells another client of the redirect is left out.
Redirect(t) ==
    Write([op |-> "redirect", value |-> t],
          Parts(IF request.html THEN 302 ELSE options.status,
                [options.headers EXCEPT !["Location"] = <<t>>]))

\* redirect: a path that is no header value.
RedirectInvalid ==
    Write([op |-> "status", status |-> 400], [options EXCEPT !.status = 400])

AppWrites ==
    \/ \E s \in Statuses : SetStatus(s)
    \/ \E name \in Names : \E v \in ValuesOf(name) :
           InsertHeader(name, v) \/ AppendHeader(name, v)
    \/ \E v \in Values : \E s \in Statuses : Overwrite(s, "Set-Cookie", v)
    \/ \E t \in Targets : Redirect(t)
    \/ RedirectInvalid

-----------------------------------------------------------------------------
(* Server functions *)

\* sanitize_referrer: a path on this origin, or "/".
Sanitized(t) ==
    CASE t = "local" -> "local"
      [] t = "remote" -> "path of remote"
      [] OTHER -> "/"

\* Mutant: a failed server function goes back to its form as well.
PromotesErrors(r, own) ==
    /\ r.html
    /\ own.headers["Location"] = <<>>
    /\ Mirrored(r) # {}

Promoted(r, own) ==
    /\ r.html
    /\ Success(own.status) \/ Redirection(own.status)
    /\ own.headers["Location"] = <<>>
    /\ Mirrored(r) # {}

\* Mutant: only the referrer is sanitized.
ReferrerApplied(r, own) ==
    IF Promoted(r, own)
    THEN Parts(302, [own.headers EXCEPT !["Location"] =
                         <<Sanitized(CHOOSE t \in Mirrored(r) : TRUE)>>])
    ELSE own

\* apply_server_fn_redirect: back to the form, or to where the function says.
RedirectApplied(r, own) ==
    IF Promoted(r, own)
    THEN Parts(302, [own.headers EXCEPT !["Location"] =
                         <<Sanitized(CHOOSE t \in Mirrored(r) : TRUE)>>])
    ELSE IF Redirection(own.status) /\ own.headers["Location"] # <<>>
    THEN [own EXCEPT !.headers["Location"] = <<Sanitized(Head(@))>>]
    ELSE own

-----------------------------------------------------------------------------
(* The merge *)

MergedHeader(name, own, added) ==
    IF added = <<>> THEN own
    ELSE IF name \in ListValued THEN own \o added
    ELSE <<Last(added)>>

\* extend_response: the options' headers are taken, their status stays.
Merged(own, opts) ==
    Parts(IF opts.status # NoStatus THEN opts.status ELSE own.status,
          [name \in Names |-> MergedHeader(name, own.headers[name], opts.headers[name])])

\* Mutant: the headers stay in the options for the next merge.
NotTaken(opts) == opts

Taken(opts) == [opts EXCEPT !.headers = NoHeaders]

\* set_default_content_type and set_default_nosniff.
Defaulted(own, name, v) ==
    IF own.headers[name] = <<>> THEN [own EXCEPT !.headers[name] = <<v>>] ELSE own

WithType(own) == Defaulted(own, "Content-Type", "default")
Completed(own) == Defaulted(own, "X-Content-Type-Options", "default")

Answer(own, next) ==
    /\ stage = "rendering"
    /\ response' = Completed(own)
    /\ stage' = next
    /\ UNCHANGED <<request, source, written>>

\* from_app merges the options once the first chunk is there; render merges
\* them a second time.
FirstChunk ==
    /\ source.kind = "ssr"
    /\ LET first == WithType(Merged(Parts(200, NoHeaders), options))
       IN Answer(Merged(first, Taken(options)),
                 IF RenderMode(source.mode, request.islands) = "collected"
                 THEN "sent" ELSE "streaming")
    /\ options' = Taken(Taken(options))

ServerFnReturns ==
    /\ source.kind = "server_fn"
    /\ Answer(Merged(RedirectApplied(request, source.own), options), "sent")
    /\ options' = Taken(options)

\* A response of its own, and the 404 that is not merged at all.
PresetAnswers ==
    /\ source.kind = "preset"
    /\ Answer(Merged(source.own, options), "sent")
    /\ options' = Taken(options)

NotFoundAnswers ==
    /\ source.kind = "not_found"
    /\ Answer(Parts(404, NoHeaders), "sent")
    /\ UNCHANGED options

Answers == FirstChunk \/ ServerFnReturns \/ PresetAnswers \/ NotFoundAnswers

\* The last chunk of a stream; its owner is cleaned up.
StreamEnds ==
    /\ stage = "streaming"
    /\ stage' = "sent"
    /\ UNCHANGED <<request, source, options, written, response>>

MergeNext == AppWrites \/ Answers \/ StreamEnds
MergeSpec == MergeInit /\ [][MergeNext]_mergeVars

-----------------------------------------------------------------------------
(* Properties *)

Answered == stage # "rendering"
InTime == {i \in DOMAIN written : ~written[i].late}
Wrote(i) == written[i].write

\* What a write puts into a header, and whether it drops what was there.
Into(w, name) ==
    CASE w.op \in {"insert", "append", "overwrite"} -> w.name = name
      [] w.op = "redirect" -> name = "Location"
      [] OTHER -> FALSE
Drops(w, name) == w.op = "overwrite" \/ (w.op # "append" /\ Into(w, name))

Latest(indices) == CHOOSE i \in indices : \A j \in indices : j <= i
Nth(indices, n) ==
    CHOOSE i \in indices : Cardinality({j \in indices : j < i}) = n - 1

\* The values of a header that the application means to send: what it has put
\* there since it last dropped what was there.
LastDrop(name) == Latest({0} \cup {i \in InTime : Drops(Wrote(i), name)})
Kept(name) == {i \in InTime : i >= LastDrop(name) /\ Into(Wrote(i), name)}
Meant(name) ==
    [n \in 1..Cardinality(Kept(name)) |-> Wrote(Nth(Kept(name), n)).value]

\* The status the application has written last, if any.
SetsStatus(w) ==
    w.op \in {"status", "overwrite"} \/ (w.op = "redirect" /\ request.html)
StatusOf(w) == IF w.op = "redirect" THEN 302 ELSE w.status
StatusWrites == {i \in InTime : SetsStatus(Wrote(i))}
MeantStatus ==
    IF StatusWrites = {} THEN {} ELSE {StatusOf(Wrote(Latest(StatusWrites)))}

OwnCookies ==
    IF source.kind = "server_fn" THEN source.own.headers["Set-Cookie"] ELSE <<>>

\* What the application writes before its first chunk is in the response once:
\* its status; its cookies, each of them, after those of the server function; of
\* another header the value written last, instead of a default
\* (response.rs:283-303, render.rs:124, 131-134).
WritesArriveOnce ==
    Answered =>
        /\ MeantStatus # {} => response.status \in MeantStatus
        /\ response.headers["Set-Cookie"] = OwnCookies \o Meant("Set-Cookie")
        /\ \A name \in Names \ ListValued :
               Meant(name) # <<>> => response.headers[name] = <<Last(Meant(name))>>

\* "Append a header, leaving any header with the same key intact."
\* (response.rs:217): every value appended to a header arrives.
AppendedArrive ==
    Answered => \A name \in Names : IsSuffix(Meant(name), response.headers[name])

\* A redirect of a server function leaves this origin only if the application
\* has written that Location, or the status that makes it a redirect, to its
\* options (PRODUCTION.md:83-94).
RedirectsStayHome ==
    Answered /\ source.kind = "server_fn" /\ Redirection(response.status)
    /\ response.headers["Location"] # <<>>
    /\ Head(response.headers["Location"]) \in {"remote", "broken"} =>
        Meant("Location") # <<>> \/ MeantStatus # {}

\* A browser that posts a form gets back to it: the answer of a server function
\* that did not fail, and has set no Location itself, is a redirect to the page
\* the browser names, as a path of this origin, or to where the application has
\* written; one that failed is never made a redirect (server_fns.rs:68-77).
FormsGoBack ==
    Answered /\ source.kind = "server_fn" /\ MeantStatus = {} /\ request.html =>
        IF source.own.status >= 400
        THEN response.status = source.own.status
        ELSE Mirrored(request) # {} /\ source.own.headers["Location"] = <<>> =>
                 /\ response.status = 302 /\ response.headers["Location"] # <<>>
                 /\ Meant("Location") = <<>> =>
                        \E t \in Mirrored(request) :
                            response.headers["Location"] = <<Sanitized(t)>>
=============================================================================
