-------------------------- MODULE IngestAgreement --------------------------
(***************************************************************************)
(* The two previews reading the same request, each at its own pace: what   *)
(* one of them promises holds beside the other, and their answers can be   *)
(* compared.                                                               *)
(***************************************************************************)
EXTENDS Preview2Ingest, Preview3Ingest

bothVars == <<bodyVars, readerVars, ingestVars>>

BothInit == BodyInit /\ ReaderInit /\ IngestInit

Preview2Reads == ReaderNext /\ UNCHANGED ingestVars
Preview3Reads == IngestNext /\ UNCHANGED readerVars
Outside == Environment /\ UNCHANGED ingestVars

BothNext == Preview2Reads \/ Preview3Reads \/ Outside

BothSpec ==
    /\ BothInit /\ [][BothNext]_bothVars
    /\ WF_bothVars(HonestNext /\ UNCHANGED ingestVars)
    /\ WF_bothVars(Preview3Reads)
    /\ WF_bothVars(Expire /\ Outside)

\* The client does all that it does, and the timer fires or not, before either
\* of them reads: a difference in what they return is not one in their pace.
Started ==
    \/ pc \notin {"convert", "validate", "open", "check"}
    \/ got > 0 \/ empties > 0
    \/ at # "validate"

InStepNext == Preview2Reads \/ Preview3Reads \/ (~Started /\ Outside)

InStepSpec == BothInit /\ [][InStepNext]_bothVars

-----------------------------------------------------------------------------
(* The answers of the two handlers, as statuses *)

GoesOn == 0     \* the request is handled
Returned == 1   \* build returns an error, which is no answer

\* RequestPolicyError::status
PolicyStatus(error) ==
    CASE error = "BodyTooLarge" -> 413
      [] error = "BodyReadTimeout" -> 408
      [] error \in {"InvalidContentLength", "ConflictingContentLength"} -> 400

PolicyErrors ==
    {"BodyTooLarge", "BodyReadTimeout", "InvalidContentLength", "ConflictingContentLength"}

\* handler_from_request_error, with RequestError::client_status: what a client
\* may have caused is answered.
Preview2Status(v) ==
    CASE v = "accepted" -> GoesOn
      [] v \in PolicyErrors -> PolicyStatus(v)
      [] v \in {"Http", "BodyFailed"} -> 400
      [] v \in {"BodyAlreadyConsumed", "BodyStreamUnavailable"} -> Returned

\* from_ingested; an error of the body is the caller's.
Preview3Status(v) ==
    CASE v = "accepted" -> GoesOn
      [] v \in PolicyErrors -> PolicyStatus(v)
      [] v = "BodyFailed" -> Returned

-----------------------------------------------------------------------------
(* Properties *)

\* A request that http cannot express does not get as far as ingest.
BothDone == pc = "done" /\ at = "done" /\ verdict # "BodyAlreadyConsumed"
            /\ verdict \notin {"BodyStreamUnavailable", "Http"}

\* As long as the budget has not run out and the stream has not failed, both
\* previews answer a request with a body alike, but for the declared length,
\* which only Preview 2 compares with the body (request.rs:274-286,
\* wasip2.rs:215-252, wasip3.rs:121-134).
SameAnswerInTime ==
    BothDone /\ method = "other" /\ ~expired /\ end # "failed" =>
        \/ Preview2Status(verdict) = Preview3Status(answer)
        \/ /\ verdict = "InvalidContentLength" /\ answer = "accepted"
           /\ \E i \in 1..Len(members) : members[i] # sent

\* The budget of with_request_body_timeout_ns: "the two previews mean the same
\* thing by it" (policy.rs:61-63).
SameBudget ==
    BothDone /\ method = "other" =>
        (verdict = "BodyReadTimeout" <=> answer = "BodyReadTimeout")

\* With a budget both collect_wasi_body and ingest return, even if the client
\* stalls for ever.
BothReturn == budget => <>(pc = "done") /\ <>(at = "done")
=============================================================================
