---------------------------- MODULE IncomingBody ----------------------------
(***************************************************************************)
(* An incoming request as the two previews read it: what the client sends, *)
(* the host's view of its end, and the timer of the read budget.  This is  *)
(* the environment of Preview2Ingest and Preview3Ingest, and external.     *)
(***************************************************************************)
EXTENDS ContentLength

CONSTANTS
    MaxBody,      \* bound: bytes a client sends
    MaxMembers    \* bound: members of its Content-Length headers

ASSUME MaxBodyAssumption == MaxBody \in Nat
ASSUME MaxMembersAssumption == MaxMembers \in Nat

VARIABLES
    method,     \* GET and HEAD, or any other
    members,    \* the members of the Content-Length headers
    budget,     \* whether a request_body_timeout is configured
    sent,       \* bytes that have arrived at the host
    end,        \* whether the client is still sending
    expired     \* the budget's timer has fired

requestVars == <<method, members, budget>>
clientVars == <<sent, end, expired>>
bodyVars == <<requestVars, clientVars>>

Headers == UNION {[1..n -> 0..MaxU64 + 1] : n \in 0..MaxMembers}

Verdicts == {"none", "accepted", "InvalidContentLength",
             "ConflictingContentLength", "BodyTooLarge", "BodyReadTimeout",
             "BodyFailed", "BodyStreamUnavailable", "BodyAlreadyConsumed",
             "Http"}

BodyTypeOK ==
    /\ method \in {"GET or HEAD", "other"}
    /\ members \in Headers
    /\ budget \in BOOLEAN
    /\ sent \in 0..MaxBody
    /\ end \in {"open", "closed", "failed"}
    /\ expired \in BOOLEAN

BodyInit ==
    /\ method \in {"GET or HEAD", "other"}
    /\ members \in Headers
    /\ budget \in BOOLEAN
    /\ sent = 0
    /\ end = "open"
    /\ expired = FALSE

\* What validate_content_length returns: an error or "none", and a length.
LengthError == ValidateContentLength(members).error
Declared == ValidateContentLength(members).parsed

\* The client sends more, or stops for good or ill.
Arrive(n) ==
    /\ end = "open"
    /\ sent + n <= MaxBody
    /\ sent' = sent + n
    /\ UNCHANGED <<requestVars, end, expired>>

CloseBody(how) ==
    /\ end = "open"
    /\ end' = how
    /\ UNCHANGED <<requestVars, sent, expired>>

Expire ==
    /\ budget
    /\ ~expired
    /\ expired' = TRUE
    /\ UNCHANGED <<requestVars, sent, end>>

ClientNext ==
    \/ \E n \in 1..MaxBody : Arrive(n)
    \/ \E how \in {"closed", "failed"} : CloseBody(how)
    \/ Expire

-----------------------------------------------------------------------------
\* The pass over the Content-Length members finds the error that the first odd
\* one calls for, and otherwise the length that all members agree on.
LengthIsJustified ==
    /\ LengthError = Expected(members)
    /\ LengthError = "none" =>
           Declared = {members[i] : i \in 1..Len(members)}
=============================================================================
