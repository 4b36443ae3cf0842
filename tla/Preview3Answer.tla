--------------------------- MODULE Preview3Answer ---------------------------
(***************************************************************************)
(* The head and the body of an answer: how its status and headers come     *)
(* together (ResponseMerge) and how its body gets to a Preview 3 host      *)
(* (Preview3Trace).  The two share no state, so a behaviour is one of one  *)
(* of them while the other has not begun.                                  *)
(***************************************************************************)
EXTENDS ResponseMerge, Preview3Trace

VARIABLE part  \* which of the two the behaviour is about

vars == <<mergeVars, traceVars, part>>

NoHead ==
    /\ request = [html |-> FALSE, islands |-> FALSE, referer |-> {}, referrer |-> {}]
    /\ source = [kind |-> "not_found"]
    /\ stage = "sent"
    /\ options = NoResponse
    /\ written = <<>>
    /\ response = NoResponse

NoTrace ==
    /\ body = NoBody
    /\ owner = "handler"
    /\ received = <<>>
    /\ firstByte = FALSE
    /\ bytes = 0
    /\ report = NoReport

Init ==
    \/ part = "head" /\ MergeInit /\ NoTrace
    \/ part = "body" /\ NoHead /\ TraceInit

Next ==
    /\ \/ part = "head" /\ MergeNext /\ UNCHANGED traceVars
       \/ part = "body" /\ TraceNext /\ UNCHANGED mergeVars
    /\ UNCHANGED part

Spec == Init /\ [][Next]_vars
=============================================================================
