----------------------------- MODULE HttpAnswer -----------------------------
(***************************************************************************)
(* What a client of the Preview 2 handler can observe: the request gets    *)
(* one answer, the application's or the fixed internal error; the body of  *)
(* the application's answer arrives in order and stops for good at some    *)
(* point; a request is left without an answer only if the host refuses to  *)
(* build one.                                                              *)
(***************************************************************************)
EXTENDS Naturals

VARIABLES
    answer,   \* the response the out-parameter was set to
    arrived,  \* bytes of the body that reached the client
    over      \* nothing more will come

answerVars == <<answer, arrived, over>>

Init ==
    /\ answer = "none"
    /\ arrived = 0
    /\ over = FALSE

\* The handler commits the application's response.
Commit ==
    /\ answer = "none" /\ ~over
    /\ answer' = "app"
    /\ UNCHANGED <<arrived, over>>

\* The handler answers with the internal error and is done.
Apologize ==
    /\ answer = "none" /\ ~over
    /\ answer' = "error"
    /\ over' = TRUE
    /\ UNCHANGED arrived

\* The host refuses both responses.
Refuse ==
    /\ answer = "none" /\ ~over
    /\ over' = TRUE
    /\ UNCHANGED <<answer, arrived>>

\* Bytes of the application's response reach the client, also after the
\* handler is done with it.
Arrive ==
    /\ answer = "app"
    /\ arrived' \in Nat /\ arrived' > arrived
    /\ UNCHANGED <<answer, over>>

End ==
    /\ answer = "app" /\ ~over
    /\ over' = TRUE
    /\ UNCHANGED <<answer, arrived>>

Next == Commit \/ Apologize \/ Refuse \/ Arrive \/ End

Spec == Init /\ [][Next]_answerVars
=============================================================================
