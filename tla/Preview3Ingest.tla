--------------------------- MODULE Preview3Ingest ---------------------------
(***************************************************************************)
(* ingest (src/handler/wasip3.rs): the Preview 3 handler collects the      *)
(* length-limited request body, in a race with a timer if there is a       *)
(* budget.  Each poll of the race polls the collecting side first, and it  *)
(* takes frames until there is none or the body is at its end.  Limited    *)
(* and collect are external.                                               *)
(***************************************************************************)
EXTENDS IncomingBody

VARIABLES
    at,        \* where ingest is
    held,      \* bytes collected so far
    answer,    \* what it returns
    overtime   \* history: frames taken after the timer had fired

ingestVars == <<at, held, answer, overtime>>
raceVars == <<bodyVars, ingestVars>>

RaceTypeOK ==
    /\ BodyTypeOK
    /\ at \in {"validate", "collect", "expiry", "parked", "done"}
    /\ held \in 0..MaxBody
    /\ answer \in Verdicts
    /\ overtime \in Nat

IngestInit ==
    /\ at = "validate"
    /\ held = 0
    /\ answer = "none"
    /\ overtime = 0

RaceInit == BodyInit /\ IngestInit

Answer(v) ==
    /\ at' = "done"
    /\ answer' = v
    /\ UNCHANGED <<bodyVars, held, overtime>>

GoTo(place) ==
    /\ at' = place
    /\ UNCHANGED <<bodyVars, held, answer, overtime>>

Validate ==
    /\ at = "validate"
    /\ IF LengthError # "none" THEN Answer(LengthError) ELSE GoTo("collect")

\* Mutant: the frame that exceeds the limit is kept.
FrameUnlimited(n) ==
    /\ at = "collect"
    /\ n \in 1..sent - held
    /\ held' = held + n
    /\ overtime' = IF expired THEN overtime + 1 ELSE overtime
    /\ UNCHANGED <<bodyVars, at, answer>>

\* A frame of n bytes; Limited refuses the one that exceeds the limit.
Frame(n) ==
    /\ at = "collect"
    /\ n \in 1..sent - held
    /\ \/ held + n > Limit /\ Answer("BodyTooLarge")
       \/ /\ held + n <= Limit
          /\ held' = held + n
          /\ overtime' = IF expired THEN overtime + 1 ELSE overtime
          /\ UNCHANGED <<bodyVars, at, answer>>

Collected ==
    /\ at = "collect"
    /\ end = "closed"
    /\ held = sent
    /\ Answer("accepted")

CollectFails ==
    /\ at = "collect"
    /\ end = "failed"
    /\ Answer("BodyFailed")

\* The collecting side is pending; the other side of the race is next.
NoFrame ==
    /\ at = "collect"
    /\ held = sent /\ end = "open"
    /\ GoTo(IF budget THEN "expiry" ELSE "parked")

Expiry ==
    /\ at = "expiry"
    /\ IF expired THEN Answer("BodyReadTimeout") ELSE GoTo("parked")

\* Mutant: only the body wakes the race.
WokenByBody ==
    /\ at = "parked"
    /\ held < sent \/ end # "open"
    /\ GoTo("collect")

\* The body or the timer wakes the task.
Woken ==
    /\ at = "parked"
    /\ held < sent \/ end # "open" \/ expired
    /\ GoTo("collect")

IngestNext ==
    \/ Validate
    \/ \E n \in 1..MaxBody : Frame(n)
    \/ Collected \/ CollectFails \/ NoFrame
    \/ Expiry
    \/ Woken

RaceNext ==
    \/ IngestNext
    \/ ClientNext /\ UNCHANGED ingestVars

RaceSpec == RaceInit /\ [][RaceNext]_raceVars

\* Fairness: the task runs when it was woken, and time passes.
FairRace ==
    /\ RaceSpec
    /\ WF_raceVars(IngestNext)
    /\ WF_raceVars(Expire /\ UNCHANGED ingestVars)

-----------------------------------------------------------------------------
(* Properties *)

\* A collected body is all that the client sent before it closed the stream,
\* and within the limit.
CollectedIsWhole ==
    answer = "accepted" => end = "closed" /\ held = sent /\ held <= Limit
=============================================================================
