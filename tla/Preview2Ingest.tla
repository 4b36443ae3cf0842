--------------------------- MODULE Preview2Ingest ---------------------------
(***************************************************************************)
(* request_parts and collect_wasi_body (src/request.rs): the Preview 2     *)
(* handler converts the request and reads its body before it renders, with *)
(* a blocking read or, when there is a budget, with non-blocking reads and *)
(* a poll of the stream and a timer.  The host's streams and pollables are *)
(* external, and so is what http makes of a method, a URI or a header.     *)
(***************************************************************************)
EXTENDS IncomingBody

CONSTANTS
    EmptyReadCap,   \* EMPTY_BODY_READ_CAP
    HostMayLie      \* whether a readable stream may turn out to be empty

ASSUME EmptyReadCapAssumption == EmptyReadCap \in Nat /\ EmptyReadCap > 1
ASSUME HostMayLieAssumption == HostMayLie \in BOOLEAN

VARIABLES
    pc,        \* where request_parts and collect_wasi_body are
    got,       \* bytes in the body so far
    empties,   \* consecutive_empty
    verdict,   \* what it returns
    late,      \* history: chunks taken after the timer had fired
    lied       \* history: the host reported an empty stream as readable

readerVars == <<pc, got, empties, verdict, late, lied>>
vars == <<bodyVars, readerVars>>

TypeOK ==
    /\ BodyTypeOK
    /\ pc \in {"convert", "validate", "open", "check", "read", "poll", "done"}
    /\ got \in 0..MaxBody
    /\ empties \in 0..EmptyReadCap
    /\ verdict \in Verdicts
    /\ late \in Nat
    /\ lied \in BOOLEAN

ReaderInit ==
    /\ pc = "convert"
    /\ got = 0
    /\ empties = 0
    /\ verdict = "none"
    /\ late = 0
    /\ lied = FALSE

Init == BodyInit /\ ReaderInit

Return(v) ==
    /\ pc' = "done"
    /\ verdict' = v
    /\ UNCHANGED <<bodyVars, got, empties, late, lied>>

-----------------------------------------------------------------------------
(* Before the loop *)

\* request_parts: the method, the URI and each header are those of http, or
\* the request has an error.
Convert ==
    /\ pc = "convert"
    /\ pc' = "validate"
    /\ UNCHANGED <<bodyVars, got, empties, verdict, late, lied>>

ConvertFails ==
    /\ pc = "convert"
    /\ Return("Http")

RejectLength ==
    /\ pc = "validate"
    /\ LengthError # "none"
    /\ Return(LengthError)

\* GET and HEAD do not open the stream.
SkipBody ==
    /\ pc = "validate"
    /\ LengthError = "none"
    /\ method = "GET or HEAD"
    /\ Return("accepted")

Validated ==
    /\ pc = "validate"
    /\ LengthError = "none"
    /\ method = "other"
    /\ pc' = "open"
    /\ UNCHANGED <<bodyVars, got, empties, verdict, late, lied>>

\* The top of the loop: the deadline is checked only if there is one.
Top == IF budget THEN "check" ELSE "read"

Open ==
    /\ pc = "open"
    /\ pc' = Top
    /\ UNCHANGED <<bodyVars, got, empties, verdict, late, lied>>

OpenFails ==
    /\ pc = "open"
    /\ \E v \in {"BodyAlreadyConsumed", "BodyStreamUnavailable"} : Return(v)

-----------------------------------------------------------------------------
(* The loop *)

\* Mutant: the deadline is looked at only when there is nothing to read.
CheckSkipped ==
    /\ pc = "check"
    /\ pc' = "read"
    /\ UNCHANGED <<bodyVars, got, empties, verdict, late, lied>>

\* deadline.ready() at the top of the loop.
CheckDeadline ==
    /\ pc = "check"
    /\ \/ expired /\ Return("BodyReadTimeout")
       \/ /\ ~expired
          /\ pc' = "read"
          /\ UNCHANGED <<bodyVars, got, empties, verdict, late, lied>>

\* Mutant: the limit is applied to a chunk, not to the body.
TakePerChunk(n) ==
    /\ pc = "read"
    /\ n \in 1..sent - got
    /\ \/ n > Limit /\ Return("BodyTooLarge")
       \/ /\ n <= Limit
          /\ got' = got + n
          /\ empties' = 0
          /\ late' = IF expired THEN late + 1 ELSE late
          /\ pc' = Top
          /\ UNCHANGED <<bodyVars, verdict, lied>>

\* Mutant: empty reads are counted over the whole body.
TakeKeepsCount(n) ==
    /\ pc = "read"
    /\ n \in 1..sent - got
    /\ \/ got + n > Limit /\ Return("BodyTooLarge")
       \/ /\ got + n <= Limit
          /\ got' = got + n
          /\ late' = IF expired THEN late + 1 ELSE late
          /\ pc' = Top
          /\ UNCHANGED <<bodyVars, empties, verdict, lied>>

\* Mutant: a body of exactly the limit is refused.
TakeOffByOne(n) ==
    /\ pc = "read"
    /\ n \in 1..sent - got
    /\ \/ got + n >= Limit /\ Return("BodyTooLarge")
       \/ /\ got + n < Limit
          /\ got' = got + n
          /\ empties' = 0
          /\ late' = IF expired THEN late + 1 ELSE late
          /\ pc' = Top
          /\ UNCHANGED <<bodyVars, verdict, lied>>

\* A read, of either kind, returns a chunk of n bytes.
Take(n) ==
    /\ pc = "read"
    /\ n \in 1..sent - got
    /\ \/ got + n > Limit /\ Return("BodyTooLarge")
       \/ /\ got + n <= Limit
          /\ got' = got + n
          /\ empties' = 0
          /\ late' = IF expired THEN late + 1 ELSE late
          /\ pc' = Top
          /\ UNCHANGED <<bodyVars, verdict, lied>>

\* Mutant: the declared length is not compared.
AnyLength == TRUE

\* declared_length_matches
LengthMatches == \A length \in Declared : got = length

ReadClosed ==
    /\ pc = "read"
    /\ end = "closed"
    /\ got = sent
    /\ Return(IF LengthMatches THEN "accepted" ELSE "InvalidContentLength")

\* StreamError::LastOperationFailed
ReadFails ==
    /\ pc = "read"
    /\ end = "failed"
    /\ Return("BodyFailed")

\* A non-blocking read finds nothing; so many in a row end the loop.
ReadEmpty ==
    /\ pc = "read"
    /\ budget
    /\ got = sent /\ end = "open"
    /\ empties' = empties + 1
    /\ IF empties + 1 >= EmptyReadCap
       THEN pc' = "done" /\ verdict' = "BodyStreamUnavailable"
       ELSE pc' = "poll" /\ UNCHANGED verdict
    /\ UNCHANGED <<bodyVars, got, late, lied>>

Readable == got < sent \/ end # "open"

\* Mutant: the poll waits for the stream alone.
PollStreamOnly ==
    /\ pc = "poll"
    /\ Readable
    /\ pc' = Top
    /\ UNCHANGED <<bodyVars, got, empties, verdict, late, lied>>

\* poll(&[readable, deadline]): the deadline wins if it is among the answers.
Poll ==
    /\ pc = "poll"
    /\ \/ expired /\ Return("BodyReadTimeout")
       \/ /\ ~expired
          /\ Readable \/ HostMayLie
          /\ lied' = (lied \/ ~Readable)
          /\ pc' = Top
          /\ UNCHANGED <<bodyVars, got, empties, verdict, late>>

ReaderNext ==
    \/ Convert \/ ConvertFails
    \/ RejectLength \/ SkipBody \/ Validated
    \/ Open \/ OpenFails
    \/ CheckDeadline
    \/ \E n \in 1..MaxBody : Take(n)
    \/ ReadClosed \/ ReadFails \/ ReadEmpty
    \/ Poll

\* The steps a host that does not lie lets the reader take.
HonestNext == ReaderNext /\ (pc = "poll" => expired \/ Readable)

\* The client acts at any time; the timer exists once the stream is open.
Environment ==
    /\ ClientNext
    /\ pc \in {"convert", "validate", "open"} => expired' = expired
    /\ UNCHANGED readerVars

Next == ReaderNext \/ Environment

Spec == Init /\ [][Next]_vars

(***************************************************************************)
(* Fairness.  The reader runs when it is not blocked, and time passes.     *)
(* Nothing is assumed of the client, and no host is made to lie.           *)
(***************************************************************************)
FairSpec ==
    /\ Spec
    /\ WF_vars(HonestNext)
    /\ WF_vars(Expire /\ Environment)

-----------------------------------------------------------------------------
(* Properties *)

\* The buffer never grows past the limit, whatever the chunks are, and a body
\* that collect_wasi_body accepts is all that the client sent before it closed
\* the stream, of the length that each member of its Content-Length headers
\* declares.
AcceptedIsWhole ==
    /\ got <= Limit
    /\ verdict = "accepted" /\ method = "other" =>
           /\ end = "closed"
           /\ got = sent
           /\ \A i \in 1..Len(members) : members[i] = got

\* The budget spans the body, not the gap between chunks: after the timer has
\* fired at most the read that was already decided on takes another chunk.
OneLateChunk == late <= 1

\* A client that sends slowly but keeps sending is not taken for a broken
\* stream: only a host that reports empty streams as readable is.
NotBlamedForTrickling ==
    empties >= EmptyReadCap => lied
=============================================================================
