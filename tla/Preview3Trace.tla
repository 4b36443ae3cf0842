--------------------------- MODULE Preview3Trace ---------------------------
(***************************************************************************)
(* The body of a Preview 3 answer on its way to the host: Body as an       *)
(* http_body::Body (src/response.rs), wrapped in TraceBody                 *)
(* (src/handler/wasip3.rs), which reports the end of the request once      *)
(* (RequestTrace, src/handler/trace.rs).                                   *)
(*                                                                         *)
(* The host polls frames and drops the body when it likes: at the end,     *)
(* after an error, because its client has gone, because it could not       *)
(* convert the response, or because is_end_stream tells it that nothing is *)
(* left.  A stream may go on after an error.                               *)
(***************************************************************************)
EXTENDS Naturals, Sequences, SequencesExt

CONSTANTS
    Sizes,     \* bytes of a chunk
    MaxChunks  \* bound: chunks of a stream

ASSUME SizesAssumption == Sizes \subseteq Nat
ASSUME MaxChunksAssumption == MaxChunks \in Nat

VARIABLES
    body,       \* Body: its kind and what is left of it
    owner,      \* who has the TraceBody: nobody yet, the host, nobody any more
    received,   \* the frames the host has got
    firstByte,  \* first_byte_micros is set
    bytes,      \* TraceBody::response_bytes
    report      \* what trace_finish has reported

traceVars == <<body, owner, received, firstByte, bytes, report>>

Chunk(s) == [frame |-> "data", size |-> s]
Error == [frame |-> "error", size |-> 0]
End == [frame |-> "end", size |-> 0]
Start == [frame |-> "start", size |-> 0]
NoBody == [kind |-> "none", left |-> <<>>]
NoReport == [class |-> "none yet"]

\* A synchronous body has one chunk; an empty one has no frame.
Bodies ==
    {[kind |-> "Sync", left |-> IF s = 0 THEN <<>> ELSE <<Chunk(s)>>] : s \in Sizes}
    \cup [kind : {"Async"},
          left : UNION {[1..n -> {Chunk(s) : s \in Sizes} \cup {Error}] : n \in 0..MaxChunks}]

TraceInit ==
    /\ body \in Bodies
    /\ owner = "handler"
    /\ received = <<>>
    /\ firstByte = FALSE
    /\ bytes = 0
    /\ report = NoReport

\* Mutant: every report is written.
FinishAgain(cancellation, class) ==
    report' = [class |-> class, cancellation |-> cancellation,
               bytes |-> bytes, firstByte |-> firstByte]

\* RequestTrace::finish: the first report counts.
Finish(cancellation, class) ==
    report' = IF report # NoReport THEN report
              ELSE [class |-> class, cancellation |-> cancellation,
                    bytes |-> bytes, firstByte |-> firstByte]

\* http_into_wasi_response takes the body.
HandOver ==
    /\ owner = "handler"
    /\ owner' = "host"
    /\ UNCHANGED <<body, received, firstByte, bytes, report>>

\* Body::poll_frame, as TraceBody::poll_frame sees it.
Polls(frame) ==
    /\ owner = "host"
    /\ frame = IF body.left = <<>> THEN End ELSE Head(body.left)
    /\ received' = Append(received, frame)
    /\ UNCHANGED owner

Rest == [body EXCEPT !.left = Tail(@)]

PollData ==
    \E s \in Sizes :
        /\ Polls(Chunk(s))
        /\ body' = Rest
        /\ firstByte' = (firstByte \/ s > 0)
        /\ bytes' = bytes + s
        /\ UNCHANGED report

PollError ==
    /\ Polls(Error)
    /\ body' = Rest
    /\ Finish(FALSE, "response_stream")
    /\ UNCHANGED <<firstByte, bytes>>

\* The host asks for the end once.
PollEnd ==
    /\ Last(<<Start>> \o received) # End
    /\ Polls(End)
    /\ Finish(FALSE, "none")
    /\ UNCHANGED <<body, firstByte, bytes>>

\* Drop: in the handler's hands only if the conversion has failed.
DropBody ==
    /\ owner \in {"handler", "host"}
    /\ owner' = "dropped"
    /\ Finish(TRUE, "body_dropped")
    /\ UNCHANGED <<body, received, firstByte, bytes>>

TraceNext == HandOver \/ PollData \/ PollError \/ PollEnd \/ DropBody

TraceSpec == TraceInit /\ [][TraceNext]_traceVars

-----------------------------------------------------------------------------
(* Properties *)

TraceTypeOK ==
    /\ body.kind \in {"none", "Sync", "Async"}
    /\ owner \in {"handler", "host", "dropped"}
    /\ firstByte \in BOOLEAN
    /\ bytes \in Nat

\* What the host had received when it was done, or gave up: up to the first
\* error or end.
Final == {i \in DOMAIN received : received[i] \in {Error, End}}
Heard ==
    IF Final = {} THEN received
    ELSE SubSeq(received, 1, CHOOSE i \in Final : \A j \in Final : i <= j)
BytesIn(frames) ==
    LET upTo[i \in 0..Len(frames)] ==
            IF i = 0 THEN 0 ELSE upTo[i - 1] + frames[i].size
    IN upTo[Len(frames)]

\* The report of a request tells how its body ended for the host: with an error
\* it saw, with an end it saw, or dropped before either, and how many bytes the
\* host had by then; and a body that is gone is reported (wasip3.rs:294-341).
ReportIsTrue ==
    /\ owner = "dropped" => report # NoReport
    /\ report # NoReport =>
           LET end == Last(<<Start>> \o Heard)
           IN /\ report.class = CASE end = Error -> "response_stream"
                                  [] end = End -> "none"
                                  [] OTHER -> "body_dropped"
              /\ report.cancellation <=> report.class = "body_dropped"
              /\ report.bytes = BytesIn(Heard)
              /\ report.firstByte <=> report.bytes > 0
              /\ report.class = "none" => body.left = <<>>
=============================================================================
