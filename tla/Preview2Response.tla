-------------------------- MODULE Preview2Response --------------------------
(***************************************************************************)
(* How wasip2::Handler answers a request (src/handler/wasip2.rs): the      *)
(* guard around the response out-parameter, send_response and write_all.   *)
(*                                                                         *)
(* The host's output stream is external.  It buffers up to Cap bytes, may  *)
(* close (the client went away) or fail at any time, and reports either at *)
(* the next call.  The caller may drop the handler or its future wherever  *)
(* it awaits.  A body is a stream of chunks; Body::Sync is the one of a    *)
(* single chunk.                                                           *)
(***************************************************************************)
EXTENDS Naturals

CONSTANTS
    Cap,        \* bytes the host buffers
    MaxChunk,   \* bound: bytes of a chunk
    MaxChunks   \* bound: chunks of a body

ASSUME CapAssumption == Cap \in Nat \ {0}
ASSUME MaxChunkAssumption == MaxChunk \in Nat
ASSUME MaxChunksAssumption == MaxChunks \in Nat

VARIABLES
    stage,      \* where the handler is
    answer,     \* what the out-parameter was set to
    refused,    \* the host refused even the internal error
    chunks,     \* chunks the body stream has yielded
    made,       \* bytes the body stream has yielded
    ended,      \* the body stream has ended
    left,       \* bytes of the current chunk still to write
    permit,     \* what check_write returned last
    sent,       \* response_bytes: bytes written to the output stream
    drained,    \* bytes the host has passed on
    health,     \* the output stream
    flushing,   \* a flush was requested
    body,       \* the OutgoingBody resource
    outcome,    \* what handle_with_context returned
    trace       \* error_class and cancellation of trace_finish

vars == <<stage, answer, refused, chunks, made, ended, left, permit, sent,
          drained, health, flushing, body, outcome, trace>>

Stages == {"building", "rendering", "next", "writing", "permitted",
           "waiting", "flushing", "flushwait", "returned", "gone"}
Classes == {"none", "response_setup", "response_stream", "wasi_stream",
            "executor", "response_finish"}
Untraced == [class |-> "untraced", cancellation |-> FALSE]

TypeOK ==
    /\ stage \in Stages
    /\ answer \in {"none", "app", "error"}
    /\ refused \in BOOLEAN
    /\ chunks \in 0..MaxChunks
    /\ made \in Nat
    /\ ended \in BOOLEAN
    /\ left \in 0..MaxChunk
    /\ permit \in 0..Cap
    /\ sent \in Nat
    /\ drained \in Nat
    /\ health \in {"open", "closed", "failed"}
    /\ flushing \in BOOLEAN
    /\ body \in {"none", "open", "finished", "dropped"}
    /\ outcome \in {"none", "Ok", "request"} \cup Classes
    /\ trace \in {Untraced} \cup [class : Classes, cancellation : BOOLEAN]

Init ==
    /\ stage = "building"
    /\ answer = "none"
    /\ refused = FALSE
    /\ chunks = 0
    /\ made = 0
    /\ ended = FALSE
    /\ left = 0
    /\ permit = 0
    /\ sent = 0
    /\ drained = 0
    /\ health = "open"
    /\ flushing = FALSE
    /\ body = "none"
    /\ outcome = "none"
    /\ trace = Untraced

streamVars == <<chunks, made, ended, left, permit, sent, drained, health,
                flushing>>

-----------------------------------------------------------------------------
(* Before the commitment: the out-parameter is in its guard *)

\* send_internal_error: a fixed 500, unless the host refuses that as well.
SendInternalError ==
    \/ answer' = "error" /\ UNCHANGED refused
    \/ refused' = TRUE /\ UNCHANGED answer

\* build_with_config returns a handler; a rejected request is a preset in it.
Build ==
    /\ stage = "building"
    /\ stage' = "rendering"
    /\ UNCHANGED <<answer, refused, streamVars, body, outcome, trace>>

\* Mutant: the guard has no Drop.
BuildFailsSilently ==
    /\ stage = "building"
    /\ stage' = "returned"
    /\ outcome' = "request"
    /\ UNCHANGED <<answer, refused, streamVars, body, trace>>

\* build_with_config returns an error and drops the guard.
BuildFails ==
    /\ stage = "building"
    /\ SendInternalError
    /\ stage' = "returned"
    /\ outcome' = "request"
    /\ UNCHANGED <<streamVars, body, trace>>

\* The caller drops the handler, or its future while it renders.
DropGuarded ==
    /\ stage = "rendering"
    /\ SendInternalError
    /\ stage' = "gone"
    /\ UNCHANGED <<streamVars, body, outcome, trace>>

\* The response is rendered and the host refuses its headers, status or body.
SetupFails ==
    /\ stage = "rendering"
    /\ SendInternalError
    /\ stage' = "returned"
    /\ outcome' = "response_setup"
    /\ trace' = [class |-> "response_setup", cancellation |-> FALSE]
    /\ UNCHANGED <<streamVars, body>>

\* ResponseOutparam::set with the application's response.
Commit ==
    /\ stage = "rendering"
    /\ answer' = "app"
    /\ body' = "open"
    /\ stage' = "next"
    /\ UNCHANGED <<refused, streamVars, outcome, trace>>

-----------------------------------------------------------------------------
(* The end: the output is dropped, the body finished, the request traced *)

\* Mutant: a failed transfer is answered with the internal error page.
FailWithErrorPage(class, cancellation) ==
    /\ body' = "finished"
    /\ trace' = [class |-> class, cancellation |-> cancellation]
    /\ outcome' = class
    /\ stage' = "returned"
    /\ answer' = "error"
    /\ UNCHANGED <<refused>>

\* Mutant: only a complete transfer finishes the body.
FailWithoutFinish(class, cancellation) ==
    /\ body' = "dropped"
    /\ trace' = [class |-> class, cancellation |-> cancellation]
    /\ outcome' = class
    /\ stage' = "returned"
    /\ UNCHANGED <<answer, refused>>

\* Mutant: any failure counts as a cancellation.
FailAsCancellation(class, cancellation) ==
    /\ body' = "finished"
    /\ trace' = [class |-> class, cancellation |-> TRUE]
    /\ outcome' = class
    /\ stage' = "returned"
    /\ UNCHANGED <<answer, refused>>

\* The transfer failed; whether the finish succeeds makes no difference.
Fail(class, cancellation) ==
    /\ body' = "finished"
    /\ trace' = [class |-> class, cancellation |-> cancellation]
    /\ outcome' = class
    /\ stage' = "returned"
    /\ UNCHANGED <<answer, refused>>

\* A call on a closed or failed output stream.
StreamRefuses ==
    /\ health # "open"
    /\ Fail("wasi_stream", health = "closed")
    /\ UNCHANGED streamVars

\* The transfer is complete; OutgoingBody::finish succeeds or does not.
Succeed ==
    /\ body' = "finished"
    /\ \/ outcome' = "Ok" /\ trace' = [class |-> "none", cancellation |-> FALSE]
       \/ /\ outcome' = "response_finish"
          /\ trace' = [class |-> "response_finish", cancellation |-> FALSE]
    /\ stage' = "returned"
    /\ UNCHANGED <<answer, refused, streamVars>>

-----------------------------------------------------------------------------
(* The transfer *)

Stay == UNCHANGED <<answer, refused, body, outcome, trace>>

\* stream.next() yields a chunk of n bytes, none included.
YieldChunk(n) ==
    /\ stage = "next"
    /\ chunks < MaxChunks
    /\ chunks' = chunks + 1
    /\ made' = made + n
    /\ left' = n
    /\ stage' = "writing"
    /\ Stay
    /\ UNCHANGED <<ended, permit, sent, drained, health, flushing>>

StreamEnds ==
    /\ stage = "next"
    /\ ended' = TRUE
    /\ stage' = "flushing"
    /\ Stay
    /\ UNCHANGED <<chunks, made, left, permit, sent, drained, health, flushing>>

StreamFails ==
    /\ stage = "next"
    /\ Fail("response_stream", FALSE)
    /\ UNCHANGED streamVars

\* write_all has written the whole chunk.
ChunkWritten ==
    /\ stage = "writing"
    /\ left = 0
    /\ stage' = "next"
    /\ Stay
    /\ UNCHANGED streamVars

Room == Cap - (sent - drained)

\* Mutant: an error of check_write is taken for a full buffer.
CheckWriteIgnoresErrors ==
    /\ stage = "writing"
    /\ left > 0
    /\ permit' = IF health = "open" THEN Room ELSE 0
    /\ stage' = IF permit' = 0 THEN "waiting" ELSE "permitted"
    /\ Stay
    /\ UNCHANGED <<chunks, made, ended, left, sent, drained, health, flushing>>

CheckWrite ==
    /\ stage = "writing"
    /\ left > 0
    /\ \/ StreamRefuses
       \/ /\ health = "open"
          /\ permit' = Room
          /\ stage' = IF Room = 0 THEN "waiting" ELSE "permitted"
          /\ Stay
          /\ UNCHANGED <<chunks, made, ended, left, sent, drained, health,
                         flushing>>

\* Mutant: the whole chunk is written whatever check_write permits.
CountAll == left

\* How much of the chunk one write takes.
Count == IF permit < left THEN permit ELSE left

\* Mutant: one write per chunk, however much of it was accepted.
WriteOnce ==
    /\ stage = "permitted"
    /\ \/ StreamRefuses
       \/ /\ health = "open"
          /\ sent' = sent + Count
          /\ left' = 0
          /\ stage' = "writing"
          /\ Stay
          /\ UNCHANGED <<chunks, made, ended, permit, drained, health, flushing>>

Write ==
    /\ stage = "permitted"
    /\ \/ StreamRefuses
       \/ /\ health = "open"
          /\ sent' = sent + Count
          /\ left' = left - Count
          /\ stage' = "writing"
          /\ Stay
          /\ UNCHANGED <<chunks, made, ended, permit, drained, health, flushing>>

Flush ==
    /\ stage = "flushing"
    /\ \/ StreamRefuses
       \/ /\ health = "open"
          /\ flushing' = TRUE
          /\ stage' = "flushwait"
          /\ Stay
          /\ UNCHANGED <<chunks, made, ended, left, permit, sent, drained, health>>

\* The output's pollable: room to write, a flush that is done, or a stream
\* that is no longer open.
PollableIsReady ==
    \/ health # "open"
    \/ IF flushing THEN drained = sent ELSE Room > 0

WaitResolves ==
    /\ PollableIsReady
    /\ \/ /\ stage = "waiting"
          /\ stage' = "writing"
          /\ Stay
          /\ UNCHANGED streamVars
       \/ stage = "flushwait" /\ Succeed

\* WaitPoll could not register; a live WaitPoll is never canceled.
WaitFails ==
    /\ stage \in {"waiting", "flushwait"}
    /\ Fail("executor", FALSE)
    /\ UNCHANGED streamVars

\* The caller drops the future where it awaits: nothing is finished or traced.
DropTransfer ==
    /\ stage \in {"next", "waiting", "flushwait"}
    /\ body' = "dropped"
    /\ stage' = "gone"
    /\ UNCHANGED <<answer, refused, streamVars, outcome, trace>>

-----------------------------------------------------------------------------
(* The host *)

Drain(n) ==
    /\ health = "open"
    /\ drained < n /\ n <= sent
    /\ drained' = n
    /\ UNCHANGED <<stage, answer, refused, chunks, made, ended, left, permit,
                   sent, health, flushing, body, outcome, trace>>

HostCloses(how) ==
    /\ health = "open"
    /\ body = "open"
    /\ health' = how
    /\ UNCHANGED <<stage, answer, refused, chunks, made, ended, left, permit,
                   sent, drained, flushing, body, outcome, trace>>

-----------------------------------------------------------------------------
Guarded == Build \/ BuildFails \/ SetupFails \/ Commit

Producer == StreamEnds \/ StreamFails \/ \E n \in 0..MaxChunk : YieldChunk(n)

Progress ==
    \/ ChunkWritten
    \/ CheckWrite
    \/ Write
    \/ Flush
    \/ WaitResolves

Transfer == Progress \/ WaitFails

Draining == \E n \in 1..sent : Drain(n)

Next ==
    \/ Guarded
    \/ DropGuarded
    \/ Producer
    \/ Transfer
    \/ DropTransfer
    \/ Draining
    \/ \E how \in {"closed", "failed"} : HostCloses(how)

Spec == Init /\ [][Next]_vars

(***************************************************************************)
(* Fairness.  The handler's future is polled when it can go on, the body   *)
(* stream keeps producing until it ends, and the host drains its buffer as *)
(* long as the stream is open.  Nothing makes the client stay, the caller  *)
(* keep the future, or a wait fail that does not resolve.                  *)
(***************************************************************************)
FairSpec ==
    /\ Spec
    /\ WF_vars(Guarded)
    /\ WF_vars(Producer)
    /\ WF_vars(Progress)
    /\ WF_vars(Draining)

-----------------------------------------------------------------------------
(* Properties *)

Over == stage \in {"returned", "gone"}
Transferring == Stages \ {"building", "rendering", "returned", "gone"}

\* Every request is answered, wherever the build fails, the setup fails or the
\* caller drops the handler, unless the host refuses even the internal error.
Answered == Over => answer # "none" \/ refused

\* handle_with_context returns Ok only if the whole body, as the stream yielded
\* it, was accepted by the host, a flush requested and the body finished.
OkMeansWhole ==
    outcome = "Ok" => ended /\ left = 0 /\ sent = made /\ flushing
                      /\ body = "finished"

\* No write exceeds what the host can take at that moment (a trap in WASI),
\* although the host's buffer changes between check_write and write.
WithinPermit == [][sent' - sent <= Room]_vars

\* A committed response that was not dropped by the caller is finished, also
\* when the producer or the host fails (wasip2.rs:311-314).
AlwaysFinished == stage = "returned" /\ answer = "app" => body = "finished"

\* The trace of a finished request agrees with what the caller was told, and a
\* request is counted as cancelled only if the client closed the stream.
TraceTellsOutcome ==
    /\ stage = "returned" /\ outcome # "request"
         => trace.class = IF outcome = "Ok" THEN "none" ELSE outcome
    /\ trace.cancellation => health = "closed"

\* A handler that nobody drops returns, whatever the host does to the stream.
Returns == (stage = "building") ~> Over

Client == INSTANCE HttpAnswer WITH arrived <- drained, over <- Over

\* The client sees one answer, and its body in order.
AnswersOnce == Client!Spec

\* The strengthening: every byte is accounted for, a permit is still covered by
\* the room, and the stage tells the state of the out-parameter and the body.
Accounted ==
    /\ drained <= sent
    /\ sent - drained <= Cap
    /\ made = sent + left
    /\ stage = "permitted" => permit <= Room /\ left > 0
    /\ stage \in {"next", "flushing", "flushwait"} => left = 0
    /\ stage = "flushwait" => ended /\ flushing
    /\ stage = "flushing" => ended
    /\ flushing => stage \in {"flushwait", "returned", "gone"}

StageTells ==
    /\ stage \in {"building", "rendering"}
         => /\ answer = "none" /\ ~refused
            /\ body = "none"
            /\ health = "open"
            /\ sent = 0 /\ made = 0
    /\ ~Over => trace = Untraced /\ outcome = "none"
    /\ stage \in Transferring => answer = "app" /\ body = "open"
    /\ answer # "app" => sent = 0
    /\ stage = "gone" => outcome = "none" /\ trace = Untraced

ResponseInv ==
    /\ TypeOK
    /\ Accounted
    /\ StageTells
    /\ Answered
    /\ OkMeansWhole
    /\ AlwaysFinished
    /\ TraceTellsOutcome

\* The documentation of handle_with_context (wasip2.rs:171-174) promises an
\* error if a host stream operation fails, so Ok means that the flush it waited
\* for took place.
OkMeansFlushed == outcome = "Ok" => drained = sent
=============================================================================
