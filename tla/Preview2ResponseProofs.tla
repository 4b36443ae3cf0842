----------------------- MODULE Preview2ResponseProofs -----------------------
(***************************************************************************)
(* Proofs about Preview2Response, for every size of the host's buffer, of  *)
(* the chunks and of the body.                                             *)
(***************************************************************************)
EXTENDS Preview2Response, Recursion

USE CapAssumption, MaxChunkAssumption, MaxChunksAssumption DEF streamVars

\* The invariant holds at the start.
LEMMA ResponseInitially == Init => ResponseInv
<1> SUFFICES ASSUME Init PROVE ResponseInv
    OBVIOUS
<1>1. TypeOK
  <2>1. trace \in {Untraced} \cup [class : Classes, cancellation : BOOLEAN]
      BY DEF Init
  <2>2. outcome \in {"none", "Ok", "request"} \cup Classes
      BY DEF Init
  <2>3. chunks \in 0..MaxChunks /\ left \in 0..MaxChunk /\ permit \in 0..Cap
      BY DEF Init
  <2> QED
      BY <2>1, <2>2, <2>3 DEF Init, TypeOK, Stages
<1>2. Accounted
    BY DEF Init, Accounted
<1>3. StageTells /\ Answered /\ OkMeansWhole /\ AlwaysFinished
    BY DEF Init, StageTells, Answered, OkMeansWhole, AlwaysFinished, Over,
           Transferring
<1>4. TraceTellsOutcome
    BY DEF Init, TraceTellsOutcome, Untraced
<1> QED
    BY <1>1, <1>2, <1>3, <1>4 DEF ResponseInv

\* The actions before the commitment keep the invariant.
LEMMA GuardedKeeps ==
    ASSUME ResponseInv, Guarded \/ DropGuarded
    PROVE  ResponseInv'
<1> USE DEF ResponseInv, TypeOK, Stages, Classes, Untraced, Accounted,
            StageTells, Answered, OkMeansWhole, AlwaysFinished,
            TraceTellsOutcome, Over, Transferring, Room
<1>1. CASE Build
    BY <1>1 DEF Build
<1>2. CASE BuildFails
    BY <1>2 DEF BuildFails, SendInternalError
<1>3. CASE SetupFails
    BY <1>3 DEF SetupFails, SendInternalError
<1>4. CASE Commit
    BY <1>4 DEF Commit
<1>5. CASE DropGuarded
    BY <1>5 DEF DropGuarded, SendInternalError
<1> QED
    BY <1>1, <1>2, <1>3, <1>4, <1>5 DEF Guarded

\* A transfer that fails keeps the invariant, whatever it reports, if only a
\* closed stream counts as a cancellation.
LEMMA FailKeeps ==
    ASSUME ResponseInv, stage \in Transferring,
           NEW class \in Classes \ {"none"}, NEW cancellation \in BOOLEAN,
           cancellation => health = "closed",
           Fail(class, cancellation), UNCHANGED streamVars
    PROVE  ResponseInv'
BY DEF ResponseInv, TypeOK, Stages, Classes, Untraced, Accounted, StageTells,
       Answered, OkMeansWhole, AlwaysFinished, TraceTellsOutcome, Over,
       Transferring, Room, Fail

LEMMA RefusalKeeps ==
    ASSUME ResponseInv, stage \in Transferring, StreamRefuses
    PROVE  ResponseInv'
<1>1. Fail("wasi_stream", health = "closed") /\ UNCHANGED streamVars
    BY DEF StreamRefuses
<1> QED
    BY <1>1, FailKeeps DEF Classes

\* The body stream and the writing keep it.
LEMMA ProducerKeeps ==
    ASSUME ResponseInv, Producer
    PROVE  ResponseInv'
<1> USE DEF ResponseInv, TypeOK, Stages, Classes, Untraced, Accounted,
            StageTells, Answered, OkMeansWhole, AlwaysFinished,
            TraceTellsOutcome, Over, Transferring, Room, Stay
<1>1. CASE StreamEnds
    BY <1>1 DEF StreamEnds
<1>2. CASE StreamFails
    BY <1>2, FailKeeps DEF StreamFails
<1>3. ASSUME NEW n \in 0..MaxChunk, YieldChunk(n)
      PROVE  ResponseInv'
    BY <1>3 DEF YieldChunk
<1> QED
    BY <1>1, <1>2, <1>3 DEF Producer

LEMMA TransferKeeps ==
    ASSUME ResponseInv, Transfer
    PROVE  ResponseInv'
<1> USE DEF ResponseInv, TypeOK, Stages, Classes, Untraced, Accounted,
            StageTells, Answered, OkMeansWhole, AlwaysFinished,
            TraceTellsOutcome, Over, Transferring, Room, Stay
<1>1. CASE ChunkWritten
    BY <1>1 DEF ChunkWritten
<1>2. CASE CheckWrite
    BY <1>2, RefusalKeeps DEF CheckWrite
<1>3. CASE Write
    BY <1>3, RefusalKeeps DEF Write, Count
<1>4. CASE Flush
    BY <1>4, RefusalKeeps DEF Flush
<1>5. CASE WaitResolves
  <2>1. CASE stage = "waiting"
      BY <1>5, <2>1 DEF WaitResolves
  <2>2. CASE stage = "flushwait" /\ Succeed
    <3>1. CASE /\ outcome' = "Ok"
               /\ trace' = [class |-> "none", cancellation |-> FALSE]
        BY <2>2, <3>1 DEF Succeed
    <3>2. CASE /\ outcome' = "response_finish"
               /\ trace' = [class |-> "response_finish",
                           cancellation |-> FALSE]
        BY <2>2, <3>2 DEF Succeed
    <3> QED
        BY <2>2, <3>1, <3>2 DEF Succeed
  <2> QED
      BY <1>5, <2>1, <2>2 DEF WaitResolves
<1>6. CASE WaitFails
    BY <1>6, FailKeeps DEF WaitFails
<1> QED
    BY <1>1, <1>2, <1>3, <1>4, <1>5, <1>6 DEF Transfer, Progress

\* The caller and the host keep it.
LEMMA OutsideKeeps ==
    ASSUME ResponseInv,
           \/ DropTransfer \/ Draining
           \/ \E how \in {"closed", "failed"} : HostCloses(how)
           \/ UNCHANGED vars
    PROVE  ResponseInv'
<1> USE DEF ResponseInv, TypeOK, Stages, Classes, Untraced, Accounted,
            StageTells, Answered, OkMeansWhole, AlwaysFinished,
            TraceTellsOutcome, Over, Transferring, Room
<1>1. CASE DropTransfer
    BY <1>1 DEF DropTransfer
<1>2. CASE Draining
    BY <1>2 DEF Draining, Drain
<1>3. CASE \E how \in {"closed", "failed"} : HostCloses(how)
    BY <1>3 DEF HostCloses
<1>4. CASE UNCHANGED vars
    BY <1>4 DEF vars
<1> QED
    BY <1>1, <1>2, <1>3, <1>4

\* The inductive invariant of a response, from the build of the handler to the
\* end of its body: bytes accounted for, permits honoured, the stage in line
\* with out-parameter, body and trace.
THEOREM ResponseInvariant == Spec => []ResponseInv
<1>1. ResponseInv /\ [Next]_vars => ResponseInv'
    BY GuardedKeeps, ProducerKeeps, TransferKeeps, OutsideKeeps DEF Next
<1> QED
    BY <1>1, ResponseInitially, PTL DEF Spec

\* Every request is answered unless the host refuses even the internal error
\* (ResponseOutGuard's Drop).
THEOREM RequestsAreAnswered == Spec => []Answered
<1>1. ResponseInv => Answered
    BY DEF ResponseInv
<1> QED
    BY <1>1, ResponseInvariant, PTL

\* Ok is returned only for a whole body.
THEOREM OkIsWhole == Spec => []OkMeansWhole
<1>1. ResponseInv => OkMeansWhole
    BY DEF ResponseInv
<1> QED
    BY <1>1, ResponseInvariant, PTL

\* The trace says what the caller was told.
THEOREM TraceIsTruthful == Spec => []TraceTellsOutcome
<1>1. ResponseInv => TraceTellsOutcome
    BY DEF ResponseInv
<1> QED
    BY <1>1, ResponseInvariant, PTL

\* A committed response is finished, also when its transfer fails.
THEOREM ResponsesAreFinished == Spec => []AlwaysFinished
<1>1. ResponseInv => AlwaysFinished
    BY DEF ResponseInv
<1> QED
    BY <1>1, ResponseInvariant, PTL

\* No write exceeds the room the host's buffer has at that moment.
THEOREM WritesFit == Spec => WithinPermit
<1>1. ResponseInv /\ [Next]_vars => [sent' - sent <= Room]_vars
  <2> SUFFICES ASSUME ResponseInv, [Next]_vars, ~UNCHANGED vars
               PROVE  sent' - sent <= Room
      OBVIOUS
  <2>1. sent \in Nat /\ Room \in Nat
      BY DEF ResponseInv, TypeOK, Accounted, Room
  <2>2. CASE Write
      BY <2>1, <2>2 DEF Write, Count, StreamRefuses, ResponseInv, TypeOK,
                        Accounted, Room
  <2>3. CASE ~Write
    <3>1. sent' = sent
        BY <2>3 DEF Next, Guarded, DropGuarded, Producer, Transfer, Progress,
           DropTransfer, Draining, HostCloses, Build, BuildFails, SetupFails,
           Commit, StreamEnds, StreamFails, YieldChunk, ChunkWritten,
           CheckWrite, Flush, WaitResolves, WaitFails, Succeed, StreamRefuses,
           Drain
    <3> QED
        BY <3>1, <2>1
  <2> QED
      BY <2>2, <2>3
<1> QED
    BY <1>1, ResponseInvariant, PTL DEF Spec, WithinPermit

-----------------------------------------------------------------------------
(* The client's view *)

\* A step of the handler is a step of the answer or leaves the answer alone.
LEMMA AnswerStep ==
    ASSUME ResponseInv, ResponseInv', [Next]_vars
    PROVE  [Client!Next]_(Client!answerVars)
<1> USE DEF Client!answerVars
<1>1. CASE UNCHANGED vars
    BY <1>1 DEF vars, Over
<1>2. CASE Guarded \/ DropGuarded
  <2>1. drained' = drained /\ answer = "none" /\ ~Over
      BY <1>2 DEF Guarded, DropGuarded, Build, BuildFails, SetupFails, Commit,
                  ResponseInv, StageTells, Over
  <2>2. CASE Commit
      BY <2>1, <2>2 DEF Commit, Over, Client!Next, Client!Commit
  <2>3. CASE Build
      BY <2>1, <2>3 DEF Build, Over
  <2>4. CASE BuildFails \/ SetupFails \/ DropGuarded
    <3>1. Over' /\ SendInternalError
        BY <2>4 DEF BuildFails, SetupFails, DropGuarded, Over
    <3>2. CASE answer' = "error"
        BY <2>1, <3>1, <3>2 DEF Client!Next, Client!Apologize
    <3>3. CASE answer' = answer
        BY <2>1, <3>1, <3>3 DEF Client!Next, Client!Refuse
    <3> QED
        BY <3>1, <3>2, <3>3 DEF SendInternalError
  <2> QED
      BY <1>2, <2>2, <2>3, <2>4 DEF Guarded
<1>3. CASE Producer \/ Transfer \/ DropTransfer
  <2>1. /\ drained' = drained /\ answer' = answer
        /\ answer = "app" /\ ~Over
      BY <1>3 DEF Producer, Transfer, Progress, DropTransfer, StreamEnds, StreamFails,
         YieldChunk, ChunkWritten, CheckWrite, Write, Flush, WaitResolves,
         WaitFails, Succeed, StreamRefuses, Fail, Stay, ResponseInv,
         StageTells, Transferring, Stages, Over
  <2>2. CASE Over'
      BY <2>1, <2>2 DEF Client!Next, Client!End, Over
  <2>3. CASE ~Over'
      BY <2>1, <2>3 DEF Over
  <2> QED
      BY <2>2, <2>3
<1>4. CASE Draining
  <2>1. /\ drained' \in Nat /\ drained' > drained
        /\ UNCHANGED <<answer, Over>>
      BY <1>4 DEF Draining, Drain, Over, ResponseInv, TypeOK
  <2>2. answer = "app"
      BY <1>4, <2>1 DEF Draining, Drain, ResponseInv, StageTells, TypeOK,
                        Accounted
  <2> QED
      BY <2>1, <2>2 DEF Client!Next, Client!Arrive
<1>5. CASE \E how \in {"closed", "failed"} : HostCloses(how)
    BY <1>5 DEF HostCloses, Over
<1> QED
    BY <1>1, <1>2, <1>3, <1>4, <1>5 DEF Next

\* The handler implements HttpAnswer: one answer, never another one after it,
\* and a body that arrives in order and ends.
THEOREM OneAnswer == Spec => AnswersOnce
<1>1. Init => Client!Init
    BY DEF Init, Client!Init, Over
<1> QED
    BY <1>1, AnswerStep, ResponseInvariant, PTL DEF Spec, AnswersOnce,
       Client!Spec
-----------------------------------------------------------------------------
(* What the return of a handler rests on *)

\* Where the handler is in the life of a request, counted from the end.
Phase ==
    CASE stage = "building" -> 5
      [] stage = "rendering" -> 4
      [] stage \in {"next", "writing", "permitted", "waiting"} -> 3
      [] stage = "flushing" -> 2
      [] stage = "flushwait" -> 1
      [] Over -> 0

\* Steps of the write loop until some of the chunk is written; a loop that
\* finds the buffer full waits before it can write.
Turn ==
    CASE stage = "permitted" -> 1
      [] stage = "writing" /\ (left = 0 \/ Room > 0 \/ health # "open") -> 2
      [] stage = "waiting" -> 3
      [] stage = "writing" /\ left # 0 /\ Room = 0 /\ health = "open" -> 4
      [] stage \notin {"writing", "permitted", "waiting"} -> 0

\* A write loop with a permit writes something.
SomePermit == stage = "permitted" => permit > 0

\* Chunks still to come, bytes the host has still to pass on, and whether the
\* host can still end the stream.
Unmade == MaxChunks - chunks
Undrained == sent - drained
Unended == IF health = "open" THEN 1 ELSE 0

\* What is still to do is less after a step than before.
LessToDo ==
    \/ Phase' < Phase
    \/ Phase' = Phase /\ Unmade' < Unmade
    \/ Phase' = Phase /\ Unmade' = Unmade /\ left' < left
    \/ Phase' = Phase /\ Unmade' = Unmade /\ left' = left /\ Turn' < Turn
    \/ /\ Phase' = Phase /\ Unmade' = Unmade /\ left' = left /\ Turn' = Turn
       /\ Undrained' < Undrained \/ (Undrained' = Undrained /\ Unended' < Unended)

\* What a handler awaits comes: the host has it ready, or has bytes to drain
\* on an open stream.
WaitsAreOwed ==
    stage \in {"waiting", "flushwait"}
        => PollableIsReady \/ (health = "open" /\ drained < sent)
LEMMA PermitsAreSome == Spec => []SomePermit
<1>1. Init => SomePermit
    BY DEF Init, SomePermit
<1>2. ResponseInv /\ SomePermit /\ [Next]_vars => SomePermit'
  <2> SUFFICES ASSUME ResponseInv, SomePermit, [Next]_vars, stage' = "permitted"
               PROVE  permit' > 0
      BY DEF SomePermit
  <2>1. Room \in Nat
      BY DEF ResponseInv, TypeOK, Accounted, Room
  <2>2. CASE CheckWrite
      BY <2>1, <2>2 DEF CheckWrite, StreamRefuses, Fail
  <2>3. CASE ~CheckWrite
    <3>1. stage = "permitted" /\ permit' = permit
        BY <2>3 DEF Next, Guarded, DropGuarded, Producer, Transfer, Progress,
           DropTransfer, Draining, HostCloses, Build, BuildFails, SetupFails,
           Commit, StreamEnds, StreamFails, YieldChunk, ChunkWritten, Write,
           Flush, WaitResolves, WaitFails, Succeed, StreamRefuses, Fail, Drain,
           vars
    <3> QED
        BY <3>1 DEF SomePermit
  <2> QED
      BY <2>2, <2>3
<1> QED
    BY <1>1, <1>2, ResponseInvariant, PTL DEF Spec

\* What a handler that waits for the host is owed comes: its pollable is ready,
\* or the stream is open and the host has bytes to pass on (a full buffer is not
\* an empty one).
THEOREM WaitsAreKept == Spec => []WaitsAreOwed
<1>1. ResponseInv => WaitsAreOwed
  <2> SUFFICES ASSUME ResponseInv, stage \in {"waiting", "flushwait"}, ~PollableIsReady
               PROVE  health = "open" /\ drained < sent
      BY DEF WaitsAreOwed
  <2>1. sent \in Nat /\ drained \in Nat /\ drained <= sent /\ Room \in Nat
      BY DEF ResponseInv, TypeOK, Accounted, Room
  <2>2. health = "open"
      BY DEF PollableIsReady
  <2>3. CASE flushing
    <3>1. drained # sent
        BY <2>3 DEF PollableIsReady
    <3> QED
        BY <2>1, <2>2, <3>1
  <2>4. CASE ~flushing
    <3>1. ~(Room > 0)
        BY <2>4 DEF PollableIsReady
    <3>2. sent - drained = Cap
        BY <2>1, <3>1 DEF Room
    <3> QED
        BY <2>1, <2>2, <3>2
  <2> QED
      BY <2>3, <2>4
<1> QED
    BY <1>1, ResponseInvariant, PTL

PhaseTells ==
    /\ stage = "building" => Phase = 5
    /\ stage = "rendering" => Phase = 4
    /\ stage \in {"next", "writing", "permitted", "waiting"} => Phase = 3
    /\ stage = "flushing" => Phase = 2
    /\ stage = "flushwait" => Phase = 1
    /\ Over => Phase = 0

LEMMA PhaseIs == PhaseTells
<1>1. stage = "building" => Phase = 5
    BY DEF Phase, Over
<1>2. stage = "rendering" => Phase = 4
    BY DEF Phase, Over
<1>3. stage = "next" => Phase = 3
    BY DEF Phase, Over
<1>4. stage = "writing" => Phase = 3
    BY DEF Phase, Over
<1>5. stage = "permitted" => Phase = 3
    BY DEF Phase, Over
<1>6. stage = "waiting" => Phase = 3
    BY DEF Phase, Over
<1>7. stage = "flushing" => Phase = 2
    BY DEF Phase, Over
<1>8. stage = "flushwait" => Phase = 1
    BY DEF Phase, Over
<1>9. Over => Phase = 0
    BY DEF Phase, Over
<1> QED
    BY <1>1, <1>2, <1>3, <1>4, <1>5, <1>6, <1>7, <1>8, <1>9 DEF PhaseTells

TurnTells ==
    /\ stage \notin {"writing", "permitted", "waiting"} => Turn = 0
    /\ stage = "permitted" => Turn = 1
    /\ stage = "writing" /\ (left = 0 \/ Room > 0 \/ health # "open") => Turn = 2
    /\ stage = "waiting" => Turn = 3
    /\ stage = "writing" /\ left # 0 /\ Room = 0 /\ health = "open" => Turn = 4

LEMMA TurnIs == TurnTells
<1> DEFINE free == left = 0 \/ Room > 0 \/ health # "open"
           full == left # 0 /\ Room = 0 /\ health = "open"
<1>1. ~(free /\ full)
    OBVIOUS
<1>2. Turn = CASE stage = "permitted" -> 1
               [] stage = "writing" /\ free -> 2
               [] stage = "waiting" -> 3
               [] stage = "writing" /\ full -> 4
               [] stage \notin {"writing", "permitted", "waiting"} -> 0
    BY DEF Turn
<1> HIDE DEF free, full
<1>3. stage \notin {"writing", "permitted", "waiting"} => Turn = 0
    BY <1>2
<1>4. stage = "permitted" => Turn = 1
    BY <1>2
<1>5. stage = "writing" /\ free => Turn = 2
    BY <1>1, <1>2
<1>6. stage = "waiting" => Turn = 3
    BY <1>2
<1>7. stage = "writing" /\ full => Turn = 4
    BY <1>1, <1>2
<1> QED
    BY <1>3, <1>4, <1>5, <1>6, <1>7 DEF free, full, TurnTells

LEMMA PhasesAreFew ==
    ASSUME ResponseInv
    PROVE  Phase \in 0..5 /\ Turn \in 0..4
<1>1. stage \in Stages /\ Room \in Nat
    BY DEF ResponseInv, TypeOK, Accounted, Room
<1>2. left = 0 \/ Room > 0 \/ health # "open" \/ (left # 0 /\ Room = 0 /\ health = "open")
    BY <1>1
<1> HIDE DEF Stages
<1>3. Phase \in 0..5
    BY <1>1, PhaseIs DEF Stages, Over, PhaseTells
<1>4. Turn \in 0..4
    BY <1>2, TurnIs DEF TurnTells
<1> QED
    BY <1>3, <1>4
\* Each action leaves less to do.
LEMMA StepsDoSomething ==
    ASSUME ResponseInv, SomePermit, Next
    PROVE  LessToDo
<1>1. PhaseTells /\ PhaseTells' /\ TurnTells /\ TurnTells'
    BY PhaseIs, TurnIs, PTL
<1>2. /\ sent \in Nat /\ drained \in Nat /\ Room \in Nat /\ left \in Nat /\ permit \in Nat
      /\ chunks \in Nat /\ stage \in Stages
    BY DEF ResponseInv, TypeOK, Accounted, Room
<1>3. ASSUME ~Over, Over' PROVE LessToDo
  <2>1. Phase' = 0
      BY <1>1, <1>3 DEF PhaseTells
  <2>2. Phase \in 1..5
      BY <1>1, <1>2, <1>3 DEF PhaseTells, Stages, Over
  <2> QED
      BY <2>1, <2>2 DEF LessToDo
<1>4. ASSUME stage \in Transferring, NEW class, NEW cancellation, Fail(class, cancellation)
      PROVE  LessToDo
    BY <1>3, <1>4 DEF Fail, Over, Transferring
<1>5. ASSUME stage \in Transferring, StreamRefuses PROVE LessToDo
    BY <1>4, <1>5 DEF StreamRefuses
<1>6. CASE Guarded \/ DropGuarded
  <2>1. CASE Build
    <3>1. Phase = 5 /\ Phase' = 4
        BY <1>1, <2>1 DEF Build, PhaseTells
    <3> QED
        BY <3>1 DEF LessToDo
  <2>2. CASE Commit
    <3>1. Phase = 4 /\ Phase' = 3
        BY <1>1, <2>2 DEF Commit, PhaseTells
    <3> QED
        BY <3>1 DEF LessToDo
  <2>3. CASE BuildFails \/ SetupFails \/ DropGuarded
      BY <1>3, <2>3 DEF BuildFails, SetupFails, DropGuarded, Over
  <2> QED
      BY <1>6, <2>1, <2>2, <2>3 DEF Guarded
<1>7. CASE Producer
  <2>1. ASSUME NEW n \in 0..MaxChunk, YieldChunk(n) PROVE LessToDo
    <3>1. Phase = 3 /\ Phase' = 3
        BY <1>1, <2>1 DEF YieldChunk, PhaseTells
    <3>2. Unmade' < Unmade
        BY <1>2, <2>1, MaxChunksAssumption DEF YieldChunk, Unmade
    <3> QED
        BY <3>1, <3>2 DEF LessToDo
  <2>2. CASE StreamEnds
    <3>1. Phase = 3 /\ Phase' = 2
        BY <1>1, <2>2 DEF StreamEnds, PhaseTells
    <3> QED
        BY <3>1 DEF LessToDo
  <2>3. CASE StreamFails
      BY <1>4, <2>3 DEF StreamFails, Transferring, Stages
  <2> QED
      BY <1>7, <2>1, <2>2, <2>3 DEF Producer
<1>8. CASE ChunkWritten
  <2>1. Phase = 3 /\ Phase' = 3 /\ Turn = 2 /\ Turn' = 0
      BY <1>1, <1>8 DEF ChunkWritten, PhaseTells, TurnTells
  <2> QED
      BY <1>8, <2>1 DEF ChunkWritten, LessToDo, Unmade
<1>9. CASE CheckWrite
  <2>1. CASE StreamRefuses
      BY <1>5, <1>9, <2>1 DEF CheckWrite, Transferring, Stages
  <2>2. CASE health = "open" /\ Room = 0 /\ ~StreamRefuses
    <3>1. /\ stage = "writing" /\ left # 0 /\ Room = 0 /\ health = "open" /\ stage' = "waiting"
          /\ UNCHANGED <<chunks, left>>
        BY <1>2, <1>9, <2>2 DEF CheckWrite
    <3>2. Phase = 3 /\ Phase' = 3 /\ Turn = 4 /\ Turn' = 3
        BY <1>1, <3>1 DEF PhaseTells, TurnTells
    <3> QED
        BY <3>1, <3>2 DEF LessToDo, Unmade
  <2>3. CASE health = "open" /\ Room # 0 /\ ~StreamRefuses
    <3>1. /\ stage = "writing" /\ Room > 0 /\ stage' = "permitted"
          /\ UNCHANGED <<chunks, left>>
        BY <1>2, <1>9, <2>3 DEF CheckWrite
    <3>2. Phase = 3 /\ Phase' = 3 /\ Turn = 2 /\ Turn' = 1
        BY <1>1, <3>1 DEF PhaseTells, TurnTells
    <3> QED
        BY <3>1, <3>2 DEF LessToDo, Unmade
  <2> QED
      BY <1>9, <2>1, <2>2, <2>3 DEF CheckWrite
<1>10. CASE Write
  <2>1. CASE StreamRefuses
      BY <1>5, <1>10, <2>1 DEF Write, Transferring, Stages
  <2>2. CASE ~StreamRefuses
    <3>1. /\ stage = "permitted" /\ stage' = "writing" /\ left' = left - Count
          /\ UNCHANGED chunks
        BY <1>10, <2>2 DEF Write
    <3>2. permit > 0 /\ left > 0
        BY <3>1 DEF SomePermit, ResponseInv, Accounted
    <3>3. left' < left
        BY <1>2, <3>1, <3>2 DEF Count
    <3>4. Phase = 3 /\ Phase' = 3
        BY <1>1, <3>1 DEF PhaseTells
    <3> QED
        BY <3>1, <3>3, <3>4 DEF LessToDo, Unmade
  <2> QED
      BY <2>1, <2>2
<1>11. CASE Flush
  <2>1. CASE StreamRefuses
      BY <1>5, <1>11, <2>1 DEF Flush, Transferring, Stages
  <2>2. CASE ~StreamRefuses
    <3>1. Phase = 2 /\ Phase' = 1
        BY <1>1, <1>11, <2>2 DEF Flush, PhaseTells
    <3> QED
        BY <3>1 DEF LessToDo
  <2> QED
      BY <2>1, <2>2
<1>12. CASE WaitResolves
  <2>1. CASE stage = "waiting"
    <3>1. ~flushing
        BY <2>1 DEF ResponseInv, Accounted
    <3>2. /\ stage' = "writing" /\ (Room > 0 \/ health # "open")
          /\ UNCHANGED <<chunks, left, sent, drained, health>>
        BY <1>12, <2>1, <3>1 DEF WaitResolves, PollableIsReady
    <3>3. Room' = Room
        BY <3>2 DEF Room
    <3>4. Phase = 3 /\ Phase' = 3 /\ Turn = 3 /\ Turn' = 2
        BY <1>1, <2>1, <3>2, <3>3 DEF PhaseTells, TurnTells
    <3> QED
        BY <3>2, <3>4 DEF LessToDo, Unmade
  <2>2. CASE stage = "flushwait"
      BY <1>3, <1>12, <2>2 DEF WaitResolves, Succeed, Over
  <2> QED
      BY <1>12, <2>1, <2>2 DEF WaitResolves
<1>13. CASE WaitFails
    BY <1>4, <1>13 DEF WaitFails, Transferring, Stages
<1>14. CASE DropTransfer
    BY <1>3, <1>14 DEF DropTransfer, Over
<1>15. ASSUME stage' = stage, left' = left, Room' >= Room, Room' \in Nat,
              health' = "open" => health = "open"
       PROVE  Phase' = Phase /\ Turn' <= Turn /\ Turn' \in Nat
  <2>1. Phase' = Phase
      BY <1>1, <1>2, <1>15 DEF PhaseTells, Stages, Over
  <2>2. CASE stage = "writing" /\ (left = 0 \/ Room > 0 \/ health # "open")
    <3>1. Turn = 2
        BY <1>1, <2>2 DEF TurnTells
    <3>2. left' = 0 \/ Room' > 0 \/ health' # "open"
        BY <1>2, <1>15, <2>2
    <3>3. Turn' = 2
        BY <1>1, <1>15, <2>2, <3>2 DEF TurnTells
    <3> QED
        BY <2>1, <3>1, <3>3
  <2>3. CASE stage = "writing" /\ ~(left = 0 \/ Room > 0 \/ health # "open")
    <3>1. Turn = 4
      <4>1. left # 0 /\ Room = 0 /\ health = "open"
          BY <1>2, <2>3
      <4> QED
          BY <1>1, <2>3, <4>1 DEF TurnTells
    <3>2. stage' = "writing"
        BY <1>15, <2>3
    <3>3. Turn' = 2 \/ Turn' = 4
      <4>1. CASE left' = 0 \/ Room' > 0 \/ health' # "open"
          BY <1>1, <3>2, <4>1 DEF TurnTells
      <4>2. CASE ~(left' = 0 \/ Room' > 0 \/ health' # "open")
        <5>1. left' # 0 /\ Room' = 0 /\ health' = "open"
            BY <1>15, <4>2
        <5> QED
            BY <1>1, <3>2, <5>1 DEF TurnTells
      <4> QED
          BY <4>1, <4>2
    <3> QED
        BY <2>1, <3>1, <3>3
  <2>4. CASE stage # "writing"
    <3>1. stage' # "writing" /\ (stage' = "permitted" <=> stage = "permitted")
          /\ (stage' = "waiting" <=> stage = "waiting")
        BY <1>15, <2>4
    <3>2. Turn \in {0, 1, 3} /\ Turn' = Turn
        BY <1>1, <2>4, <3>1 DEF TurnTells
    <3> QED
        BY <2>1, <3>2
  <2> QED
      BY <2>2, <2>3, <2>4
<1>16. Turn \in Nat
    BY PhasesAreFew
<1>17. CASE Draining
  <2>1. /\ UNCHANGED <<stage, chunks, left, sent, health>> /\ drained' > drained
        /\ drained' \in Nat /\ drained' <= sent
      BY <1>2, <1>17 DEF Draining, Drain
  <2>2. Room' \in Nat /\ Room' >= Room
    <3>1. Room' = Cap - (sent - drained') /\ Room = Cap - (sent - drained)
        BY <2>1 DEF Room
    <3>2. \A s, d, e \in Nat : /\ d < e => Cap - (s - d) < Cap - (s - e)
                              /\ Cap - (s - e) \in Int
        BY ONLY CapAssumption
    <3>3. Room < Room' /\ Room' \in Int
        BY ONLY <1>2, <2>1, <3>1, <3>2
    <3> QED
        BY ONLY <1>2, <3>3
  <2>3. Phase' = Phase /\ Turn' <= Turn /\ Turn' \in Nat
      BY <1>15, <2>1, <2>2
  <2>4. Unmade' = Unmade /\ left' = left
      BY <2>1 DEF Unmade
  <2>5. Undrained' < Undrained
    <3>1. Undrained' = sent - drained' /\ Undrained = sent - drained
        BY <2>1 DEF Undrained
    <3>2. \A d, e \in Nat : d < e => sent - e < sent - d
        BY <1>2
    <3> QED
        BY ONLY <1>2, <2>1, <3>1, <3>2
  <2> QED
      BY <1>16, <2>3, <2>4, <2>5 DEF LessToDo
<1>18. CASE \E how \in {"closed", "failed"} : HostCloses(how)
  <2>1. /\ UNCHANGED <<stage, chunks, left, sent, drained>> /\ health = "open" /\ health' # "open"
      BY <1>18 DEF HostCloses
  <2>2. Room' = Room
      BY <2>1 DEF Room
  <2>3. Phase' = Phase /\ Turn' <= Turn /\ Turn' \in Nat
      BY <1>2, <1>15, <2>1, <2>2
  <2>4. Unmade' = Unmade /\ left' = left /\ Undrained' = Undrained
      BY <2>1 DEF Unmade, Undrained
  <2>5. Unended' < Unended
      BY <2>1 DEF Unended
  <2> QED
      BY <1>16, <2>3, <2>4, <2>5 DEF LessToDo
<1> QED
    BY <1>6, <1>7, <1>8, <1>9, <1>10, <1>11, <1>12, <1>13, <1>14, <1>17, <1>18
       DEF Next, Transfer, Progress
\* What is still to do, as a list of numbers.
ToDo ==
    [i \in 1..6 |-> CASE i = 1 -> Phase
                     [] i = 2 -> Unmade
                     [] i = 3 -> left
                     [] i = 4 -> Turn
                     [] i = 5 -> Undrained
                     [] i = 6 -> Unended]

ToDoFalls == <<ToDo', ToDo>> \in Falling(6)

ToDoTells ==
    /\ ToDo \in [1..6 -> Nat]
    /\ ToDo[1] = Phase /\ ToDo[2] = Unmade /\ ToDo[3] = left
    /\ ToDo[4] = Turn /\ ToDo[5] = Undrained /\ ToDo[6] = Unended

LEMMA ToDoIs == ResponseInv => ToDoTells
<1> SUFFICES ASSUME ResponseInv PROVE ToDoTells
    OBVIOUS
<1>1. /\ Phase \in Nat /\ Unmade \in Nat /\ left \in Nat /\ Turn \in Nat
      /\ Undrained \in Nat /\ Unended \in Nat
  <2>1. Phase \in Nat /\ Turn \in Nat
      BY PhasesAreFew
  <2>2. chunks \in 0..MaxChunks /\ left \in 0..MaxChunk /\ sent \in Nat /\ drained \in Nat
        /\ drained <= sent
      BY DEF ResponseInv, TypeOK, Accounted
  <2> QED
      BY <2>1, <2>2 DEF Unmade, Undrained, Unended
<1>2. /\ ToDo[1] = Phase /\ ToDo[2] = Unmade /\ ToDo[3] = left
      /\ ToDo[4] = Turn /\ ToDo[5] = Undrained /\ ToDo[6] = Unended
    BY DEF ToDo
<1>3. \A i \in 1..6 : ToDo[i] \in Nat
  <2>1. \A i \in 1..6 : i = 1 \/ i = 2 \/ i = 3 \/ i = 4 \/ i = 5 \/ i = 6
      OBVIOUS
  <2> QED
      BY <1>1, <1>2, <2>1
<1>4. ToDo = [i \in 1..6 |-> ToDo[i]]
    BY DEF ToDo
<1> QED
    BY <1>2, <1>3, <1>4 DEF ToDoTells

\* Whatever host, client, body stream and caller do, every step that is taken
\* leaves less to do, and what is to do cannot get less for ever: the life of a
\* request is finite (send_response and write_all spin nowhere).
THEOREM TransfersEnd ==
    /\ Spec => [][ToDoFalls]_vars
    /\ IsWellFoundedOn(Falling(6), [1..6 -> Nat])
<1>1. ResponseInv /\ ResponseInv' /\ SomePermit /\ [Next]_vars
          => [ToDoFalls]_vars
  <2> SUFFICES ASSUME ResponseInv, ResponseInv', SomePermit, Next
               PROVE  <<ToDo', ToDo>> \in Falling(6)
      BY DEF ToDoFalls
  <2>1. LessToDo
      BY StepsDoSomething
  <2>2. ToDoTells /\ ToDoTells'
      BY ToDoIs, PTL
  <2> PICK s : s = ToDo'
      OBVIOUS
  <2> PICK t : t = ToDo
      OBVIOUS
  <2>3. /\ s \in [1..6 -> Nat] /\ t \in [1..6 -> Nat]
        /\ s[1] = Phase' /\ t[1] = Phase /\ s[2] = Unmade' /\ t[2] = Unmade
        /\ s[3] = left' /\ t[3] = left /\ s[4] = Turn' /\ t[4] = Turn
        /\ s[5] = Undrained' /\ t[5] = Undrained /\ s[6] = Unended' /\ t[6] = Unended
      BY <2>2 DEF ToDoTells
  <2>4. \/ s[1] < t[1]
        \/ s[1] = t[1] /\ s[2] < t[2]
        \/ s[1] = t[1] /\ s[2] = t[2] /\ s[3] < t[3]
        \/ s[1] = t[1] /\ s[2] = t[2] /\ s[3] = t[3] /\ s[4] < t[4]
        \/ /\ s[1] = t[1] /\ s[2] = t[2] /\ s[3] = t[3] /\ s[4] = t[4]
           /\ s[5] < t[5] \/ (s[5] = t[5] /\ s[6] < t[6])
      BY <2>1, <2>3 DEF LessToDo
  <2>5. ASSUME NEW j \in 1..6, s[j] < t[j], \A i \in 1..(j - 1) : s[i] = t[i]
        PROVE  <<s, t>> \in Falling(6)
      BY <2>3, <2>5, FallsAt
  <2>6. <<s, t>> \in Falling(6)
      BY ONLY <2>4, <2>5
  <2> QED
      BY <2>6
<1>2. Spec => [][ToDoFalls]_vars
    BY <1>1, ResponseInvariant, PermitsAreSome, PTL DEF Spec
<1> QED
    BY <1>2, NothingFallsForEver
=============================================================================
