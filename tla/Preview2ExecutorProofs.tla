----------------------- MODULE Preview2ExecutorProofs -----------------------
(***************************************************************************)
(* WaitInv is an inductive invariant of the wait queue, for any number of  *)
(* waits, tasks and ids.  The executor uses the queue as the queue's own   *)
(* specification allows, so it inherits WaitInv; on top of it, the host is *)
(* asked only about live waits and only while no task can run, and no      *)
(* wake-up is lost.                                                        *)
(***************************************************************************)
EXTENDS Preview2Executor, TLAPS

USE NoTaskAssumption, MaxIdAssumption

-----------------------------------------------------------------------------
(* The wait queue *)

LEMMA InitHolds == WaitInit => WaitInv
BY DEF WaitInit, WaitInv, WaitTypeOK, PendingIsTracked, Exclusive,
       WakerIsLatest, HonestAnswer, DistinctIds, EntriesAccounted,
       StatusFollowsFuture, IdsBelowNext, IsPending, FutureStates, Statuses,
       Answers

LEMMA RegisterKeeps ==
    ASSUME NEW w \in Waits, NEW t \in Tasks, WaitInv, Register(w, t)
    PROVE  WaitInv'
<1> USE DEF WaitInv, Register, IsPending
<1>1. WaitTypeOK'
  BY DEF WaitTypeOK, FutureStates, Statuses, Answers
<1>2. PendingIsTracked'
  BY DEF WaitTypeOK, PendingIsTracked
<1>3. Exclusive'
  BY DEF WaitTypeOK, Exclusive, EntriesAccounted
<1>4. WakerIsLatest'
  BY DEF WaitTypeOK, WakerIsLatest
<1>5. HonestAnswer'
  BY DEF WaitTypeOK, HonestAnswer
<1>6. DistinctIds' /\ IdsBelowNext'
  BY DEF WaitTypeOK, DistinctIds, IdsBelowNext
<1>7. EntriesAccounted'
  BY DEF WaitTypeOK, EntriesAccounted
<1>8. StatusFollowsFuture'
  BY DEF WaitTypeOK, StatusFollowsFuture
<1>9. (\A v \in abandoned : future[v] = "registered" /\ IsPending(v))'
  BY DEF WaitTypeOK
<1>10. QED
  BY <1>1, <1>2, <1>3, <1>4, <1>5, <1>6, <1>7, <1>8, <1>9

LEMMA PollKeeps ==
    ASSUME NEW w \in Waits, NEW t \in Tasks, WaitInv, PollWait(w, t)
    PROVE  WaitInv'
<1>1. CASE Register(w, t)
  BY <1>1, RegisterKeeps
<1>2. CASE RegisterExhausted(w, t)
  BY <1>2 DEF RegisterExhausted, WaitInv, WaitTypeOK, PendingIsTracked,
       Exclusive, WakerIsLatest, HonestAnswer, DistinctIds, EntriesAccounted,
       StatusFollowsFuture, IdsBelowNext, IsPending, FutureStates, Answers
<1>3. CASE PollRegistered(w, t)
  <2> USE <1>3 DEF WaitInv, PollRegistered, IsPending
  <2>1. WaitTypeOK'
    BY DEF WaitTypeOK, Answers
  <2>2. PendingIsTracked' /\ Exclusive' /\ DistinctIds' /\ IdsBelowNext'
    BY DEF PendingIsTracked, Exclusive, DistinctIds, IdsBelowNext
  <2>3. WakerIsLatest'
    BY DEF WaitTypeOK, WakerIsLatest
  <2>4. HonestAnswer'
    BY DEF WaitTypeOK, HonestAnswer, StatusFollowsFuture
  <2>5. EntriesAccounted' /\ StatusFollowsFuture'
    BY DEF EntriesAccounted, StatusFollowsFuture
  <2>6. QED
    BY <2>1, <2>2, <2>3, <2>4, <2>5
<1>4. CASE PollFailed(w, t)
  BY <1>4 DEF PollFailed, WaitInv, WaitTypeOK, PendingIsTracked,
       Exclusive, WakerIsLatest, HonestAnswer, DistinctIds, EntriesAccounted,
       StatusFollowsFuture, IdsBelowNext, IsPending
<1>5. QED
  BY <1>1, <1>2, <1>3, <1>4 DEF PollWait

\* Dropping waits removes their own entries and no others.
LEMMA WithoutRemovesOwn ==
    ASSUME NEW D \in SUBSET Waits, WaitInv, \A w \in D : future[w] \in Held
    PROVE  Without(D) = queue \ D
<1>1. ASSUME NEW v \in queue, v \notin D
      PROVE  v \in Without(D)
  BY <1>1 DEF Without, WaitInv, WaitTypeOK, EntriesAccounted,
       StatusFollowsFuture, DistinctIds, IsPending
<1>2. ASSUME NEW v \in Without(D)
      PROVE  v \in queue /\ v \notin D
  BY <1>2 DEF Without, WaitInv, WaitTypeOK, EntriesAccounted, Held
<1>3. QED
  BY <1>1, <1>2 DEF Without

LEMMA DropKeeps ==
    ASSUME NEW D \in SUBSET Waits, WaitInv, DropWaits(D)
    PROVE  WaitInv'
<1>1. queue' = queue \ D
  BY WithoutRemovesOwn DEF DropWaits
<1> USE DEF WaitInv, DropWaits, IsPending
<1>2. WaitTypeOK'
  BY <1>1 DEF WaitTypeOK, FutureStates, Statuses
<1>3. PendingIsTracked'
  BY <1>1 DEF WaitTypeOK, PendingIsTracked
<1>4. Exclusive' /\ EntriesAccounted'
  BY <1>1 DEF WaitTypeOK, Exclusive, EntriesAccounted, StatusFollowsFuture, Held
<1>5. WakerIsLatest' /\ HonestAnswer'
  BY DEF WaitTypeOK, WakerIsLatest, HonestAnswer
<1>6. DistinctIds' /\ IdsBelowNext' /\ StatusFollowsFuture'
  BY DEF WaitTypeOK, DistinctIds, IdsBelowNext, StatusFollowsFuture, Held
<1>7. (\A v \in abandoned : future[v] = "registered" /\ IsPending(v))'
  BY DEF WaitTypeOK
<1>8. QED
  BY <1>2, <1>3, <1>4, <1>5, <1>6, <1>7

LEMMA TakeKeeps ==
    ASSUME WaitInv, TakePending
    PROVE  WaitInv'
BY DEF TakePending, WaitInv, WaitTypeOK, PendingIsTracked,
       Exclusive, WakerIsLatest, HonestAnswer, DistinctIds, EntriesAccounted,
       StatusFollowsFuture, IdsBelowNext, IsPending

LEMMA AnswerKeeps ==
    ASSUME NEW R \in SUBSET Waits, WaitInv, HostAnswer(R)
    PROVE  WaitInv'
<1> USE DEF WaitInv, HostAnswer, MarkReady, IsPending
<1>1. WaitTypeOK'
  <2>1. \A w \in {v \in R : IsPending(v)} : waker[w] \in Tasks
    BY DEF WaitTypeOK, WakerIsLatest, StatusFollowsFuture
  <2>2. QED
    BY <2>1 DEF WaitTypeOK, Statuses
<1>2. PendingIsTracked' /\ Exclusive' /\ EntriesAccounted'
  BY DEF WaitTypeOK, PendingIsTracked, Exclusive, EntriesAccounted
<1>3. WakerIsLatest' /\ HonestAnswer'
  BY DEF WaitTypeOK, WakerIsLatest, HonestAnswer
<1>4. DistinctIds' /\ IdsBelowNext' /\ StatusFollowsFuture'
  BY DEF WaitTypeOK, DistinctIds, IdsBelowNext, StatusFollowsFuture
<1>5. (\A v \in abandoned : future[v] = "registered" /\ IsPending(v))'
  BY DEF WaitTypeOK, Exclusive
<1>6. QED
  BY <1>1, <1>2, <1>3, <1>4, <1>5

\* sweep_ready and abandon_leftover_pollables differ only in what becomes of
\* the registrations that are not ready.
LEMMA ProbeKeepsTypes ==
    ASSUME WaitInv, Sweep \/ Abandon
    PROVE  WaitTypeOK'
<1> DEFINE entries == {w \in queue : IsPending(w)}
<1>1. \A w \in entries : waker[w] \in Tasks
  BY DEF WaitInv, WaitTypeOK, StatusFollowsFuture, IsPending
<1>2. queue' \subseteq Waits /\ abandoned' \subseteq Waits
  BY DEF Sweep, Abandon, WaitInv, WaitTypeOK
<1>3. status' \in [Waits -> Statuses] /\ toWake' \subseteq Tasks
  BY <1>1 DEF Sweep, Abandon, MarkReady, WaitInv, WaitTypeOK, Statuses,
              IsPending
<1>4. QED
  BY <1>2, <1>3 DEF Sweep, Abandon, WaitInv, WaitTypeOK

LEMMA SweepKeeps ==
    ASSUME WaitInv, Sweep
    PROVE  WaitInv'
<1>1. WaitTypeOK'
  BY ProbeKeepsTypes
<1> USE DEF WaitInv, Sweep, MarkReady, IsPending
<1>2. PendingIsTracked' /\ Exclusive' /\ EntriesAccounted'
  BY DEF WaitTypeOK, PendingIsTracked, Exclusive, EntriesAccounted
<1>3. WakerIsLatest' /\ HonestAnswer'
  BY DEF WaitTypeOK, WakerIsLatest, HonestAnswer
<1>4. DistinctIds' /\ IdsBelowNext' /\ StatusFollowsFuture'
  BY DEF WaitTypeOK, DistinctIds, IdsBelowNext, StatusFollowsFuture
<1>5. (\A v \in abandoned : future[v] = "registered" /\ IsPending(v))'
  BY DEF WaitTypeOK, Exclusive
<1>6. QED
  BY <1>1, <1>2, <1>3, <1>4, <1>5

LEMMA AbandonKeeps ==
    ASSUME WaitInv, Abandon
    PROVE  WaitInv'
<1>1. WaitTypeOK'
  BY ProbeKeepsTypes
<1> USE DEF WaitInv, Abandon, MarkReady, IsPending
<1>2. PendingIsTracked' /\ Exclusive' /\ EntriesAccounted'
  BY DEF WaitTypeOK, PendingIsTracked, Exclusive, EntriesAccounted
<1>3. WakerIsLatest' /\ HonestAnswer'
  BY DEF WaitTypeOK, WakerIsLatest, HonestAnswer
<1>4. DistinctIds' /\ IdsBelowNext' /\ StatusFollowsFuture'
  BY DEF WaitTypeOK, DistinctIds, IdsBelowNext, StatusFollowsFuture
<1>5. (\A v \in abandoned : future[v] = "registered" /\ IsPending(v))'
  BY DEF WaitTypeOK, Exclusive, EntriesAccounted
<1>6. QED
  BY <1>1, <1>2, <1>3, <1>4, <1>5

\* The steps that touch neither a registration nor the queue.
LEMMA EnvironmentKeeps ==
    ASSUME WaitInv, NEW w \in Waits, Create(w) \/ PollableReady(w)
    PROVE  WaitInv'
BY DEF Create, PollableReady, WaitInv, WaitTypeOK, PendingIsTracked, Exclusive,
       WakerIsLatest, HonestAnswer, DistinctIds, EntriesAccounted,
       StatusFollowsFuture, IdsBelowNext, IsPending, FutureStates

LEMMA WakeKeeps ==
    ASSUME WaitInv, NEW t \in Tasks,
           CallWaker(t) \/ Notice(t) \/ CallInline(t)
    PROVE  WaitInv'
<1> USE DEF WaitInv, WaitTypeOK, PendingIsTracked, Exclusive, WakerIsLatest,
        HonestAnswer, DistinctIds, EntriesAccounted, StatusFollowsFuture,
        IdsBelowNext, IsPending
<1>1. CASE CallWaker(t)
  BY <1>1 DEF CallWaker
<1>2. CASE Notice(t) \/ CallInline(t)
  BY <1>2 DEF Notice, CallInline, Noticed, Answers
<1>3. QED
  BY <1>1, <1>2

\* Every step of the wait queue keeps WaitInv.
THEOREM WaitStep == WaitInv /\ [WaitNext]_waitVars => WaitInv'
<1> SUFFICES ASSUME WaitInv, [WaitNext]_waitVars
             PROVE  WaitInv'
  OBVIOUS
<1>1. ASSUME NEW w \in Waits, Create(w) \/ PollableReady(w)
      PROVE  WaitInv'
  BY <1>1, EnvironmentKeeps
<1>2. ASSUME NEW w \in Waits, NEW t \in Tasks, PollWait(w, t)
      PROVE  WaitInv'
  BY <1>2, PollKeeps
<1>3. ASSUME NEW D \in SUBSET Waits, DropWaits(D)
      PROVE  WaitInv'
  BY <1>3, DropKeeps
<1>4. ASSUME NEW R \in SUBSET Waits, HostAnswer(R)
      PROVE  WaitInv'
  BY <1>4, AnswerKeeps
<1>5. ASSUME NEW t \in Tasks, CallWaker(t) \/ Notice(t) \/ CallInline(t)
      PROVE  WaitInv'
  BY <1>5, WakeKeeps
<1>6. CASE UNCHANGED waitVars
  BY <1>6 DEF waitVars, WaitInv, WaitTypeOK,
       PendingIsTracked, Exclusive, WakerIsLatest, HonestAnswer, DistinctIds,
       EntriesAccounted, StatusFollowsFuture, IdsBelowNext, IsPending
<1>7. QED
  BY <1>1, <1>2, <1>3, <1>4, <1>5, <1>6, TakeKeeps, SweepKeeps, AbandonKeeps
     DEF WaitNext

\* The queue never loses a live registration, the waker is always that of the
\* latest poll, and no answer is made up (PendingIsTracked, WakerIsLatest,
\* HonestAnswer and the rest of WaitInv).
THEOREM WaitSafety == WaitSpec => []WaitInv
<1>1. QED
  BY InitHolds, WaitStep, PTL DEF WaitSpec

-----------------------------------------------------------------------------
(* The queue implements WaitPromise *)

LEMMA PromiseInit == WaitInit => Promise!Init
BY DEF WaitInit, Promise!Init, told, Told

LEMMA PromiseStep ==
    ASSUME WaitInv, [WaitNext]_waitVars
    PROVE  [Promise!Next]_(Promise!promiseVars)
<1> USE DEF Promise!Next, Promise!promiseVars
<1>1. ASSUME NEW w \in Waits, Create(w)
      PROVE  Promise!Make(w)
  BY <1>1 DEF Create, Promise!Make, Promise!Goes, told, Told, WaitInv,
     WaitTypeOK
<1>2. ASSUME NEW w \in Waits, PollableReady(w)
      PROVE  [Promise!Next]_(Promise!promiseVars)
  <2>1. told' = told
    BY <1>2 DEF PollableReady, told, Told
  <2>2. told[w] \in {"new", "waiting", "resolved"}
    BY <1>2 DEF PollableReady, WaitInv, HonestAnswer, told, Told
  <2>3. Promise!Happen(w)
    BY <1>2, <2>1, <2>2 DEF PollableReady, Promise!Happen
  <2>4. QED
    BY <2>3
<1>3. ASSUME NEW w \in Waits, NEW t \in Tasks, Register(w, t)
      PROVE  Promise!Await(w)
  BY <1>3 DEF Register, Promise!Await, Promise!Goes, told, Told,
     WaitInv, WaitTypeOK
<1>4. ASSUME NEW w \in Waits, NEW t \in Tasks, RegisterExhausted(w, t)
      PROVE  Promise!Refuse(w)
  BY <1>4 DEF RegisterExhausted, Promise!Refuse, Promise!Goes, told, Told,
     WaitInv, WaitTypeOK
<1>5. ASSUME NEW w \in Waits, NEW t \in Tasks, PollRegistered(w, t)
      PROVE  [Promise!Next]_(Promise!promiseVars)
  <2>1. CASE status[w] = "Ready"
    <3>1. CASE answer[w] = "ok"
      BY <1>5, <2>1, <3>1 DEF PollRegistered, WaitInv, WaitTypeOK, told, Told
    <3>2. CASE answer[w] # "ok"
      <4>1. Promise!Resolve(w)
        BY <1>5, <2>1, <3>2 DEF PollRegistered, Promise!Resolve,
           Promise!Goes, told, Told, WaitInv, WaitTypeOK, HonestAnswer,
           StatusFollowsFuture
      <4>2. QED
        BY <4>1
    <3>3. QED
      BY <3>1, <3>2
  <2>2. CASE status[w] = "Pending"
    BY <1>5, <2>2 DEF PollRegistered, WaitInv, WaitTypeOK, WakerIsLatest,
       IsPending, told, Told
  <2>3. QED
    BY <1>5, <2>1, <2>2 DEF PollRegistered, WaitInv, StatusFollowsFuture
<1>6. ASSUME NEW w \in Waits, NEW t \in Tasks, PollFailed(w, t)
      PROVE  UNCHANGED Promise!promiseVars
  BY <1>6 DEF PollFailed, told, Told
<1>7. ASSUME NEW D \in SUBSET Waits, DropWaits(D)
      PROVE  [Promise!Next]_(Promise!promiseVars)
  <2>1. Promise!LetGo(D)
    BY <1>7 DEF DropWaits, Held, Promise!LetGo, WaitInv, WaitTypeOK,
       HonestAnswer, told, Told
  <2>2. QED
    BY <2>1
<1>8. CASE \/ TakePending \/ Sweep \/ Abandon
           \/ \E R \in SUBSET Waits : HostAnswer(R)
           \/ \E t \in Tasks : CallWaker(t)
           \/ UNCHANGED waitVars
  BY <1>8 DEF TakePending, Sweep, Abandon, HostAnswer, CallWaker, waitVars,
     told, Told
<1>9. ASSUME NEW t \in Tasks, Notice(t) \/ CallInline(t)
      PROVE  UNCHANGED Promise!promiseVars
  BY <1>9 DEF Notice, CallInline, Noticed, WaitInv, WaitTypeOK, told, Told
<1>10. QED
  BY <1>1, <1>2, <1>3, <1>4, <1>5, <1>6, <1>7, <1>8, <1>9
     DEF WaitNext, PollWait

\* A WaitPoll resolves only after its pollable is ready, is refused only at
\* its first poll and never reports PollableCanceled to its holder.
THEOREM WaitKeepsPromise == WaitSpec => KeepsPromise
<1>1. WaitInv /\ [WaitNext]_waitVars => [Promise!Next]_(Promise!promiseVars)
  BY PromiseStep
<1>2. QED
  BY <1>1, PromiseInit, WaitSafety, PTL
     DEF WaitSpec, KeepsPromise, Promise!Spec

-----------------------------------------------------------------------------
(* The executor *)

USE ModeAssumption, InlineWakersAssumption, MaxRunsAssumption, MaxNoiseAssumption

-----------------------------------------------------------------------------
(* Every step of the executor is a step of the wait queue *)

LEMMA GuestUsesQueue ==
    ASSUME cur \in Tasks \cup {NoTask}, Guest
    PROVE  [WaitNext]_waitVars
<1>1. ASSUME NEW w \in Waits,
             CreateWait(w) \/ PollOwnWait(w) \/ DropOwnWait(w)
      PROVE  WaitNext
  <2>1. CASE CreateWait(w)
    BY <2>1 DEF CreateWait, WaitNext
  <2>2. CASE PollOwnWait(w)
    BY <2>2 DEF PollOwnWait, WaitNext
  <2>3. CASE DropOwnWait(w)
    <3>1. {w} \in SUBSET Waits
      OBVIOUS
    <3>2. QED
      BY <2>3, <3>1 DEF DropOwnWait, WaitNext
  <2>4. QED
    BY <1>1, <2>1, <2>2, <2>3
<1>2. ASSUME NEW w \in Waits, NEW u \in Tasks, GiveWait(w, u)
      PROVE  UNCHANGED waitVars
  BY <1>2 DEF GiveWait
<1>3. ASSUME NEW u \in Tasks, Spawn(u) \/ WakeOther(u) \/ NestedRunUntil(u)
      PROVE  UNCHANGED waitVars
  BY <1>3 DEF Spawn, WakeOther, NestedRunUntil
<1>4. CASE SpawnFails \/ Suspend \/ Yield
  BY <1>4 DEF SpawnFails, Suspend, Yield
<1>5. CASE Complete
  <2>1. HeldBy(cur) \in SUBSET Waits /\ DropWaits(HeldBy(cur))
    BY <1>5 DEF Complete, Finish, HeldBy
  <2>2. QED
    BY <2>1 DEF WaitNext
<1>6. QED
  BY <1>1, <1>2, <1>3, <1>4, <1>5 DEF Guest, GuestAct

LEMMA PoolUsesQueue ==
    ASSUME Pool
    PROVE  [WaitNext]_waitVars
<1>1. ASSUME NEW t \in Tasks, BeginPoll(t)
      PROVE  WaitNext
  BY <1>1 DEF BeginPoll, WaitNext
<1>2. ASSUME NEW t \in Tasks, DropAborted(t)
      PROVE  WaitNext
  <2>1. HeldBy(t) \in SUBSET Waits /\ DropWaits(HeldBy(t))
    BY <1>2 DEF DropAborted, Finish, HeldBy
  <2>2. QED
    BY <2>1 DEF WaitNext
<1>3. CASE NothingRunnable
  BY <1>3 DEF NothingRunnable
<1>4. QED
  BY <1>1, <1>2, <1>3 DEF Pool

LEMMA HostUsesQueue ==
    ASSUME Host
    PROVE  [WaitNext]_waitVars
<1>1. CASE SweepHost
  BY <1>1 DEF SweepHost, WaitNext
<1>2. CASE EnterBlockingPoll
  BY <1>2 DEF EnterBlockingPoll, WaitNext
<1>3. ASSUME NEW R \in SUBSET Waits, BlockingPollReturns(R)
      PROVE  WaitNext
  BY <1>3 DEF BlockingPollReturns, WaitNext
<1>4. ASSUME NEW t \in Tasks, WakeTask(t) \/ WakeInline(t)
      PROVE  WaitNext
  BY <1>4 DEF WakeTask, WakeInline, WaitNext
<1>5. CASE WakersCalled
  BY <1>5 DEF WakersCalled
<1>6. QED
  BY <1>1, <1>2, <1>3, <1>4, <1>5 DEF Host

LEMMA DriveUsesQueue ==
    ASSUME Drive
    PROVE  [WaitNext]_waitVars
BY DEF Drive, RunUntil, PollLocal, ReportSpawnFailure, ReturnOutput, Proceed,
       ReportStalled, WaitNext

LEMMA StepUsesQueue ==
    ASSUME cur \in Tasks \cup {NoTask}, [Next]_vars
    PROVE  [WaitNext]_waitVars
<1>1. ASSUME NEW w \in Waits, HostEvent(w)
      PROVE  WaitNext
  BY <1>1 DEF HostEvent, WaitNext
<1>2. CASE UNCHANGED vars
  BY <1>2 DEF vars
<1>3. QED
  BY <1>1, <1>2, GuestUsesQueue, PoolUsesQueue, HostUsesQueue, DriveUsesQueue
     DEF Next

-----------------------------------------------------------------------------
(* Type correctness *)

\* The types of the driver's own variables; the step lemmas use WaitTypeOK
\* of the next state from WaitStep.
DriveTypeOK ==
    /\ pc \in Points
    /\ driver \in Drivers
    /\ root \in Tasks \cup {NoTask}
    /\ cur \in Tasks \cup {NoTask}
    /\ task \in [Tasks -> TaskStates]
    /\ holder \in [Waits -> Tasks \cup {NoTask}]
    /\ aborted \subseteq Tasks
    /\ output \in BOOLEAN
    /\ guestProgress \in BOOLEAN
    /\ hostProgress \in BOOLEAN
    /\ spawnFailed \in BOOLEAN
    /\ result \in Results
    /\ runs \in 0..MaxRuns
    /\ noise \in 0..MaxNoise

\* While a run is driven there is a root to abort.
RunHasRoot == driver = "run" => root \in Tasks

\* The points of the loop belong to run_until.
RunPoints == pc \in {"check", "guestDone", "hostDone"} => driver = "run"

TypeInv == DriveTypeOK /\ RunHasRoot /\ RunPoints

LEMMA WokenType ==
    ASSUME DriveTypeOK, NEW u \in Tasks
    PROVE  Woken(u) \in TaskStates
BY DEF DriveTypeOK, Woken, TaskStates

\* A task that completes leaves the driver where its types allow it.
LEMMA FinishKeepsTypes ==
    ASSUME TypeInv, NEW u \in Tasks, Finish(u)
    PROVE  /\ task' \in [Tasks -> TaskStates]
           /\ pc' \in Points /\ driver' \in Drivers /\ guestProgress' \in BOOLEAN
           /\ driver' = "run" => driver = "run"
           /\ RunPoints'
<1> USE DEF TypeInv, DriveTypeOK, RunPoints
<1>1. task' \in [Tasks -> TaskStates]
  BY DEF Finish, TaskStates
<1>2. CASE UNCHANGED <<pc, driver, guestProgress>>
  BY <1>1, <1>2
<1>3. CASE LeaveGuest(TRUE)
  BY <1>1, <1>3 DEF LeaveGuest, AfterGuest, Points, Drivers
<1>4. QED
  BY <1>2, <1>3 DEF Finish

LEMMA GuestKeepsTypes ==
    ASSUME TypeInv, Guest
    PROVE  TypeInv'
<1> USE DEF TypeInv, DriveTypeOK, RunHasRoot, RunPoints
<1>1. ASSUME NEW w \in Waits,
             CreateWait(w) \/ PollOwnWait(w) \/ DropOwnWait(w)
      PROVE  TypeInv'
  <2>1. UNCHANGED <<pc, driver, root, cur, task, aborted, output,
                    guestProgress, hostProgress, spawnFailed, result,
                    runs, noise>>
    BY <1>1 DEF CreateWait, PollOwnWait, DropOwnWait, OnlyWaits
  <2>2. holder' \in [Waits -> Tasks \cup {NoTask}]
    BY <1>1 DEF CreateWait, PollOwnWait, DropOwnWait
  <2>3. QED
    BY <2>1, <2>2
<1>2. ASSUME NEW w \in Waits, NEW u \in Tasks, GiveWait(w, u)
      PROVE  TypeInv'
  <2>1. Woken(u) \in TaskStates
    BY WokenType
  <2>2. task' \in [Tasks -> TaskStates] /\ noise' \in 0..MaxNoise
        /\ holder' \in [Waits -> Tasks \cup {NoTask}]
    BY <1>2, <2>1 DEF GiveWait, Noisy
  <2>3. QED
    BY <1>2, <2>2 DEF GiveWait
<1>3. ASSUME NEW u \in Tasks, Spawn(u) \/ WakeOther(u) \/ NestedRunUntil(u)
      PROVE  TypeInv'
  <2>1. CASE Spawn(u)
    BY <2>1 DEF Spawn, TaskStates
  <2>2. CASE WakeOther(u)
    BY <2>2 DEF WakeOther, Noisy, TaskStates
  <2>3. CASE NestedRunUntil(u)
    <3>1. spawnFailed' \in BOOLEAN
      BY <2>3, Zenon DEF NestedRunUntil
    <3>2. task' \in [Tasks -> TaskStates] /\ noise' \in 0..MaxNoise
          /\ aborted' \subseteq Tasks
      BY <2>3 DEF NestedRunUntil, Noisy, TaskStates
    <3>3. UNCHANGED <<pc, driver, root, cur, holder, output, guestProgress,
                      hostProgress, result, runs>>
      BY <2>3 DEF NestedRunUntil
    <3>4. QED
      BY <3>1, <3>2, <3>3
  <2>4. QED
    BY <1>3, <2>1, <2>2, <2>3
<1>4. CASE SpawnFails \/ Suspend \/ Yield
  <2>1. CASE SpawnFails
    BY <2>1 DEF SpawnFails, Noisy
  <2>2. CASE Suspend
    BY <2>2 DEF Suspend, TaskStates
  <2>3. CASE Yield
    BY <2>3 DEF Yield, Noisy, TaskStates
  <2>4. QED
    BY <1>4, <2>1, <2>2, <2>3, Zenon
<1>5. CASE Complete
  <2>1. /\ UNCHANGED <<root, holder, aborted, hostProgress, spawnFailed, result,
                       runs, noise>>
        /\ cur' = NoTask /\ cur # NoTask
    BY <1>5 DEF Complete
  <2>2. output' \in BOOLEAN
    BY <1>5, Zenon DEF Complete
  <2>3. Finish(cur)
    BY <1>5 DEF Complete
  <2>4. QED
    BY <2>1, <2>2, <2>3, FinishKeepsTypes
<1>6. QED
  BY <1>1, <1>2, <1>3, <1>4, <1>5 DEF Guest, GuestAct

LEMMA PoolKeepsTypes ==
    ASSUME TypeInv, Pool
    PROVE  TypeInv'
<1> USE DEF TypeInv, DriveTypeOK, RunHasRoot, RunPoints
<1>1. ASSUME NEW t \in Tasks, BeginPoll(t)
      PROVE  TypeInv'
  BY <1>1 DEF BeginPoll, TaskStates
<1>2. ASSUME NEW t \in Tasks, DropAborted(t)
      PROVE  TypeInv'
  <2>1. /\ UNCHANGED <<root, cur, holder, aborted, output, hostProgress, spawnFailed,
                       result, runs, noise>>
        /\ Finish(t)
    BY <1>2 DEF DropAborted
  <2>2. QED
    BY <2>1, FinishKeepsTypes
<1>3. CASE NothingRunnable
  BY <1>3 DEF NothingRunnable, LeaveGuest, AfterGuest, Points, Drivers
<1>4. QED
  BY <1>1, <1>2, <1>3 DEF Pool

LEMMA HostKeepsTypes ==
    ASSUME TypeInv, Host
    PROVE  TypeInv'
<1> USE DEF TypeInv, DriveTypeOK, RunHasRoot, RunPoints, Points, Drivers
<1>1. CASE SweepHost
  BY <1>1 DEF SweepHost
<1>2. CASE EnterBlockingPoll
  BY <1>2 DEF EnterBlockingPoll, AfterHost, DriverAfterHost
<1>3. ASSUME NEW R \in SUBSET Waits, BlockingPollReturns(R)
      PROVE  TypeInv'
  BY <1>3 DEF BlockingPollReturns
<1>4. ASSUME NEW t \in Tasks, WakeTask(t) \/ WakeInline(t)
      PROVE  TypeInv'
  <2>1. CASE WakeTask(t)
    <3>1. Woken(t) \in TaskStates
      BY WokenType
    <3>2. QED
      BY <2>1, <3>1 DEF WakeTask
  <2>2. CASE WakeInline(t)
    BY <2>2 DEF WakeInline, TaskStates
  <2>3. QED
    BY <1>4, <2>1, <2>2
<1>5. CASE WakersCalled
  BY <1>5 DEF WakersCalled, AfterHost, DriverAfterHost
<1>6. QED
  BY <1>1, <1>2, <1>3, <1>4, <1>5 DEF Host

LEMMA DriveKeepsTypes ==
    ASSUME TypeInv, Drive
    PROVE  TypeInv'
<1> USE DEF TypeInv, DriveTypeOK, RunHasRoot, RunPoints, Points, Drivers
<1>1. ASSUME NEW t \in Tasks, RunUntil(t)
      PROVE  TypeInv'
  <2>1. output' \in BOOLEAN
    BY <1>1, Zenon DEF RunUntil
  <2>2. task' \in [Tasks -> TaskStates] /\ runs' \in 0..MaxRuns
    BY <1>1 DEF RunUntil, TaskStates
  <2>3. UNCHANGED <<cur, holder, aborted, guestProgress, hostProgress,
                    spawnFailed, noise>>
    BY <1>1 DEF RunUntil
  <2>4. /\ pc' = "check" /\ driver' = "run" /\ result' = "none"
        /\ root' = t
    BY <1>1 DEF RunUntil
  <2>5. QED
    BY <2>1, <2>2, <2>3, <2>4 DEF Results
<1>2. CASE PollLocal
  BY <1>2 DEF PollLocal, Noisy, Results
<1>3. CASE ReportSpawnFailure \/ ReportStalled
  <2>1. PICK error \in {"TaskSpawnFailed", "Stalled"} : Fail(error)
    BY <1>3, Zenon DEF ReportSpawnFailure, ReportStalled
  <2>2. /\ UNCHANGED <<root, cur, holder, output, guestProgress, hostProgress, runs, noise>>
        /\ spawnFailed' \in {FALSE, spawnFailed}
    BY <1>3 DEF ReportSpawnFailure, ReportStalled
  <2>3. root \in Tasks
    BY <1>3 DEF ReportSpawnFailure, ReportStalled
  <2>4. /\ task' = [task EXCEPT ![root] = Woken(root)]
        /\ result' = error /\ aborted' = aborted \cup {root}
        /\ pc' = "guest" /\ driver' = "cleanup"
    BY <2>1, Zenon DEF Fail
  <2>5. Woken(root) \in TaskStates
    BY <2>3, WokenType
  <2>6. task' \in [Tasks -> TaskStates]
    BY <2>4, <2>5
  <2>7. result' \in Results /\ aborted' \subseteq Tasks
    BY <2>3, <2>4 DEF Results
  <2>8. QED
    BY <2>2, <2>4, <2>6, <2>7
<1>4. CASE ReturnOutput
  BY <1>4 DEF ReturnOutput, Results
<1>5. CASE Proceed
  BY <1>5 DEF Proceed
<1>6. QED
  BY <1>1, <1>2, <1>3, <1>4, <1>5 DEF Drive

LEMMA TypeStep == TypeInv /\ [Next]_vars => TypeInv'
<1> SUFFICES ASSUME TypeInv, [Next]_vars
             PROVE  TypeInv'
  OBVIOUS
<1>1. ASSUME NEW w \in Waits, HostEvent(w)
      PROVE  TypeInv'
  BY <1>1 DEF HostEvent, driveVars, TypeInv, DriveTypeOK, RunHasRoot, RunPoints
<1>2. CASE UNCHANGED vars
  BY <1>2 DEF vars, driveVars, TypeInv, DriveTypeOK, RunHasRoot, RunPoints
<1>3. QED
  BY <1>1, <1>2, GuestKeepsTypes, PoolKeepsTypes, HostKeepsTypes,
     DriveKeepsTypes DEF Next

LEMMA TypeInit == Init => TypeInv
<1> SUFFICES ASSUME Init
             PROVE  TypeInv
  OBVIOUS
<1>1. /\ output \in BOOLEAN /\ guestProgress \in BOOLEAN
      /\ hostProgress \in BOOLEAN /\ spawnFailed \in BOOLEAN
  BY Zenon DEF Init
<1>2. /\ pc \in Points /\ driver \in Drivers /\ result \in Results
      /\ task \in [Tasks -> TaskStates] /\ RunHasRoot /\ RunPoints
  BY DEF Init, Points, Drivers, Results, TaskStates, RunHasRoot, RunPoints
<1>3. /\ root \in Tasks \cup {NoTask} /\ cur \in Tasks \cup {NoTask}
      /\ holder \in [Waits -> Tasks \cup {NoTask}] /\ aborted \subseteq Tasks
      /\ runs \in 0..MaxRuns /\ noise \in 0..MaxNoise
  BY DEF Init
<1>4. QED
  BY <1>1, <1>2, <1>3 DEF TypeInv, DriveTypeOK

LEMMA TypesHold == Spec => []TypeInv
BY TypeInit, TypeStep, PTL DEF Spec

\* The executor implements the specification of its wait queue.
THEOREM ExecutorUsesWaitQueue == Spec => UsesWaitQueue
<1>1. Init => WaitInit
  BY DEF Init
<1>2. TypeInv /\ [Next]_vars => [WaitNext]_waitVars
  BY StepUsesQueue DEF TypeInv, DriveTypeOK
<1>3. QED
  BY <1>1, <1>2, TypesHold, PTL DEF Spec, UsesWaitQueue, WaitSpec

\* Type correctness of the whole executor.
THEOREM ExecutorTypes == Spec => []TypeOK
<1>1. WaitInv /\ TypeInv => TypeOK
  BY DEF WaitInv, TypeInv, DriveTypeOK, TypeOK
<1>2. QED
  BY <1>1, TypesHold, ExecutorUsesWaitQueue, WaitSafety, PTL
     DEF UsesWaitQueue

-----------------------------------------------------------------------------
(* The strengthened invariant, part by part *)

\* The host is polled only from `polling', guests act only while one is polled,
\* and the guest phase ends without a completion only when nothing is runnable.
LEMMA SchedulingStep ==
    ASSUME TypeOK, RunPoints, RootPhases, Scheduling, OnlyLiveQueued,
           [Next]_vars
    PROVE  Scheduling'
<1> USE DEF TypeOK, WaitTypeOK, RunPoints, RootPhases, Scheduling,
        OnlyLiveQueued, IsPending, Runnable, Sweeps
<1>1. ASSUME NEW w \in Waits, CreateWait(w)
      PROVE  Scheduling'
  BY <1>1 DEF CreateWait, Create, OnlyWaits
<1>2. ASSUME NEW w \in Waits, PollOwnWait(w)
      PROVE  Scheduling'
  BY <1>2 DEF PollOwnWait, PollWait, Register, RegisterExhausted,
     PollRegistered, PollFailed, OnlyWaits
<1>3. ASSUME NEW w \in Waits, DropOwnWait(w)
      PROVE  Scheduling'
  BY <1>3 DEF DropOwnWait, DropWaits, Without, OnlyWaits
<1>4. ASSUME NEW w \in Waits, NEW u \in Tasks, GiveWait(w, u)
      PROVE  Scheduling'
  BY <1>4 DEF GiveWait, Woken, waitVars
<1>5. ASSUME NEW u \in Tasks, Spawn(u)
      PROVE  Scheduling'
  BY <1>5 DEF Spawn, waitVars
<1>6. CASE SpawnFails
  BY <1>6 DEF SpawnFails, waitVars
<1>7. ASSUME NEW u \in Tasks, WakeOther(u)
      PROVE  Scheduling'
  BY <1>7 DEF WakeOther, waitVars
<1>8. ASSUME NEW u \in Tasks, NestedRunUntil(u)
      PROVE  Scheduling'
  BY <1>8 DEF NestedRunUntil, waitVars
<1>9. CASE Suspend
  BY <1>9 DEF Suspend, waitVars
<1>10. CASE Yield
  BY <1>10 DEF Yield, waitVars
<1>11. CASE Complete
  BY <1>11 DEF Complete, Finish, LeaveGuest, AfterGuest, EndsGuestPhase, DropWaits,
     Without
<1>12. ASSUME NEW t \in Tasks, BeginPoll(t)
      PROVE  Scheduling'
  BY <1>12 DEF BeginPoll, Notice, Noticed
<1>13. ASSUME NEW t \in Tasks, DropAborted(t)
      PROVE  Scheduling'
  BY <1>13 DEF DropAborted, Finish, LeaveGuest, AfterGuest, EndsGuestPhase,
     DropWaits, Without
<1>14. CASE NothingRunnable
  BY <1>14 DEF NothingRunnable, LeaveGuest, AfterGuest, waitVars
<1>15. CASE SweepHost
  BY <1>15 DEF SweepHost, Sweep, MarkReady
<1>16. CASE EnterBlockingPoll
  BY <1>16 DEF EnterBlockingPoll, TakePending, AfterHost, DriverAfterHost
<1>17. ASSUME NEW R \in SUBSET Waits, BlockingPollReturns(R)
      PROVE  Scheduling'
  BY <1>17 DEF BlockingPollReturns, HostAnswer, MarkReady
<1>18. ASSUME NEW t \in Tasks, WakeTask(t)
      PROVE  Scheduling'
  BY <1>18 DEF WakeTask, CallWaker, Woken
<1>19. ASSUME NEW t \in Tasks, WakeInline(t)
      PROVE  Scheduling'
  BY <1>19 DEF WakeInline, CallInline, Noticed
<1>20. CASE WakersCalled
  BY <1>20 DEF WakersCalled, AfterHost, DriverAfterHost, waitVars
<1>21. ASSUME NEW t \in Tasks, RunUntil(t)
      PROVE  Scheduling'
  BY <1>21 DEF RunUntil, waitVars
<1>22. CASE PollLocal
  BY <1>22 DEF PollLocal, waitVars
<1>23. CASE ReportSpawnFailure \/ ReportStalled
  BY <1>23 DEF ReportSpawnFailure, ReportStalled, Fail, Woken, waitVars
<1>24. CASE ReturnOutput
  BY <1>24 DEF ReturnOutput, Abandon, MarkReady
<1>25. CASE Proceed
  BY <1>25 DEF Proceed, waitVars
<1>26. ASSUME NEW w \in Waits, HostEvent(w)
      PROVE  Scheduling'
  BY <1>26 DEF HostEvent, PollableReady, driveVars
<1>27. CASE UNCHANGED vars
  BY <1>27 DEF vars, waitVars, driveVars
<1>28. QED
  BY <1>1, <1>2, <1>3, <1>4, <1>5, <1>6, <1>7, <1>8, <1>9, <1>10, <1>11,
     <1>12, <1>13, <1>14, <1>15, <1>16, <1>17, <1>18, <1>19, <1>20, <1>21,
     <1>22, <1>23, <1>24, <1>25, <1>26, <1>27
     DEF Next, Guest, GuestAct, Pool, Host, Drive

\* A task that has polled a wait stays in the pool or is done.
LEMMA PollersStep ==
    ASSUME TypeOK, Scheduling, PollersExist, [Next]_vars
    PROVE  PollersExist'
<1> USE DEF TypeOK, WaitTypeOK, Scheduling, PollersExist
<1>1. ASSUME NEW w \in Waits, CreateWait(w)
      PROVE  PollersExist'
  BY <1>1 DEF CreateWait, Create, OnlyWaits
<1>2. ASSUME NEW w \in Waits, PollOwnWait(w)
      PROVE  PollersExist'
  BY <1>2 DEF PollOwnWait, PollWait, Register, RegisterExhausted,
     PollRegistered, PollFailed, OnlyWaits
<1>3. ASSUME NEW w \in Waits, DropOwnWait(w)
      PROVE  PollersExist'
  BY <1>3 DEF DropOwnWait, DropWaits, Without, OnlyWaits
<1>4. ASSUME NEW w \in Waits, NEW u \in Tasks, GiveWait(w, u)
      PROVE  PollersExist'
  BY <1>4 DEF GiveWait, Woken, waitVars
<1>5. ASSUME NEW u \in Tasks, Spawn(u)
      PROVE  PollersExist'
  BY <1>5 DEF Spawn, waitVars
<1>6. CASE SpawnFails
  BY <1>6 DEF SpawnFails, waitVars
<1>7. ASSUME NEW u \in Tasks, WakeOther(u)
      PROVE  PollersExist'
  BY <1>7 DEF WakeOther, waitVars
<1>8. ASSUME NEW u \in Tasks, NestedRunUntil(u)
      PROVE  PollersExist'
  BY <1>8 DEF NestedRunUntil, waitVars
<1>9. CASE Suspend
  BY <1>9 DEF Suspend, waitVars
<1>10. CASE Yield
  BY <1>10 DEF Yield, waitVars
<1>11. CASE Complete
  BY <1>11 DEF Complete, Finish, LeaveGuest, AfterGuest, EndsGuestPhase, DropWaits,
     Without
<1>12. ASSUME NEW t \in Tasks, BeginPoll(t)
      PROVE  PollersExist'
  BY <1>12 DEF BeginPoll, Notice, Noticed
<1>13. ASSUME NEW t \in Tasks, DropAborted(t)
      PROVE  PollersExist'
  BY <1>13 DEF DropAborted, Finish, LeaveGuest, AfterGuest, EndsGuestPhase,
     DropWaits, Without
<1>14. CASE NothingRunnable
  BY <1>14 DEF NothingRunnable, LeaveGuest, AfterGuest, waitVars
<1>15. CASE SweepHost
  BY <1>15 DEF SweepHost, Sweep, MarkReady
<1>16. CASE EnterBlockingPoll
  BY <1>16 DEF EnterBlockingPoll, TakePending, AfterHost, DriverAfterHost
<1>17. ASSUME NEW R \in SUBSET Waits, BlockingPollReturns(R)
      PROVE  PollersExist'
  BY <1>17 DEF BlockingPollReturns, HostAnswer, MarkReady
<1>18. ASSUME NEW t \in Tasks, WakeTask(t)
      PROVE  PollersExist'
  BY <1>18 DEF WakeTask, CallWaker, Woken
<1>19. ASSUME NEW t \in Tasks, WakeInline(t)
      PROVE  PollersExist'
  BY <1>19 DEF WakeInline, CallInline, Noticed
<1>20. CASE WakersCalled
  BY <1>20 DEF WakersCalled, AfterHost, DriverAfterHost, waitVars
<1>21. ASSUME NEW t \in Tasks, RunUntil(t)
      PROVE  PollersExist'
  BY <1>21 DEF RunUntil, waitVars
<1>22. CASE PollLocal
  BY <1>22 DEF PollLocal, waitVars
<1>23. CASE ReportSpawnFailure \/ ReportStalled
  BY <1>23 DEF ReportSpawnFailure, ReportStalled, Fail, Woken, waitVars
<1>24. CASE ReturnOutput
  BY <1>24 DEF ReturnOutput, Abandon, MarkReady
<1>25. CASE Proceed
  BY <1>25 DEF Proceed, waitVars
<1>26. ASSUME NEW w \in Waits, HostEvent(w)
      PROVE  PollersExist'
  BY <1>26 DEF HostEvent, PollableReady, driveVars
<1>27. CASE UNCHANGED vars
  BY <1>27 DEF vars, waitVars, driveVars
<1>28. QED
  BY <1>1, <1>2, <1>3, <1>4, <1>5, <1>6, <1>7, <1>8, <1>9, <1>10, <1>11,
     <1>12, <1>13, <1>14, <1>15, <1>16, <1>17, <1>18, <1>19, <1>20, <1>21,
     <1>22, <1>23, <1>24, <1>25, <1>26, <1>27
     DEF Next, Guest, GuestAct, Pool, Host, Drive

\* Nothing but live waits is queued: while the entries are in hand no guest
\* acts, so none of them can be dropped before they are put back.
LEMMA LiveStep ==
    ASSUME TypeOK, WaitInv, Scheduling, OnlyLiveQueued, [Next]_vars
    PROVE  OnlyLiveQueued'
<1> USE DEF TypeOK, WaitTypeOK, WaitInv, Exclusive, Scheduling, OnlyLiveQueued,
        IsPending
<1>1. ASSUME NEW w \in Waits, CreateWait(w)
      PROVE  OnlyLiveQueued'
  BY <1>1 DEF CreateWait, Create, OnlyWaits
<1>2. ASSUME NEW w \in Waits, PollOwnWait(w)
      PROVE  OnlyLiveQueued'
  BY <1>2 DEF PollOwnWait, PollWait, Register, RegisterExhausted,
     PollRegistered, PollFailed, OnlyWaits
<1>3. ASSUME NEW w \in Waits, DropOwnWait(w)
      PROVE  OnlyLiveQueued'
  BY <1>3 DEF DropOwnWait, DropWaits, Without, OnlyWaits
<1>4. ASSUME NEW w \in Waits, NEW u \in Tasks, GiveWait(w, u)
      PROVE  OnlyLiveQueued'
  BY <1>4 DEF GiveWait, Woken, waitVars
<1>5. ASSUME NEW u \in Tasks, Spawn(u)
      PROVE  OnlyLiveQueued'
  BY <1>5 DEF Spawn, waitVars
<1>6. CASE SpawnFails
  BY <1>6 DEF SpawnFails, waitVars
<1>7. ASSUME NEW u \in Tasks, WakeOther(u)
      PROVE  OnlyLiveQueued'
  BY <1>7 DEF WakeOther, waitVars
<1>8. ASSUME NEW u \in Tasks, NestedRunUntil(u)
      PROVE  OnlyLiveQueued'
  BY <1>8 DEF NestedRunUntil, waitVars
<1>9. CASE Suspend
  BY <1>9 DEF Suspend, waitVars
<1>10. CASE Yield
  BY <1>10 DEF Yield, waitVars
<1>11. CASE Complete
  BY <1>11 DEF Complete, Finish, LeaveGuest, AfterGuest, EndsGuestPhase, DropWaits,
     Without
<1>12. ASSUME NEW t \in Tasks, BeginPoll(t)
      PROVE  OnlyLiveQueued'
  BY <1>12 DEF BeginPoll, Notice, Noticed
<1>13. ASSUME NEW t \in Tasks, DropAborted(t)
      PROVE  OnlyLiveQueued'
  BY <1>13 DEF DropAborted, Finish, LeaveGuest, AfterGuest, EndsGuestPhase,
     DropWaits, Without
<1>14. CASE NothingRunnable
  BY <1>14 DEF NothingRunnable, LeaveGuest, AfterGuest, waitVars
<1>15. CASE SweepHost
  BY <1>15 DEF SweepHost, Sweep, MarkReady
<1>16. CASE EnterBlockingPoll
  BY <1>16 DEF EnterBlockingPoll, TakePending, AfterHost, DriverAfterHost
<1>17. ASSUME NEW R \in SUBSET Waits, BlockingPollReturns(R)
      PROVE  OnlyLiveQueued'
  BY <1>17 DEF BlockingPollReturns, HostAnswer, MarkReady
<1>18. ASSUME NEW t \in Tasks, WakeTask(t)
      PROVE  OnlyLiveQueued'
  BY <1>18 DEF WakeTask, CallWaker, Woken
<1>19. ASSUME NEW t \in Tasks, WakeInline(t)
      PROVE  OnlyLiveQueued'
  BY <1>19 DEF WakeInline, CallInline, Noticed
<1>20. CASE WakersCalled
  BY <1>20 DEF WakersCalled, AfterHost, DriverAfterHost, waitVars
<1>21. ASSUME NEW t \in Tasks, RunUntil(t)
      PROVE  OnlyLiveQueued'
  BY <1>21 DEF RunUntil, waitVars
<1>22. CASE PollLocal
  BY <1>22 DEF PollLocal, waitVars
<1>23. CASE ReportSpawnFailure \/ ReportStalled
  BY <1>23 DEF ReportSpawnFailure, ReportStalled, Fail, Woken, waitVars
<1>24. CASE ReturnOutput
  BY <1>24 DEF ReturnOutput, Abandon, MarkReady
<1>25. CASE Proceed
  BY <1>25 DEF Proceed, waitVars
<1>26. ASSUME NEW w \in Waits, HostEvent(w)
      PROVE  OnlyLiveQueued'
  BY <1>26 DEF HostEvent, PollableReady, driveVars
<1>27. CASE UNCHANGED vars
  BY <1>27 DEF vars, waitVars, driveVars
<1>28. QED
  BY <1>1, <1>2, <1>3, <1>4, <1>5, <1>6, <1>7, <1>8, <1>9, <1>10, <1>11,
     <1>12, <1>13, <1>14, <1>15, <1>16, <1>17, <1>18, <1>19, <1>20, <1>21,
     <1>22, <1>23, <1>24, <1>25, <1>26, <1>27
     DEF Next, Guest, GuestAct, Pool, Host, Drive

\* A registration turns ready only together with the capture of its waker, and
\* a captured waker is called before the task can be found waiting.
LEMMA WakeupStep ==
    ASSUME TypeOK, WaitInv, Scheduling, PollersExist, NoLostWakeup, [Next]_vars
    PROVE  NoLostWakeup'
<1> USE DEF TypeOK, WaitTypeOK, WaitInv, WakerIsLatest, EntriesAccounted,
        StatusFollowsFuture, Scheduling, PollersExist, NoLostWakeup, IsPending,
        TaskStates
<1>1. ASSUME NEW w \in Waits, CreateWait(w)
      PROVE  NoLostWakeup'
  BY <1>1 DEF CreateWait, Create, OnlyWaits
<1>2. ASSUME NEW w \in Waits, PollOwnWait(w)
      PROVE  NoLostWakeup'
  BY <1>2 DEF PollOwnWait, PollWait, Register, RegisterExhausted,
     PollRegistered, PollFailed, OnlyWaits
<1>3. ASSUME NEW w \in Waits, DropOwnWait(w)
      PROVE  NoLostWakeup'
  BY <1>3 DEF DropOwnWait, DropWaits, Without, OnlyWaits
<1>4. ASSUME NEW w \in Waits, NEW u \in Tasks, GiveWait(w, u)
      PROVE  NoLostWakeup'
  BY <1>4 DEF GiveWait, Woken, waitVars
<1>5. ASSUME NEW u \in Tasks, Spawn(u)
      PROVE  NoLostWakeup'
  BY <1>5 DEF Spawn, waitVars
<1>6. CASE SpawnFails
  BY <1>6 DEF SpawnFails, waitVars
<1>7. ASSUME NEW u \in Tasks, WakeOther(u)
      PROVE  NoLostWakeup'
  BY <1>7 DEF WakeOther, waitVars
<1>8. ASSUME NEW u \in Tasks, NestedRunUntil(u)
      PROVE  NoLostWakeup'
  BY <1>8 DEF NestedRunUntil, waitVars
<1>9. CASE Suspend
  BY <1>9 DEF Suspend, waitVars
<1>10. CASE Yield
  BY <1>10 DEF Yield, waitVars
<1>11. CASE Complete
  BY <1>11 DEF Complete, Finish, LeaveGuest, AfterGuest, EndsGuestPhase, DropWaits,
     Without
<1>12. ASSUME NEW t \in Tasks, BeginPoll(t)
      PROVE  NoLostWakeup'
  BY <1>12 DEF BeginPoll, Notice, Noticed
<1>13. ASSUME NEW t \in Tasks, DropAborted(t)
      PROVE  NoLostWakeup'
  BY <1>13 DEF DropAborted, Finish, LeaveGuest, AfterGuest, EndsGuestPhase,
     DropWaits, Without
<1>14. CASE NothingRunnable
  BY <1>14 DEF NothingRunnable, LeaveGuest, AfterGuest, waitVars
<1>15. CASE SweepHost
  BY <1>15 DEF SweepHost, Sweep, MarkReady
<1>16. CASE EnterBlockingPoll
  BY <1>16 DEF EnterBlockingPoll, TakePending, AfterHost, DriverAfterHost
<1>17. ASSUME NEW R \in SUBSET Waits, BlockingPollReturns(R)
      PROVE  NoLostWakeup'
  BY <1>17 DEF BlockingPollReturns, HostAnswer, MarkReady
<1>18. ASSUME NEW t \in Tasks, WakeTask(t)
      PROVE  NoLostWakeup'
  BY <1>18 DEF WakeTask, CallWaker, Woken
<1>19. ASSUME NEW t \in Tasks, WakeInline(t)
      PROVE  NoLostWakeup'
  BY <1>19 DEF WakeInline, CallInline, Noticed
<1>20. CASE WakersCalled
  BY <1>20 DEF WakersCalled, AfterHost, DriverAfterHost, waitVars
<1>21. ASSUME NEW t \in Tasks, RunUntil(t)
      PROVE  NoLostWakeup'
  BY <1>21 DEF RunUntil, waitVars
<1>22. CASE PollLocal
  BY <1>22 DEF PollLocal, waitVars
<1>23. CASE ReportSpawnFailure \/ ReportStalled
  BY <1>23 DEF ReportSpawnFailure, ReportStalled, Fail, Woken, waitVars
<1>24. CASE ReturnOutput
  BY <1>24 DEF ReturnOutput, Abandon, MarkReady
<1>25. CASE Proceed
  BY <1>25 DEF Proceed, waitVars
<1>26. ASSUME NEW w \in Waits, HostEvent(w)
      PROVE  NoLostWakeup'
  BY <1>26 DEF HostEvent, PollableReady, driveVars
<1>27. CASE UNCHANGED vars
  BY <1>27 DEF vars, waitVars, driveVars
<1>28. QED
  BY <1>1, <1>2, <1>3, <1>4, <1>5, <1>6, <1>7, <1>8, <1>9, <1>10, <1>11,
     <1>12, <1>13, <1>14, <1>15, <1>16, <1>17, <1>18, <1>19, <1>20, <1>21,
     <1>22, <1>23, <1>24, <1>25, <1>26, <1>27
     DEF Next, Guest, GuestAct, Pool, Host, Drive

\* How far the root is, by what is being driven.
LEMMA RootStep ==
    ASSUME TypeOK, TypeInv, Scheduling, RootPhases, [Next]_vars
    PROVE  RootPhases'
<1> USE DEF TypeOK, WaitTypeOK, Scheduling, RootPhases, TypeInv,
        RunHasRoot, RunPoints, Drivers, Runnable, TaskStates
<1>1. ASSUME NEW w \in Waits, CreateWait(w)
      PROVE  RootPhases'
  BY <1>1 DEF CreateWait, Create, OnlyWaits
<1>2. ASSUME NEW w \in Waits, PollOwnWait(w)
      PROVE  RootPhases'
  BY <1>2 DEF PollOwnWait, PollWait, Register, RegisterExhausted,
     PollRegistered, PollFailed, OnlyWaits
<1>3. ASSUME NEW w \in Waits, DropOwnWait(w)
      PROVE  RootPhases'
  BY <1>3 DEF DropOwnWait, DropWaits, Without, OnlyWaits
<1>4. ASSUME NEW w \in Waits, NEW u \in Tasks, GiveWait(w, u)
      PROVE  RootPhases'
  BY <1>4 DEF GiveWait, Woken, waitVars
<1>5. ASSUME NEW u \in Tasks, Spawn(u)
      PROVE  RootPhases'
  BY <1>5 DEF Spawn, waitVars
<1>6. CASE SpawnFails
  BY <1>6 DEF SpawnFails, waitVars
<1>7. ASSUME NEW u \in Tasks, WakeOther(u)
      PROVE  RootPhases'
  BY <1>7 DEF WakeOther, waitVars
<1>8. ASSUME NEW u \in Tasks, NestedRunUntil(u)
      PROVE  RootPhases'
  BY <1>8 DEF NestedRunUntil, waitVars
<1>9. CASE Suspend
  BY <1>9 DEF Suspend, waitVars
<1>10. CASE Yield
  BY <1>10 DEF Yield, waitVars
<1>11. CASE Complete
  BY <1>11 DEF Complete, Finish, LeaveGuest, AfterGuest, EndsGuestPhase, DropWaits,
     Without
<1>12. ASSUME NEW t \in Tasks, BeginPoll(t)
      PROVE  RootPhases'
  BY <1>12 DEF BeginPoll, Notice, Noticed
<1>13. ASSUME NEW t \in Tasks, DropAborted(t)
      PROVE  RootPhases'
  BY <1>13 DEF DropAborted, Finish, LeaveGuest, AfterGuest, EndsGuestPhase,
     DropWaits, Without
<1>14. CASE NothingRunnable
  BY <1>14 DEF NothingRunnable, LeaveGuest, AfterGuest, waitVars
<1>15. CASE SweepHost
  BY <1>15 DEF SweepHost, Sweep, MarkReady
<1>16. CASE EnterBlockingPoll
  BY <1>16 DEF EnterBlockingPoll, TakePending, AfterHost, DriverAfterHost
<1>17. ASSUME NEW R \in SUBSET Waits, BlockingPollReturns(R)
      PROVE  RootPhases'
  BY <1>17 DEF BlockingPollReturns, HostAnswer, MarkReady
<1>18. ASSUME NEW t \in Tasks, WakeTask(t)
      PROVE  RootPhases'
  BY <1>18 DEF WakeTask, CallWaker, Woken
<1>19. ASSUME NEW t \in Tasks, WakeInline(t)
      PROVE  RootPhases'
  BY <1>19 DEF WakeInline, CallInline, Noticed
<1>20. CASE WakersCalled
  BY <1>20 DEF WakersCalled, AfterHost, DriverAfterHost, waitVars
<1>21. ASSUME NEW t \in Tasks, RunUntil(t)
      PROVE  RootPhases'
  BY <1>21 DEF RunUntil, waitVars
<1>22. CASE PollLocal
  BY <1>22 DEF PollLocal, waitVars
<1>23. CASE ReportSpawnFailure \/ ReportStalled
  BY <1>23 DEF ReportSpawnFailure, ReportStalled, Fail, Woken, waitVars
<1>24. CASE ReturnOutput
  BY <1>24 DEF ReturnOutput, Abandon, MarkReady
<1>25. CASE Proceed
  BY <1>25 DEF Proceed, waitVars
<1>26. ASSUME NEW w \in Waits, HostEvent(w)
      PROVE  RootPhases'
  BY <1>26 DEF HostEvent, PollableReady, driveVars
<1>27. CASE UNCHANGED vars
  BY <1>27 DEF vars, waitVars, driveVars
<1>28. QED
  BY <1>1, <1>2, <1>3, <1>4, <1>5, <1>6, <1>7, <1>8, <1>9, <1>10, <1>11,
     <1>12, <1>13, <1>14, <1>15, <1>16, <1>17, <1>18, <1>19, <1>20, <1>21,
     <1>22, <1>23, <1>24, <1>25, <1>26, <1>27
     DEF Next, Guest, GuestAct, Pool, Host, Drive

\* A finished task has dropped its waits and is never given another.
LEMMA DoneStep ==
    ASSUME TypeOK, Scheduling, DoneHoldsNothing, [Next]_vars
    PROVE  DoneHoldsNothing'
<1> USE DEF TypeOK, WaitTypeOK, Scheduling, DoneHoldsNothing, HeldBy, Held
<1>1. ASSUME NEW w \in Waits, CreateWait(w)
      PROVE  DoneHoldsNothing'
  BY <1>1 DEF CreateWait, Create, OnlyWaits
<1>2. ASSUME NEW w \in Waits, PollOwnWait(w)
      PROVE  DoneHoldsNothing'
  BY <1>2 DEF PollOwnWait, PollWait, Register, RegisterExhausted,
     PollRegistered, PollFailed, OnlyWaits
<1>3. ASSUME NEW w \in Waits, DropOwnWait(w)
      PROVE  DoneHoldsNothing'
  BY <1>3 DEF DropOwnWait, DropWaits, Without, OnlyWaits
<1>4. ASSUME NEW w \in Waits, NEW u \in Tasks, GiveWait(w, u)
      PROVE  DoneHoldsNothing'
  BY <1>4 DEF GiveWait, Woken, waitVars
<1>5. ASSUME NEW u \in Tasks, Spawn(u)
      PROVE  DoneHoldsNothing'
  BY <1>5 DEF Spawn, waitVars
<1>6. CASE SpawnFails
  BY <1>6 DEF SpawnFails, waitVars
<1>7. ASSUME NEW u \in Tasks, WakeOther(u)
      PROVE  DoneHoldsNothing'
  BY <1>7 DEF WakeOther, waitVars
<1>8. ASSUME NEW u \in Tasks, NestedRunUntil(u)
      PROVE  DoneHoldsNothing'
  BY <1>8 DEF NestedRunUntil, waitVars
<1>9. CASE Suspend
  BY <1>9 DEF Suspend, waitVars
<1>10. CASE Yield
  BY <1>10 DEF Yield, waitVars
<1>11. CASE Complete
  BY <1>11 DEF Complete, Finish, LeaveGuest, AfterGuest, EndsGuestPhase, DropWaits,
     Without
<1>12. ASSUME NEW t \in Tasks, BeginPoll(t)
      PROVE  DoneHoldsNothing'
  BY <1>12 DEF BeginPoll, Notice, Noticed
<1>13. ASSUME NEW t \in Tasks, DropAborted(t)
      PROVE  DoneHoldsNothing'
  BY <1>13 DEF DropAborted, Finish, LeaveGuest, AfterGuest, EndsGuestPhase,
     DropWaits, Without
<1>14. CASE NothingRunnable
  BY <1>14 DEF NothingRunnable, LeaveGuest, AfterGuest, waitVars
<1>15. CASE SweepHost
  BY <1>15 DEF SweepHost, Sweep, MarkReady
<1>16. CASE EnterBlockingPoll
  BY <1>16 DEF EnterBlockingPoll, TakePending, AfterHost, DriverAfterHost
<1>17. ASSUME NEW R \in SUBSET Waits, BlockingPollReturns(R)
      PROVE  DoneHoldsNothing'
  BY <1>17 DEF BlockingPollReturns, HostAnswer, MarkReady
<1>18. ASSUME NEW t \in Tasks, WakeTask(t)
      PROVE  DoneHoldsNothing'
  BY <1>18 DEF WakeTask, CallWaker, Woken
<1>19. ASSUME NEW t \in Tasks, WakeInline(t)
      PROVE  DoneHoldsNothing'
  BY <1>19 DEF WakeInline, CallInline, Noticed
<1>20. CASE WakersCalled
  BY <1>20 DEF WakersCalled, AfterHost, DriverAfterHost, waitVars
<1>21. ASSUME NEW t \in Tasks, RunUntil(t)
      PROVE  DoneHoldsNothing'
  BY <1>21 DEF RunUntil, waitVars
<1>22. CASE PollLocal
  BY <1>22 DEF PollLocal, waitVars
<1>23. CASE ReportSpawnFailure \/ ReportStalled
  BY <1>23 DEF ReportSpawnFailure, ReportStalled, Fail, Woken, waitVars
<1>24. CASE ReturnOutput
  BY <1>24 DEF ReturnOutput, Abandon, MarkReady
<1>25. CASE Proceed
  BY <1>25 DEF Proceed, waitVars
<1>26. ASSUME NEW w \in Waits, HostEvent(w)
      PROVE  DoneHoldsNothing'
  BY <1>26 DEF HostEvent, PollableReady, driveVars
<1>27. CASE UNCHANGED vars
  BY <1>27 DEF vars, waitVars, driveVars
<1>28. QED
  BY <1>1, <1>2, <1>3, <1>4, <1>5, <1>6, <1>7, <1>8, <1>9, <1>10, <1>11,
     <1>12, <1>13, <1>14, <1>15, <1>16, <1>17, <1>18, <1>19, <1>20, <1>21,
     <1>22, <1>23, <1>24, <1>25, <1>26, <1>27
     DEF Next, Guest, GuestAct, Pool, Host, Drive

\* After a successful run nothing registers until the next call, if no waker
\* polls inline.
LEMMA OkStep ==
    ASSUME TypeOK, Scheduling, RootPhases, OkLeavesNothing, [Next]_vars
    PROVE  OkLeavesNothing'
<1> USE DEF TypeOK, WaitTypeOK, Scheduling, RootPhases, OkLeavesNothing
<1>1. ASSUME NEW w \in Waits, CreateWait(w)
      PROVE  OkLeavesNothing'
  BY <1>1 DEF CreateWait, Create, OnlyWaits
<1>2. ASSUME NEW w \in Waits, PollOwnWait(w)
      PROVE  OkLeavesNothing'
  BY <1>2 DEF PollOwnWait, PollWait, Register, RegisterExhausted,
     PollRegistered, PollFailed, OnlyWaits
<1>3. ASSUME NEW w \in Waits, DropOwnWait(w)
      PROVE  OkLeavesNothing'
  BY <1>3 DEF DropOwnWait, DropWaits, Without, OnlyWaits
<1>4. ASSUME NEW w \in Waits, NEW u \in Tasks, GiveWait(w, u)
      PROVE  OkLeavesNothing'
  BY <1>4 DEF GiveWait, Woken, waitVars
<1>5. ASSUME NEW u \in Tasks, Spawn(u)
      PROVE  OkLeavesNothing'
  BY <1>5 DEF Spawn, waitVars
<1>6. CASE SpawnFails
  BY <1>6 DEF SpawnFails, waitVars
<1>7. ASSUME NEW u \in Tasks, WakeOther(u)
      PROVE  OkLeavesNothing'
  BY <1>7 DEF WakeOther, waitVars
<1>8. ASSUME NEW u \in Tasks, NestedRunUntil(u)
      PROVE  OkLeavesNothing'
  BY <1>8 DEF NestedRunUntil, waitVars
<1>9. CASE Suspend
  BY <1>9 DEF Suspend, waitVars
<1>10. CASE Yield
  BY <1>10 DEF Yield, waitVars
<1>11. CASE Complete
  BY <1>11 DEF Complete, Finish, LeaveGuest, AfterGuest, EndsGuestPhase, DropWaits,
     Without
<1>12. ASSUME NEW t \in Tasks, BeginPoll(t)
      PROVE  OkLeavesNothing'
  BY <1>12 DEF BeginPoll, Notice, Noticed
<1>13. ASSUME NEW t \in Tasks, DropAborted(t)
      PROVE  OkLeavesNothing'
  BY <1>13 DEF DropAborted, Finish, LeaveGuest, AfterGuest, EndsGuestPhase,
     DropWaits, Without
<1>14. CASE NothingRunnable
  BY <1>14 DEF NothingRunnable, LeaveGuest, AfterGuest, waitVars
<1>15. CASE SweepHost
  BY <1>15 DEF SweepHost, Sweep, MarkReady
<1>16. CASE EnterBlockingPoll
  BY <1>16 DEF EnterBlockingPoll, TakePending, AfterHost, DriverAfterHost
<1>17. ASSUME NEW R \in SUBSET Waits, BlockingPollReturns(R)
      PROVE  OkLeavesNothing'
  BY <1>17 DEF BlockingPollReturns, HostAnswer, MarkReady
<1>18. ASSUME NEW t \in Tasks, WakeTask(t)
      PROVE  OkLeavesNothing'
  BY <1>18 DEF WakeTask, CallWaker, Woken
<1>19. ASSUME NEW t \in Tasks, WakeInline(t)
      PROVE  OkLeavesNothing'
  BY <1>19 DEF WakeInline, CallInline, Noticed
<1>20. CASE WakersCalled
  BY <1>20 DEF WakersCalled, AfterHost, DriverAfterHost, waitVars
<1>21. ASSUME NEW t \in Tasks, RunUntil(t)
      PROVE  OkLeavesNothing'
  BY <1>21 DEF RunUntil, waitVars
<1>22. CASE PollLocal
  BY <1>22 DEF PollLocal, waitVars
<1>23. CASE ReportSpawnFailure \/ ReportStalled
  BY <1>23 DEF ReportSpawnFailure, ReportStalled, Fail, Woken, waitVars
<1>24. CASE ReturnOutput
  BY <1>24 DEF ReturnOutput, Abandon, MarkReady
<1>25. CASE Proceed
  BY <1>25 DEF Proceed, waitVars
<1>26. ASSUME NEW w \in Waits, HostEvent(w)
      PROVE  OkLeavesNothing'
  BY <1>26 DEF HostEvent, PollableReady, driveVars
<1>27. CASE UNCHANGED vars
  BY <1>27 DEF vars, waitVars, driveVars
<1>28. QED
  BY <1>1, <1>2, <1>3, <1>4, <1>5, <1>6, <1>7, <1>8, <1>9, <1>10, <1>11,
     <1>12, <1>13, <1>14, <1>15, <1>16, <1>17, <1>18, <1>19, <1>20, <1>21,
     <1>22, <1>23, <1>24, <1>25, <1>26, <1>27
     DEF Next, Guest, GuestAct, Pool, Host, Drive

-----------------------------------------------------------------------------
(* The theorems *)

LEMMA ExecInit == Init /\ TypeOK /\ WaitInv => ExecInv
BY DEF Init, WaitInit, ExecInv, TypeOK, WaitTypeOK, Scheduling, PollersExist,
       OnlyLiveQueued, NoLostWakeup, RootPhases, DoneHoldsNothing,
       OkLeavesNothing, HeldBy, Held, Runnable

LEMMA ExecStep ==
    ASSUME ExecInv, TypeInv, TypeOK', WaitInv', [Next]_vars
    PROVE  ExecInv'
BY SchedulingStep, PollersStep, LiveStep, WakeupStep, RootStep, DoneStep, OkStep
   DEF ExecInv, TypeInv

\* ExecInv holds throughout: NoLostWakeup, OnlyLiveQueued and all that makes
\* them inductive.
THEOREM ExecutorInvariant == Spec => []ExecInv
<1>1. ExecInv /\ TypeInv /\ TypeOK' /\ WaitInv' /\ [Next]_vars => ExecInv'
  BY ExecStep
<1>2. Spec => []WaitInv
  BY ExecutorUsesWaitQueue, WaitSafety, PTL DEF UsesWaitQueue
<1>3. QED
  BY <1>1, <1>2, ExecInit, TypesHold, ExecutorTypes, PTL DEF Spec

\* No wake-up is lost: the task that polled a wait last is woken when the
\* pollable is reported ready, also if the wait has changed hands.
THEOREM NoWakeupIsLost == Spec => []NoLostWakeup
<1>1. ExecInv => NoLostWakeup
  BY DEF ExecInv
<1>2. QED
  BY <1>1, ExecutorInvariant, PTL

\* The host is only ever asked about waits that are still held.
THEOREM DroppedWaitsLeave == Spec => []OnlyLiveQueued
<1>1. ExecInv => OnlyLiveQueued
  BY DEF ExecInv
<1>2. QED
  BY <1>1, ExecutorInvariant, PTL

\* In either mode the executor blocks on the host only when no task can run.
THEOREM BlockingIsLastResort == Spec => []BlocksOnlyWhenIdle
<1>1. ExecInv => BlocksOnlyWhenIdle
  BY DEF ExecInv, Scheduling, BlocksOnlyWhenIdle
<1>2. QED
  BY <1>1, ExecutorInvariant, PTL

\* Whatever run_until returns, its root has left the pool with all its waits.
THEOREM RootLeaves == Spec => []RootIsGone
<1>1. ExecInv => RootIsGone
  BY DEF ExecInv, TypeOK, RootPhases, DoneHoldsNothing, RootIsGone
<1>2. QED
  BY <1>1, ExecutorInvariant, PTL

\* A successful run_until carries no registration over, unless a waker polls
\* its future inline while the leftovers are being woken.
THEOREM NothingIsCarriedOver ==
    ~InlineWakers /\ Spec => []NothingCarriedOver
<1>1. ExecInv /\ ~InlineWakers => NothingCarriedOver
  BY DEF ExecInv, OkLeavesNothing, NothingCarriedOver
<1>2. CASE InlineWakers
  BY <1>2
<1>3. CASE ~InlineWakers
  <2>1. ExecInv => NothingCarriedOver
    BY <1>1, <1>3
  <2>2. QED
    BY <2>1, ExecutorInvariant, PTL
<1>4. QED
  BY <1>2, <1>3

\* run_until reports a stall only when no task is runnable and nothing its
\* tasks still wait for is left but what an earlier run has abandoned.
THEOREM StallIsFinal == Spec => StalledMeansNothingLeft
<1>1. ASSUME ExecInv, ReportStalled
      PROVE  Runnable = {} /\ queue = {} /\ hand = {} /\ toWake = {}
  BY <1>1 DEF ExecInv, Scheduling, ReportStalled
<1>2. ASSUME ExecInv, ReportStalled, NEW w \in Waits,
             future[w] = "registered", answer[w] = "pending",
             holder[w] = poller[w]
      PROVE  w \in abandoned
  <2>1. CASE IsPending(w)
    BY <1>1, <1>2, <2>1 DEF ExecInv, WaitInv, PendingIsTracked
  <2>2. CASE status[w] = "Ready"
    <3>1. poller[w] \in Tasks /\ task[poller[w]] = "done"
      BY <1>1, <1>2, <2>2 DEF ExecInv, NoLostWakeup, Runnable
    <3>2. w \in HeldBy(poller[w])
      BY <1>2 DEF HeldBy, Held
    <3>3. QED
      BY <1>2, <3>1, <3>2 DEF ExecInv, DoneHoldsNothing
  <2>3. QED
    BY <1>2, <2>1, <2>2 DEF ExecInv, WaitInv, StatusFollowsFuture, IsPending
<1>3. ExecInv => (ReportStalled =>
         /\ Runnable = {}
         /\ \A w \in Waits :
                /\ future[w] = "registered"
                /\ answer[w] = "pending"
                /\ holder[w] = poller[w]
                => w \in abandoned)
  BY <1>1, <1>2
<1>4. QED
  BY <1>3, ExecutorInvariant, PTL DEF StalledMeansNothingLeft

-----------------------------------------------------------------------------
(* Spawn failures *)

\* While run_until drives, the output is taken before the host is polled; no
\* waker that polls inline can complete the root in between.
OutputIsTaken ==
    driver = "run" =>
        /\ output => pc \in {"guest", "guestDone"}
        /\ pc = "waking" => cur # root

LEMMA OutputStep ==
    ASSUME TypeOK, TypeInv, Scheduling, OutputIsTaken, [Next]_vars
    PROVE  OutputIsTaken'
<1> USE DEF TypeOK, Scheduling, OutputIsTaken, TypeInv, RunHasRoot, RunPoints, Drivers
<1>1. CASE GuestAct \/ Suspend \/ Yield
  <2>1. UNCHANGED <<pc, driver, root, output, cur>> \/ Suspend \/ Yield
    BY ONLY <1>1 DEF GuestAct, CreateWait, PollOwnWait, DropOwnWait, GiveWait, Spawn,
       SpawnFails, WakeOther, NestedRunUntil, OnlyWaits
  <2>2. UNCHANGED <<pc, driver, root, output>> /\ cur' \in {cur, NoTask}
    BY ONLY <2>1 DEF Suspend, Yield
  <2>3. driver = "run" => root # NoTask
    BY Zenon
  <2>4. QED
    BY ONLY <2>2, <2>3, OutputIsTaken DEF OutputIsTaken
<1>2. CASE Complete
  BY <1>2 DEF Complete, Finish, LeaveGuest, AfterGuest, EndsGuestPhase
<1>3. ASSUME NEW t \in Tasks, BeginPoll(t) \/ DropAborted(t)
      PROVE  OutputIsTaken'
  BY <1>3 DEF BeginPoll, DropAborted, Finish, LeaveGuest, AfterGuest, EndsGuestPhase
<1>4. CASE NothingRunnable
  BY <1>4 DEF NothingRunnable, LeaveGuest, AfterGuest
<1>5. CASE SweepHost
  BY <1>5 DEF SweepHost
<1>6. CASE EnterBlockingPoll
  BY <1>6 DEF EnterBlockingPoll, AfterHost, DriverAfterHost
<1>7. ASSUME NEW R \in SUBSET Waits, BlockingPollReturns(R)
      PROVE  OutputIsTaken'
  BY <1>7 DEF BlockingPollReturns
<1>8. ASSUME NEW t \in Tasks, WakeTask(t) \/ WakeInline(t)
      PROVE  OutputIsTaken'
  BY <1>8 DEF WakeTask, WakeInline
<1>9. CASE WakersCalled
  BY <1>9 DEF WakersCalled, AfterHost, DriverAfterHost
<1>10. ASSUME NEW t \in Tasks, RunUntil(t)
      PROVE  OutputIsTaken'
  BY <1>10 DEF RunUntil
<1>11. CASE PollLocal \/ ReportSpawnFailure \/ ReturnOutput \/ ReportStalled
  BY <1>11 DEF PollLocal, ReportSpawnFailure, ReturnOutput, ReportStalled, Fail
<1>12. CASE Proceed
  BY <1>12 DEF Proceed
<1>13. ASSUME NEW w \in Waits, HostEvent(w)
      PROVE  OutputIsTaken'
  BY <1>13 DEF HostEvent, driveVars
<1>14. CASE UNCHANGED vars
  BY <1>14 DEF vars, driveVars
<1>15. QED
  BY <1>1, <1>2, <1>3, <1>4, <1>5, <1>6, <1>7, <1>8, <1>9, <1>10, <1>11, <1>12,
     <1>13, <1>14 DEF Next, Guest, Pool, Host, Drive

\* A noted failure is cleared only where it is returned, be it to the task that
\* calls a nested run_until; and a success is returned only without one.
LEMMA FailureStep ==
    ASSUME TypeInv, OutputIsTaken, [Next]_vars
    PROVE  /\ spawnFailed /\ ~spawnFailed'
                => result' = "TaskSpawnFailed" \/ \E u \in Tasks : NestedRunUntil(u)
           /\ result' = "Ok" /\ result # "Ok" => ~spawnFailed
<1>1. CASE ReturnOutput
  <2>1. pc # "hostDone"
    BY <1>1 DEF ReturnOutput, OutputIsTaken, TypeInv, RunPoints
  <2>2. QED
    BY <1>1, <2>1 DEF ReturnOutput
<1>2. CASE ReportSpawnFailure
  BY <1>2 DEF ReportSpawnFailure, Fail
<1>3. CASE UNCHANGED <<spawnFailed, result>>
  BY <1>3
<1>4. CASE GuestAct
  <2>1. ASSUME NEW u \in Tasks, NestedRunUntil(u)
        PROVE  UNCHANGED result /\ \E v \in Tasks : NestedRunUntil(v)
    <3>1. UNCHANGED result
      BY <2>1 DEF NestedRunUntil
    <3>2. QED
      BY <2>1, <3>1
  <2>2. ASSUME NEW u \in Tasks, Spawn(u) \/ WakeOther(u)
        PROVE  UNCHANGED <<spawnFailed, result>>
    BY <2>2 DEF Spawn, WakeOther
  <2>3. ASSUME NEW w \in Waits, CreateWait(w) \/ PollOwnWait(w) \/ DropOwnWait(w)
        PROVE  UNCHANGED <<spawnFailed, result>>
    BY <2>3 DEF CreateWait, PollOwnWait, DropOwnWait, OnlyWaits
  <2>4. ASSUME NEW w \in Waits, NEW u \in Tasks, GiveWait(w, u)
        PROVE  UNCHANGED <<spawnFailed, result>>
    BY <2>4 DEF GiveWait
  <2>5. CASE SpawnFails
    BY <2>5 DEF SpawnFails
  <2>6. QED
    BY <1>4, <2>1, <2>2, <2>3, <2>4, <2>5 DEF GuestAct
<1>5. CASE \/ \E t \in Tasks : RunUntil(t)
           \/ PollLocal \/ ReportStalled
  BY <1>5 DEF RunUntil, PollLocal, ReportStalled, Fail
<1>6. CASE \/ Suspend \/ Yield \/ Complete \/ Pool \/ Host \/ Proceed
           \/ \E w \in Waits : HostEvent(w)
           \/ UNCHANGED vars
  BY <1>3, <1>6 DEF Suspend, Yield, Complete, Pool, BeginPoll, DropAborted,
     NothingRunnable, Host, SweepHost, EnterBlockingPoll, BlockingPollReturns,
     WakeTask, WakeInline, WakersCalled, Proceed, HostEvent, vars, driveVars
<1>7. QED
  BY <1>1, <1>2, <1>4, <1>5, <1>6 DEF Next, Guest, Drive

\* A spawn failure that was noted is cleared only by the run_until that returns
\* it, in either mode, when wakers poll on the spot as well; a run_until or
\* poll_local that such a poll calls is not modelled (p2.rs:656, 697).
THEOREM SpawnFailuresAreReported == Spec => SpawnFailureReported
<1>1. Init => OutputIsTaken
  BY DEF Init, OutputIsTaken
<1>2. ExecInv /\ TypeInv /\ OutputIsTaken /\ [Next]_vars => OutputIsTaken'
  BY OutputStep DEF ExecInv
<1>3. TypeInv /\ OutputIsTaken /\ [Next]_vars
        => [/\ spawnFailed /\ ~spawnFailed'
                 => result' = "TaskSpawnFailed" \/ \E u \in Tasks : NestedRunUntil(u)
            /\ result' = "Ok" /\ result # "Ok" => ~spawnFailed]_vars
  BY FailureStep
<1>4. QED
  BY <1>1, <1>2, <1>3, TypesHold, ExecutorInvariant, PTL DEF Spec, SpawnFailureReported
=============================================================================
