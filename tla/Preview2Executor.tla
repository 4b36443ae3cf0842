-------------------------- MODULE Preview2Executor --------------------------
(***************************************************************************)
(* wasip2::Executor (src/executor/p2.rs): run_until and poll_local drive   *)
(* the guest tasks of a LocalPool and the pollables of the wait queue on   *)
(* one thread.                                                             *)
(*                                                                         *)
(* A poll of a task is not atomic: `cur' is the task being polled, and it  *)
(* creates, polls, drops and passes on waits, spawns and wakes tasks, one  *)
(* action at a time, before it suspends, yields or completes.  Between two *)
(* polls the driver is at one of the points named by `pc'.                 *)
(***************************************************************************)
EXTENDS WaitQueue

CONSTANTS
    Mode,          \* the scheduling policy the executor was created with
    InlineWakers,  \* whether a waker may poll its future synchronously
    MaxRuns,       \* bound: calls of run_until
    MaxNoise       \* bound: yields, wake-ups between tasks, handovers, failed
                   \* spawns, nested calls and calls of poll_local, together

ASSUME ModeAssumption == Mode \in {"Preemptive", "Stalled"}
ASSUME InlineWakersAssumption == InlineWakers \in BOOLEAN
ASSUME MaxRunsAssumption == MaxRuns \in Nat
ASSUME MaxNoiseAssumption == MaxNoise \in Nat

VARIABLES
    pc,             \* where the driver is
    driver,         \* what is being driven
    root,           \* the task of the latest run_until
    cur,            \* the task being polled
    task,           \* the state of each task in the pool
    holder,         \* the task whose future owns a wait
    aborted,        \* tasks whose AbortHandle was used
    output,         \* the root has sent its output
    guestProgress,  \* guest_progress of this iteration
    hostProgress,   \* host_progress of this iteration
    spawnFailed,    \* ExecutorInner::spawn_failed
    result,         \* what the latest call has returned
    runs,           \* calls of run_until so far
    noise           \* how much of MaxNoise is used

driveVars == <<pc, driver, root, cur, task, holder, aborted, output,
               guestProgress, hostProgress, spawnFailed, result, runs, noise>>
vars == <<waitVars, driveVars>>

Points == {"idle", "check", "guest", "guestDone", "host", "polling",
           "waking", "hostDone"}
Drivers == {"none", "run", "local", "cleanup", "returning"}
TaskStates == {"absent", "runnable", "running", "waiting", "done"}
Results == {"none", "Ok", "Stalled", "TaskSpawnFailed"}

TypeOK ==
    /\ WaitTypeOK
    /\ pc \in Points
    /\ driver \in Drivers
    /\ root \in Tasks \cup {NoTask}
    /\ cur \in Tasks \cup {NoTask}
    /\ task \in [Tasks -> TaskStates]
    /\ holder \in [Waits -> Tasks \cup {NoTask}]
    /\ aborted \subseteq Tasks
    /\ output \in BOOLEAN
    /\ guestProgress \in BOOLEAN
    /\ hostProgress \in BOOLEAN
    /\ spawnFailed \in BOOLEAN
    /\ result \in Results
    /\ runs \in 0..MaxRuns
    /\ noise \in 0..MaxNoise

Init ==
    /\ WaitInit
    /\ pc = "idle"
    /\ driver = "none"
    /\ root = NoTask
    /\ cur = NoTask
    /\ task = [t \in Tasks |-> "absent"]
    /\ holder = [w \in Waits |-> NoTask]
    /\ aborted = {}
    /\ output = FALSE
    /\ guestProgress = FALSE
    /\ hostProgress = FALSE
    /\ spawnFailed = FALSE
    /\ result = "none"
    /\ runs = 0
    /\ noise = 0

Runnable == {t \in Tasks : task[t] = "runnable"}
HeldBy(t) == {w \in Waits : holder[w] = t /\ future[w] \in Held}

\* Waking a task: it runs again if it was waiting.
Woken(t) == IF task[t] = "waiting" THEN "runnable" ELSE task[t]

Noisy ==
    /\ noise < MaxNoise
    /\ noise' = noise + 1

-----------------------------------------------------------------------------
(* The guest, while one of its tasks is being polled *)

\* The driver and the tasks stay as they are.
OnlyWaits == UNCHANGED <<pc, driver, root, cur, task, aborted, output,
                         guestProgress, hostProgress, spawnFailed, result,
                         runs, noise>>

CreateWait(w) ==
    /\ cur # NoTask
    /\ Create(w)
    /\ holder' = [holder EXCEPT ![w] = cur]
    /\ OnlyWaits

PollOwnWait(w) ==
    /\ cur # NoTask
    /\ holder[w] = cur
    /\ PollWait(w, cur)
    /\ OnlyWaits
    /\ UNCHANGED holder

DropOwnWait(w) ==
    /\ cur # NoTask
    /\ holder[w] = cur
    /\ DropWaits({w})
    /\ OnlyWaits
    /\ UNCHANGED holder

\* A WaitPoll moves to another task, which is woken to receive it.
GiveWait(w, u) ==
    /\ cur # NoTask
    /\ w \in HeldBy(cur)
    /\ task[u] \in {"runnable", "waiting"}
    /\ holder' = [holder EXCEPT ![w] = u]
    /\ task' = [task EXCEPT ![u] = Woken(u)]
    /\ Noisy
    /\ UNCHANGED <<waitVars, pc, driver, root, cur, aborted, output,
                   guestProgress, hostProgress, spawnFailed, result, runs>>

\* CustomExecutor::spawn and spawn_local: the task joins the pool.
Spawn(u) ==
    /\ cur # NoTask
    /\ task[u] = "absent"
    /\ task' = [task EXCEPT ![u] = "runnable"]
    /\ UNCHANGED <<waitVars, pc, driver, root, cur, holder, aborted, output,
                   guestProgress, hostProgress, spawnFailed, result, runs,
                   noise>>

\* The same when the pool refuses the task: the failure is only noted.
SpawnFails ==
    /\ cur # NoTask
    /\ spawnFailed' = TRUE
    /\ Noisy
    /\ UNCHANGED <<waitVars, pc, driver, root, cur, task, holder, aborted,
                   output, guestProgress, hostProgress, result, runs>>

WakeOther(u) ==
    /\ cur # NoTask
    /\ task[u] = "waiting"
    /\ task' = [task EXCEPT ![u] = "runnable"]
    /\ Noisy
    /\ UNCHANGED <<waitVars, pc, driver, root, cur, holder, aborted, output,
                   guestProgress, hostProgress, spawnFailed, result, runs>>

\* run_until called from a guest task while the pool is borrowed: the future
\* is spawned, a noted spawn failure is consumed, the call fails (with
\* TaskSpawnFailed or ReentrantPoll), and the aborted future stays in the pool.
NestedRunUntil(u) ==
    /\ cur # NoTask
    /\ pc = "guest"
    /\ task[u] = "absent"
    /\ task' = [task EXCEPT ![u] = "runnable"]
    /\ aborted' = aborted \cup {u}
    /\ spawnFailed' = FALSE
    /\ Noisy
    /\ UNCHANGED <<waitVars, pc, driver, root, cur, holder, output,
                   guestProgress, hostProgress, result, runs>>

GuestAct ==
    \/ \E w \in Waits : CreateWait(w) \/ PollOwnWait(w) \/ DropOwnWait(w)
    \/ \E w \in Waits, u \in Tasks : GiveWait(w, u)
    \/ \E u \in Tasks : Spawn(u) \/ WakeOther(u) \/ NestedRunUntil(u)
    \/ SpawnFails

\* The poll returns Pending.
Suspend ==
    /\ cur # NoTask
    /\ task' = [task EXCEPT ![cur] = "waiting"]
    /\ cur' = NoTask
    /\ UNCHANGED <<waitVars, pc, driver, root, holder, aborted, output,
                   guestProgress, hostProgress, spawnFailed, result, runs,
                   noise>>

\* The poll returns Pending after the task has woken itself.
Yield ==
    /\ cur # NoTask
    /\ task' = [task EXCEPT ![cur] = "runnable"]
    /\ cur' = NoTask
    /\ Noisy
    /\ UNCHANGED <<waitVars, pc, driver, root, holder, aborted, output,
                   guestProgress, hostProgress, spawnFailed, result, runs>>

-----------------------------------------------------------------------------
(* run_guest: LocalPool::try_run_one or run_until_stalled *)

\* Where the driver continues when the pool has run.
AfterGuest == CASE driver = "run" -> "guestDone"
                [] driver = "local" -> "host"
                [] OTHER -> "idle"

LeaveGuest(progress) ==
    /\ pc' = AfterGuest
    /\ driver' = IF driver = "cleanup" THEN "none" ELSE driver
    /\ guestProgress' = progress

\* Mutant: the guest phase ends with a completed future in either mode.
EndsInAnyMode == pc = "guest" /\ driver # "cleanup"

\* A completed future ends try_run_one; run_until_stalled goes on.
EndsGuestPhase == Mode = "Preemptive" /\ pc = "guest" /\ driver # "cleanup"

\* Task t completes and drops its future with every wait it owns.
Finish(t) ==
    /\ task' = [task EXCEPT ![t] = "done"]
    /\ DropWaits(HeldBy(t))
    /\ IF EndsGuestPhase
       THEN LeaveGuest(TRUE)
       ELSE UNCHANGED <<pc, driver, guestProgress>>

\* The poll returns Ready; the root sends its output first.
Complete ==
    /\ cur # NoTask
    /\ Finish(cur)
    /\ output' = (output \/ cur = root)
    /\ cur' = NoTask
    /\ UNCHANGED <<root, holder, aborted, hostProgress, spawnFailed, result,
                   runs, noise>>

BeginPoll(t) ==
    /\ pc = "guest"
    /\ cur = NoTask
    /\ t \in Runnable \ aborted
    /\ cur' = t
    /\ task' = [task EXCEPT ![t] = "running"]
    /\ Notice(t)
    /\ UNCHANGED <<pc, driver, root, holder, aborted, output, guestProgress,
                   hostProgress, spawnFailed, result, runs, noise>>

\* Abortable completes an aborted task without polling its future.
DropAborted(t) ==
    /\ pc = "guest"
    /\ cur = NoTask
    /\ t \in Runnable \cap aborted
    /\ Finish(t)
    /\ UNCHANGED <<root, cur, holder, aborted, output, hostProgress,
                   spawnFailed, result, runs, noise>>

\* Nothing is runnable: both forms of the pool return.
NothingRunnable ==
    /\ pc = "guest"
    /\ cur = NoTask
    /\ Runnable = {}
    /\ LeaveGuest(FALSE)
    /\ UNCHANGED <<waitVars, root, cur, task, holder, aborted, output,
                   hostProgress, spawnFailed, result, runs, noise>>

-----------------------------------------------------------------------------
(* poll_host: sweep_ready or dispatch_ready *)

AfterHost == IF driver = "run" THEN "hostDone" ELSE "idle"
DriverAfterHost == IF driver = "run" THEN "run" ELSE "none"

\* Mutant: the host is always polled blocking.
NeverSweeps == FALSE

\* host_wait
Sweeps == Mode = "Preemptive" /\ guestProgress

SweepHost ==
    /\ pc = "host"
    /\ Sweeps
    /\ Sweep
    /\ hostProgress' = \E w \in queue : IsPending(w) /\ w \in ready
    /\ pc' = "waking"
    /\ UNCHANGED <<driver, root, cur, task, holder, aborted, output,
                   guestProgress, spawnFailed, result, runs, noise>>

\* Mutant: an empty queue is reported as host progress.
EmptyPollProgresses ==
    /\ pc = "host"
    /\ ~Sweeps
    /\ TakePending
    /\ hostProgress' = TRUE
    /\ IF hand' = {}
       THEN pc' = AfterHost /\ driver' = DriverAfterHost
       ELSE pc' = "polling" /\ UNCHANGED driver
    /\ UNCHANGED <<root, cur, task, holder, aborted, output, guestProgress,
                   spawnFailed, result, runs, noise>>

\* dispatch_ready takes the entries; with none there is nothing to block on.
EnterBlockingPoll ==
    /\ pc = "host"
    /\ ~Sweeps
    /\ TakePending
    /\ IF hand' = {}
       THEN /\ hostProgress' = FALSE
            /\ pc' = AfterHost
            /\ driver' = DriverAfterHost
       ELSE /\ pc' = "polling"
            /\ UNCHANGED <<hostProgress, driver>>
    /\ UNCHANGED <<root, cur, task, holder, aborted, output, guestProgress,
                   spawnFailed, result, runs, noise>>

\* Mutant: a blocking poll is not reported as progress.
PollReportsNothing(R) ==
    /\ pc = "polling"
    /\ HostAnswer(R)
    /\ hostProgress' = FALSE
    /\ pc' = "waking"
    /\ UNCHANGED <<driver, root, cur, task, holder, aborted, output,
                   guestProgress, spawnFailed, result, runs, noise>>

\* The blocking host poll returns with a set of ready entries.
BlockingPollReturns(R) ==
    /\ pc = "polling"
    /\ HostAnswer(R)
    /\ hostProgress' = TRUE
    /\ pc' = "waking"
    /\ UNCHANGED <<driver, root, cur, task, holder, aborted, output,
                   guestProgress, spawnFailed, result, runs, noise>>

WakeTask(t) ==
    /\ pc = "waking"
    /\ cur = NoTask
    /\ CallWaker(t)
    /\ task' = [task EXCEPT ![t] = Woken(t)]
    /\ UNCHANGED <<pc, driver, root, cur, holder, aborted, output,
                   guestProgress, hostProgress, spawnFailed, result, runs,
                   noise>>

\* A waker that polls its future on the spot instead of queueing the task.
WakeInline(t) ==
    /\ InlineWakers
    /\ pc = "waking"
    /\ cur = NoTask
    /\ t # root
    /\ task[t] = "waiting"
    /\ cur' = t
    /\ task' = [task EXCEPT ![t] = "running"]
    /\ CallInline(t)
    /\ UNCHANGED <<pc, driver, root, holder, aborted, output, guestProgress,
                   hostProgress, spawnFailed, result, runs, noise>>

\* Mutant: wakers still to be called are thrown away.
WakersForgotten ==
    /\ pc = "waking"
    /\ cur = NoTask
    /\ toWake' = {}
    /\ pc' = AfterHost
    /\ driver' = DriverAfterHost
    /\ UNCHANGED <<future, status, waker, id, nextId, queue, hand, ready,
                   poller, answer, abandoned, root, cur, task, holder,
                   aborted, output, guestProgress, hostProgress, spawnFailed,
                   result, runs, noise>>

WakersCalled ==
    /\ pc = "waking"
    /\ cur = NoTask
    /\ toWake = {}
    /\ pc' = AfterHost
    /\ driver' = DriverAfterHost
    /\ UNCHANGED <<waitVars, root, cur, task, holder, aborted, output,
                   guestProgress, hostProgress, spawnFailed, result, runs,
                   noise>>

-----------------------------------------------------------------------------
(* run_until, drive_until_output, poll_once *)

\* run_until spawns its future as the root task.
RunUntil(t) ==
    /\ pc = "idle"
    /\ runs < MaxRuns
    /\ task[t] = "absent"
    /\ task' = [task EXCEPT ![t] = "runnable"]
    /\ root' = t
    /\ output' = FALSE
    /\ result' = "none"
    /\ runs' = runs + 1
    /\ pc' = "check"
    /\ driver' = "run"
    /\ UNCHANGED <<waitVars, cur, holder, aborted, guestProgress,
                   hostProgress, spawnFailed, noise>>

\* Mutant: poll_local swallows a noted spawn failure.
PollLocalSwallows ==
    /\ pc = "idle"
    /\ pc' = "guest"
    /\ driver' = "local"
    /\ result' = "none"
    /\ spawnFailed' = FALSE
    /\ Noisy
    /\ UNCHANGED <<waitVars, root, cur, task, holder, aborted, output,
                   guestProgress, hostProgress, runs>>

\* CustomExecutor::poll_local: poll_once, its error ignored.
PollLocal ==
    /\ pc = "idle"
    /\ pc' = "guest"
    /\ driver' = "local"
    /\ result' = "none"
    /\ Noisy
    /\ UNCHANGED <<waitVars, root, cur, task, holder, aborted, output,
                   guestProgress, hostProgress, spawnFailed, runs>>

\* Mutant: the aborted root is not woken, so nothing drops it.
FailWithoutWake(error) ==
    /\ result' = error
    /\ aborted' = aborted \cup {root}
    /\ pc' = "guest"
    /\ driver' = "cleanup"
    /\ UNCHANGED task

\* run_until fails: abort the root and run the pool so that it is dropped.
Fail(error) ==
    /\ result' = error
    /\ aborted' = aborted \cup {root}
    /\ task' = [task EXCEPT ![root] = Woken(root)]
    /\ pc' = "guest"
    /\ driver' = "cleanup"

ReportSpawnFailure ==
    /\ pc \in {"check", "guestDone"}
    /\ spawnFailed
    /\ spawnFailed' = FALSE
    /\ Fail("TaskSpawnFailed")
    /\ UNCHANGED <<waitVars, root, cur, holder, output, guestProgress,
                   hostProgress, runs, noise>>

\* try_recv has the output: probe the leftovers once and return.
ReturnOutput ==
    /\ pc \in {"check", "guestDone", "hostDone"}
    /\ pc = "hostDone" \/ ~spawnFailed
    /\ output
    /\ Abandon
    /\ result' = "Ok"
    /\ pc' = "waking"
    /\ driver' = "returning"
    /\ UNCHANGED <<root, cur, task, holder, aborted, output, guestProgress,
                   hostProgress, spawnFailed, runs, noise>>

Proceed ==
    /\ ~output
    /\ \/ pc = "check" /\ ~spawnFailed /\ pc' = "guest"
       \/ pc = "guestDone" /\ ~spawnFailed /\ pc' = "host"
       \/ pc = "hostDone" /\ (guestProgress \/ hostProgress) /\ pc' = "check"
    /\ UNCHANGED <<waitVars, driver, root, cur, task, holder, aborted, output,
                   guestProgress, hostProgress, spawnFailed, result, runs,
                   noise>>

ReportStalled ==
    /\ pc = "hostDone"
    /\ ~output
    /\ ~guestProgress /\ ~hostProgress
    /\ Fail("Stalled")
    /\ UNCHANGED <<waitVars, root, cur, holder, output, guestProgress,
                   hostProgress, spawnFailed, runs, noise>>

\* The host makes a pollable ready at any time.
HostEvent(w) == PollableReady(w) /\ UNCHANGED driveVars

-----------------------------------------------------------------------------
Guest == GuestAct \/ Suspend \/ Yield \/ Complete

Pool ==
    \/ \E t \in Tasks : BeginPoll(t) \/ DropAborted(t)
    \/ NothingRunnable

Host ==
    \/ SweepHost
    \/ EnterBlockingPoll
    \/ \E R \in SUBSET Waits : BlockingPollReturns(R)
    \/ \E t \in Tasks : WakeTask(t) \/ WakeInline(t)
    \/ WakersCalled

Drive ==
    \/ \E t \in Tasks : RunUntil(t)
    \/ PollLocal
    \/ ReportSpawnFailure
    \/ ReturnOutput
    \/ Proceed
    \/ ReportStalled

Next == Guest \/ Pool \/ Host \/ Drive \/ \E w \in Waits : HostEvent(w)

Spec == Init /\ [][Next]_vars

(***************************************************************************)
(* Fairness.  The executor runs whenever it can; a poll of a guest task    *)
(* ends (no code of this crate could interrupt it); every pollable that a  *)
(* guest owns becomes ready some day.                                      *)
(***************************************************************************)
FairSpec ==
    /\ Spec
    /\ WF_vars(Pool)
    /\ WF_vars(Host)
    /\ WF_vars(ReportSpawnFailure \/ ReturnOutput \/ Proceed \/ ReportStalled)
    /\ WF_vars(Suspend \/ Complete)
    /\ \A w \in Waits : WF_vars(HostEvent(w))

-----------------------------------------------------------------------------
(* Properties *)

\* A registration that became ready wakes the task that polled its wait last:
\* the wake-up is still owed, or the task is about to run (or is finished).
NoLostWakeup ==
    \A w \in Waits :
        future[w] = "registered" /\ status[w] = "Ready" /\ answer[w] = "pending"
            => \/ poller[w] \in toWake
               \/ poller[w] \in Tasks /\ task[poller[w]] \in {"runnable", "done"}

\* Dropping a WaitPoll takes its pollable out of the queue, so that the host
\* is only ever asked about waits somebody still holds (p2.rs:275-276).
OnlyLiveQueued ==
    \A w \in queue \cup hand : future[w] = "registered" /\ IsPending(w)

\* The executor blocks on the host only when no guest task can run
\* (p2.rs:365-371), and never without a pollable to block on.
BlocksOnlyWhenIdle ==
    pc = "polling" => Runnable = {} /\ cur = NoTask /\ hand # {}

\* When run_until has returned, its root task is gone from the pool, also
\* after a failure (drop_aborted_tasks).
RootIsGone ==
    pc = "idle" /\ root # NoTask => task[root] = "done" /\ HeldBy(root) = {}

\* After a successful run_until no registration is carried over (p2.rs:590-592).
NothingCarriedOver ==
    pc = "idle" /\ result = "Ok" => queue = {}

\* run_until reports a stall only if no task is runnable and every wait whose
\* owner still expects its wake-up was abandoned by an earlier run
\* (executor.rs:46-49).
StalledMeansNothingLeft ==
    [][ReportStalled =>
         /\ Runnable = {}
         /\ \A w \in Waits :
                /\ future[w] = "registered"
                /\ answer[w] = "pending"
                /\ holder[w] = poller[w]
                => w \in abandoned]_vars

\* A spawn failure that was noted does not get lost: it is cleared only by the
\* run_until that returns it, or by a run_until that a task being polled calls
\* and which returns it to that task; and no run_until succeeds over it
\* (p2.rs:634, 644, 676-682).
SpawnFailureReported ==
    [][/\ spawnFailed /\ ~spawnFailed'
            => result' = "TaskSpawnFailed" \/ \E u \in Tasks : NestedRunUntil(u)
       /\ result' = "Ok" /\ result # "Ok" => ~spawnFailed]_vars

\* The wait queue is used only in the ways its own specification allows.
UsesWaitQueue == WaitSpec

\* run_until returns, whatever finitely busy guests do.
RunReturns == (driver = "run") ~> (pc = "idle")

\* The strengthening that makes the invariants above inductive: what the
\* driver's position says about the pool, the queue and the root.
Scheduling ==
    /\ hand # {} => pc = "polling"
    /\ cur # NoTask => pc \in {"guest", "waking"}
    /\ \A t \in Tasks : task[t] = "running" <=> t = cur
    /\ pc \in {"guestDone", "host"} /\ ~Sweeps => Runnable = {}
    /\ pc = "polling" => Runnable = {} /\ hand # {}
    /\ toWake # {} => pc = "waking"
    /\ pc = "waking" /\ driver = "run" => guestProgress \/ hostProgress
    /\ pc = "hostDone" /\ ~guestProgress /\ ~hostProgress
         => Runnable = {} /\ queue = {}

PollersExist ==
    \A w \in Waits : poller[w] \in Tasks => task[poller[w]] # "absent"

RootPhases ==
    /\ pc = "idle" <=> driver = "none"
    /\ root # NoTask => task[root] # "absent"
    /\ output \/ driver \in {"none", "local", "returning"}
         => root = NoTask \/ task[root] = "done"
    /\ driver = "returning" => pc = "waking"
    /\ driver = "cleanup"
         => /\ pc = "guest"
            /\ root \in aborted
            /\ task[root] \in {"runnable", "done"}

DoneHoldsNothing ==
    \A t \in Tasks : task[t] = "done" => HeldBy(t) = {}

OkLeavesNothing ==
    result = "Ok" /\ ~InlineWakers
        => queue = {} /\ hand = {} /\ cur = NoTask /\ driver \in {"none", "returning"}

ExecInv ==
    /\ TypeOK
    /\ WaitInv
    /\ Scheduling
    /\ PollersExist
    /\ OnlyLiveQueued
    /\ NoLostWakeup
    /\ RootPhases
    /\ DoneHoldsNothing
    /\ OkLeavesNothing

\* Mode::Preemptive: "Run one guest task, then a non-blocking Pollable::ready
\* sweep" (p2.rs:363): when a task has been polled and others are runnable, the
\* pool does not go on to them before the sweep.
OneTaskThenSweep ==
    [][Mode = "Preemptive" /\ driver = "run" /\ pc = "guest"
         /\ cur # NoTask /\ cur' = NoTask /\ Runnable' # {}
         => pc' # "guest"]_vars

=============================================================================
