---------------------------- MODULE SpawnerInit ----------------------------
(***************************************************************************)
(* How an executor becomes the task spawner of a component: Executor::new  *)
(* and init_wasip2_executor (src/executor/p2.rs), init_wasip3_spawner      *)
(* (src/executor/p3.rs).  any_spawner has one slot for the spawner, and    *)
(* the first to install one keeps it.  Each preview remembers how its own  *)
(* installation went and answers every later call from that memo.          *)
(*                                                                         *)
(* The calls of a component come in any order on its one thread: request   *)
(* handlers initialize again for every request, and the application may    *)
(* create an executor or install a spawner of its own.                     *)
(***************************************************************************)
EXTENDS Naturals, Sequences

CONSTANTS
    Modes,    \* scheduling modes of Preview 2
    MaxInits  \* bound: calls

ASSUME MaxInitsAssumption == MaxInits \in Nat

VARIABLES
    executor,  \* PREVIEW2_EXECUTOR: the mode of the thread's executor
    memo2,     \* PREVIEW2_SPAWNER_STATE
    memo3,     \* INITIALIZED
    spawner,   \* who holds any_spawner's slot
    queue,     \* POLLABLE_QUEUE exists
    answers    \* what the calls have returned

spawnerVars == <<executor, memo2, memo3, spawner, queue, answers>>

Memos == {"unset", "Initialized", "Conflict"}
Spawners == {"none", "preview2", "preview3", "application"}
Invoked(name, mode) == [name |-> name, mode |-> mode]
Call2(mode) == Invoked("init_wasip2_executor", mode)
Call3 == Invoked("init_wasip3_spawner", "none")

SpawnerInit ==
    /\ executor = {}
    /\ memo2 = "unset"
    /\ memo3 = "unset"
    /\ spawner = "none"
    /\ queue = FALSE
    /\ answers = <<>>

Answer(call, result) ==
    /\ Len(answers) < MaxInits
    /\ answers' = Append(answers, [call |-> call, result |-> result])

\* init_local_custom_executor: refused once the slot is taken.
Installs(who) ==
    IF spawner = "none"
    THEN spawner' = who
    ELSE UNCHANGED spawner

\* Executor::new: one executor per thread, in the mode it was created with.
Mismatch(mode) == executor \notin {{}, {mode}}

CreateExecutor(mode) ==
    /\ executor' = {mode}
    /\ queue' = TRUE

NewExecutor(mode) ==
    /\ IF Mismatch(mode)
       THEN /\ Answer(Invoked("Executor::new", mode), "Preview2ModeMismatch")
            /\ UNCHANGED <<executor, queue>>
       ELSE /\ Answer(Invoked("Executor::new", mode), "Ok")
            /\ CreateExecutor(mode)
    /\ UNCHANGED <<memo2, memo3, spawner>>

\* Preview2InitState::result
MemoResult(memo, mode) ==
    CASE memo = "Conflict" -> "SpawnerAlreadyInitialized"
      [] memo = "Initialized" /\ Mismatch(mode) -> "Preview2ModeMismatch"
      [] OTHER -> "Ok"

\* The first attempt: an executor that cannot be had is not remembered.
Installed2 == IF spawner = "none" THEN "Initialized" ELSE "Conflict"

FirstInit2(mode) ==
    IF Mismatch(mode)
    THEN /\ Answer(Call2(mode), "Preview2ModeMismatch")
         /\ UNCHANGED <<executor, memo2, spawner, queue>>
    ELSE /\ CreateExecutor(mode)
         /\ Installs("preview2")
         /\ memo2' = Installed2
         /\ Answer(Call2(mode),
                   IF Installed2 = "Conflict" THEN "SpawnerAlreadyInitialized" ELSE "Ok")

\* Mutant: a lost race for the slot is remembered as a success.
InitForgetsConflict(mode) ==
    /\ IF memo2 = "unset" /\ ~Mismatch(mode)
       THEN /\ CreateExecutor(mode)
            /\ Installs("preview2")
            /\ memo2' = "Initialized"
            /\ Answer(Call2(mode),
                      IF Installed2 = "Conflict" THEN "SpawnerAlreadyInitialized" ELSE "Ok")
       ELSE /\ Answer(Call2(mode), MemoResult(memo2, mode))
            /\ UNCHANGED <<executor, memo2, spawner, queue>>
    /\ UNCHANGED memo3

InitPreview2(mode) ==
    /\ IF memo2 = "unset"
       THEN FirstInit2(mode)
       ELSE /\ Answer(Call2(mode), MemoResult(memo2, mode))
            /\ UNCHANGED <<executor, memo2, spawner, queue>>
    /\ UNCHANGED memo3

\* Mutant: every call installs again and believes what it is told.
InitAgain3 ==
    /\ Installs("preview3")
    /\ memo3' = IF spawner = "none" THEN "Initialized" ELSE "Conflict"
    /\ Answer(Call3, IF memo3' = "Initialized" THEN "Ok" ELSE "SpawnerAlreadyInitialized")
    /\ UNCHANGED <<executor, memo2, queue>>

InitPreview3 ==
    /\ IF memo3 = "unset"
       THEN /\ Installs("preview3")
            /\ memo3' = IF spawner = "none" THEN "Initialized" ELSE "Conflict"
       ELSE UNCHANGED <<spawner, memo3>>
    /\ Answer(Call3, IF memo3' = "Initialized" THEN "Ok" ELSE "SpawnerAlreadyInitialized")
    /\ UNCHANGED <<executor, memo2, queue>>

\* The application installs a spawner of its own.
InstallForeign ==
    /\ Len(answers) < MaxInits
    /\ spawner = "none"
    /\ spawner' = "application"
    /\ UNCHANGED <<executor, memo2, memo3, queue, answers>>

\* The first poll of a WaitPoll needs the queue of an executor.
AwaitPollable ==
    /\ Answer(Invoked("WaitPoll::poll", "none"),
              IF queue THEN "Registered" ELSE "Preview2NotInitialized")
    /\ UNCHANGED <<executor, memo2, memo3, spawner, queue>>

SpawnerNext ==
    \/ \E mode \in Modes : NewExecutor(mode) \/ InitPreview2(mode)
    \/ InitPreview3
    \/ InstallForeign
    \/ AwaitPollable

SpawnerSpec == SpawnerInit /\ [][SpawnerNext]_spawnerVars

-----------------------------------------------------------------------------
(* Properties *)

SpawnerTypeOK ==
    /\ executor \subseteq Modes
    /\ memo2 \in Memos /\ memo3 \in Memos
    /\ spawner \in Spawners
    /\ queue \in BOOLEAN
    /\ Len(answers) \in 0..MaxInits

\* The inits answered Ok are those whose executor holds the slot.
Ok(i) == answers[i].result = "Ok"
Calls2(mode) == {i \in DOMAIN answers : answers[i].call = Call2(mode)}
Calls3 == {i \in DOMAIN answers : answers[i].call = Call3}

\* An initialization that returned Ok returned the executor that Leptos spawns
\* its tasks on, in the mode asked for: run_until never drives an executor whose
\* tasks go elsewhere (p2.rs:745-772, p3.rs:36-46).
OkMeansInstalled ==
    /\ \A mode \in Modes : \A i \in Calls2(mode) :
           Ok(i) => spawner = "preview2" /\ executor = {mode} /\ queue
    /\ \A i \in Calls3 : Ok(i) => spawner = "preview3"

\* Once one request could initialize, every later one can, and once the slot was
\* lost to another spawner every later request is told so: a handler does not
\* work for some requests only (p2.rs:731-795, "consistently").
Consistent(calls) ==
    \A i, j \in calls : i < j /\ answers[i].result # "Preview2ModeMismatch"
        => answers[j].result = answers[i].result

AnswersAreConsistent ==
    Consistent(Calls3) /\ \A mode \in Modes : Consistent(Calls2(mode))
=============================================================================
