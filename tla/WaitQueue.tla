----------------------------- MODULE WaitQueue -----------------------------
(***************************************************************************)
(* The pollable registrations of the WASI Preview 2 executor               *)
(* (src/executor/p2.rs): the WaitPoll future, its WaitRegistration and the *)
(* process-wide WaitQueue they meet in.                                    *)
(*                                                                         *)
(* A wait is one WaitPoll future together with the host pollable it owns.  *)
(* It registers at most once, so its registration is named after it; the   *)
(* RegistrationId that WaitQueue::cancel searches for is kept in `id'.     *)
(* The VecDeque is a set: nothing in the code depends on its order.        *)
(*                                                                         *)
(* `hand' is the Vec<TableEntry> that dispatch_ready holds while the host  *)
(* poll is in flight.  The specification of this module lets the guest act *)
(* at that time as well, which is what the mutexes permit; the executor    *)
(* (Preview2Executor) allows less.                                         *)
(***************************************************************************)
EXTENDS Naturals

CONSTANTS
    Waits,    \* the WaitPoll futures that may be created
    Tasks,    \* the guest tasks; a task stands for its waker
    NoTask,   \* no task
    MaxId     \* u64::MAX, where RegistrationId runs out

ASSUME NoTaskAssumption == NoTask \notin Tasks
ASSUME MaxIdAssumption == MaxId \in Nat \ {0}

VARIABLES
    future,     \* WaitPollInner of a wait, with its creation and its drop
    status,     \* RegistrationInner::status
    waker,      \* RegistrationInner::task_waker
    id,         \* RegistrationId, 0 before the registration
    nextId,     \* WaitQueue::next_id
    queue,      \* WaitQueue::entries
    hand,       \* the entries dispatch_ready has taken and not put back
    toWake,     \* task_wakers: collected, not yet called
    ready,      \* the waits whose host pollable is ready
    poller,     \* history: the task that polled the wait last
    answer,     \* history: what that poll was told
    abandoned   \* history: registrations given up when a run ended

waitVars == <<future, status, waker, id, nextId, queue, hand, toWake, ready,
              poller, answer, abandoned>>

FutureStates == {"absent", "unregistered", "registered", "failed", "dropped"}
Statuses == {"none", "Pending", "Ready", "Canceled"}
Answers == {"none", "pending", "noticed", "ok", "canceled", "exhausted"}

\* One invariant for the types of the variables.
WaitTypeOK ==
    /\ future \in [Waits -> FutureStates]
    /\ status \in [Waits -> Statuses]
    /\ waker \in [Waits -> Tasks \cup {NoTask}]
    /\ id \in [Waits -> Nat]
    /\ nextId \in 1..MaxId
    /\ queue \subseteq Waits
    /\ hand \subseteq Waits
    /\ toWake \subseteq Tasks
    /\ ready \subseteq Waits
    /\ poller \in [Waits -> Tasks \cup {NoTask}]
    /\ answer \in [Waits -> Answers]
    /\ abandoned \subseteq Waits

WaitInit ==
    /\ future = [w \in Waits |-> "absent"]
    /\ status = [w \in Waits |-> "none"]
    /\ waker = [w \in Waits |-> NoTask]
    /\ id = [w \in Waits |-> 0]
    /\ nextId = 1
    /\ queue = {}
    /\ hand = {}
    /\ toWake = {}
    /\ ready = {}
    /\ poller = [w \in Waits |-> NoTask]
    /\ answer = [w \in Waits |-> "none"]
    /\ abandoned = {}

-----------------------------------------------------------------------------
(* The guest: WaitPoll *)

\* WaitPoll::new: a future that owns a pollable.
Create(w) ==
    /\ future[w] = "absent"
    /\ future' = [future EXCEPT ![w] = "unregistered"]
    /\ UNCHANGED <<status, waker, id, nextId, queue, hand, toWake, ready,
                   poller, answer, abandoned>>

\* Mutant: fetch_add without the check, one id too many.
RegisterUnchecked(w, t) ==
    /\ future[w] = "unregistered"
    /\ future' = [future EXCEPT ![w] = "registered"]
    /\ status' = [status EXCEPT ![w] = "Pending"]
    /\ waker' = [waker EXCEPT ![w] = t]
    /\ id' = [id EXCEPT ![w] = nextId]
    /\ nextId' = nextId + 1
    /\ queue' = queue \cup {w}
    /\ poller' = [poller EXCEPT ![w] = t]
    /\ answer' = [answer EXCEPT ![w] = "pending"]
    /\ UNCHANGED <<hand, toWake, ready, abandoned>>

\* Mutant: the id counter wraps around.
RegisterWraps(w, t) ==
    /\ future[w] = "unregistered"
    /\ future' = [future EXCEPT ![w] = "registered"]
    /\ status' = [status EXCEPT ![w] = "Pending"]
    /\ waker' = [waker EXCEPT ![w] = t]
    /\ id' = [id EXCEPT ![w] = nextId]
    /\ nextId' = IF nextId = MaxId THEN 1 ELSE nextId + 1
    /\ queue' = queue \cup {w}
    /\ poller' = [poller EXCEPT ![w] = t]
    /\ answer' = [answer EXCEPT ![w] = "pending"]
    /\ UNCHANGED <<hand, toWake, ready, abandoned>>

\* The first poll: WaitQueue::register with the polling task's waker.
Register(w, t) ==
    /\ future[w] = "unregistered"
    /\ nextId < MaxId
    /\ future' = [future EXCEPT ![w] = "registered"]
    /\ status' = [status EXCEPT ![w] = "Pending"]
    /\ waker' = [waker EXCEPT ![w] = t]
    /\ id' = [id EXCEPT ![w] = nextId]
    /\ nextId' = nextId + 1
    /\ queue' = queue \cup {w}
    /\ poller' = [poller EXCEPT ![w] = t]
    /\ answer' = [answer EXCEPT ![w] = "pending"]
    /\ UNCHANGED <<hand, toWake, ready, abandoned>>

\* The first poll when checked_add refuses another id.
RegisterExhausted(w, t) ==
    /\ future[w] = "unregistered"
    /\ nextId = MaxId
    /\ future' = [future EXCEPT ![w] = "failed"]
    /\ poller' = [poller EXCEPT ![w] = t]
    /\ answer' = [answer EXCEPT ![w] = "exhausted"]
    /\ UNCHANGED <<status, waker, id, nextId, queue, hand, toWake, ready,
                   abandoned>>

\* Mutant: the waker of the first poll is kept.
PollKeepsWaker(w, t) ==
    /\ future[w] = "registered"
    /\ poller' = [poller EXCEPT ![w] = t]
    /\ answer' = [answer EXCEPT ![w] = IF status[w] = "Ready" THEN "ok"
                                                             ELSE "pending"]
    /\ UNCHANGED <<future, status, waker, id, nextId, queue, hand, toWake,
                   ready, abandoned>>

\* WaitRegistration::poll: a pending registration adopts the caller's waker.
PollRegistered(w, t) ==
    /\ future[w] = "registered"
    /\ waker' = [waker EXCEPT ![w] = IF status[w] = "Pending" THEN t ELSE @]
    /\ poller' = [poller EXCEPT ![w] = t]
    /\ answer' = [answer EXCEPT ![w] = CASE status[w] = "Ready" -> "ok"
                                         [] status[w] = "Canceled" -> "canceled"
                                         [] OTHER -> "pending"]
    /\ UNCHANGED <<future, status, id, nextId, queue, hand, toWake, ready,
                   abandoned>>

\* WaitPollInner::Failed answers every later poll with the same error.
PollFailed(w, t) ==
    /\ future[w] = "failed"
    /\ poller' = [poller EXCEPT ![w] = t]
    /\ UNCHANGED <<future, status, waker, id, nextId, queue, hand, toWake,
                   ready, answer, abandoned>>

PollWait(w, t) ==
    \/ Register(w, t)
    \/ RegisterExhausted(w, t)
    \/ PollRegistered(w, t)
    \/ PollFailed(w, t)

Held == {"unregistered", "registered", "failed"}

\* Mutant: a dropped wait leaves its entry in the queue.
WithoutNone(D) == queue

\* The queue without the entries that carry the id of a wait in D.
Without(D) ==
    {v \in queue : \A w \in D : future[w] = "registered" => id[v] # id[w]}

\* WaitPoll::drop for every wait of D: cancel, then WaitQueue::cancel(id).
DropWaits(D) ==
    /\ \A w \in D : future[w] \in Held
    /\ future' = [w \in Waits |-> IF w \in D THEN "dropped" ELSE future[w]]
    /\ status' = [w \in Waits |-> IF w \in D /\ status[w] = "Pending"
                                  THEN "Canceled" ELSE status[w]]
    /\ queue' = Without(D)
    /\ abandoned' = abandoned \ D
    /\ UNCHANGED <<waker, id, nextId, hand, toWake, ready, poller, answer>>

-----------------------------------------------------------------------------
(* The executor: dispatch_ready, sweep_ready, abandon_leftover_pollables *)

IsPending(w) == status[w] = "Pending"

\* WaitRegistration::mark_ready on every wait of R, collecting the wakers.
MarkReady(R) ==
    /\ status' = [w \in Waits |-> IF w \in R /\ IsPending(w)
                                  THEN "Ready" ELSE status[w]]
    /\ toWake' = toWake \cup {waker[w] : w \in {v \in R : IsPending(v)}}

\* Mutant: the entries are copied instead of drained.
TakeCopies ==
    /\ hand = {}
    /\ hand' = {w \in queue : IsPending(w)}
    /\ UNCHANGED <<future, status, waker, id, nextId, queue, toWake, ready,
                   poller, answer, abandoned>>

\* dispatch_ready up to the host poll: the drained, still pending entries.
TakePending ==
    /\ hand = {}
    /\ hand' = {w \in queue : IsPending(w)}
    /\ queue' = {}
    /\ UNCHANGED <<future, status, waker, id, nextId, toWake, ready, poller,
                   answer, abandoned>>

\* Mutant: the entries that are not ready are not put back.
AnswerForgets(R) ==
    /\ R # {}
    /\ R \subseteq hand \cap ready
    /\ MarkReady(R)
    /\ hand' = {}
    /\ UNCHANGED <<future, waker, id, nextId, queue, ready, poller, answer,
                   abandoned>>

\* Mutant: every entry counts as ready.
AnswerMarksAll(R) ==
    /\ R # {}
    /\ R \subseteq hand \cap ready
    /\ MarkReady(hand)
    /\ hand' = {}
    /\ UNCHANGED <<future, waker, id, nextId, queue, ready, poller, answer,
                   abandoned>>

\* Mutant: the wakers of the ready entries are not called.
AnswerWakesNone(R) ==
    /\ R # {}
    /\ R \subseteq hand \cap ready
    /\ status' = [w \in Waits |-> IF w \in R /\ IsPending(w)
                                  THEN "Ready" ELSE status[w]]
    /\ queue' = queue \cup (hand \ R)
    /\ hand' = {}
    /\ UNCHANGED <<future, waker, id, nextId, toWake, ready, poller, answer,
                   abandoned>>

\* The host poll returned R: mark those ready, put the others back.
HostAnswer(R) ==
    /\ R # {}
    /\ R \subseteq hand \cap ready
    /\ MarkReady(R)
    /\ queue' = queue \cup (hand \ R)
    /\ hand' = {}
    /\ UNCHANGED <<future, waker, id, nextId, ready, poller, answer, abandoned>>

\* sweep_ready: one Pollable::ready probe of every pending registration.
Sweep ==
    LET entries == {w \in queue : IsPending(w)} IN
    /\ MarkReady(entries \cap ready)
    /\ queue' = entries \ ready
    /\ UNCHANGED <<future, waker, id, nextId, hand, ready, poller, answer,
                   abandoned>>

\* Mutant: leftovers are canceled while their owner still holds them.
AbandonCancels ==
    LET entries == {w \in queue : IsPending(w)} IN
    /\ status' = [w \in Waits |-> IF w \notin entries THEN status[w]
                                  ELSE IF w \in ready THEN "Ready"
                                  ELSE "Canceled"]
    /\ toWake' = toWake \cup {waker[w] : w \in entries \cap ready}
    /\ queue' = {}
    /\ UNCHANGED <<future, waker, id, nextId, hand, ready, poller, answer,
                   abandoned>>

\* Mutant: leftovers stay in the queue.
AbandonRequeues ==
    LET entries == {w \in queue : IsPending(w)} IN
    /\ MarkReady(entries \cap ready)
    /\ queue' = entries \ ready
    /\ UNCHANGED <<future, waker, id, nextId, hand, ready, poller, answer,
                   abandoned>>

\* abandon_leftover_pollables: the same probe, the others are let go.
Abandon ==
    LET entries == {w \in queue : IsPending(w)} IN
    /\ MarkReady(entries \cap ready)
    /\ queue' = {}
    /\ abandoned' = abandoned \cup (entries \ ready)
    /\ UNCHANGED <<future, waker, id, nextId, hand, ready, poller, answer>>

\* Waker::wake of one collected waker.
CallWaker(t) ==
    /\ t \in toWake
    /\ toWake' = toWake \ {t}
    /\ UNCHANGED <<future, status, waker, id, nextId, queue, hand, ready,
                   poller, answer, abandoned>>

-----------------------------------------------------------------------------
(* The environment *)

\* The host makes a pollable ready; it stays ready.
PollableReady(w) ==
    /\ future[w] \in {"unregistered", "registered"}
    /\ w \notin ready
    /\ ready' = ready \cup {w}
    /\ UNCHANGED <<future, status, waker, id, nextId, queue, hand, toWake,
                   poller, answer, abandoned>>

\* When task t is polled, the wake-ups it was owed for ready waits have come.
Noticed(t) ==
    [w \in Waits |->
        IF poller[w] = t /\ answer[w] = "pending" /\ status[w] = "Ready"
        THEN "noticed" ELSE answer[w]]

Notice(t) ==
    /\ answer' = Noticed(t)
    /\ UNCHANGED <<future, status, waker, id, nextId, queue, hand, toWake,
                   ready, poller, abandoned>>

\* A waker that polls its future on the spot.
CallInline(t) ==
    /\ t \in toWake
    /\ toWake' = toWake \ {t}
    /\ answer' = Noticed(t)
    /\ UNCHANGED <<future, status, waker, id, nextId, queue, hand, ready,
                   poller, abandoned>>

WaitNext ==
    \/ \E w \in Waits : Create(w) \/ PollableReady(w)
    \/ \E w \in Waits, t \in Tasks : PollWait(w, t)
    \/ \E D \in SUBSET Waits : DropWaits(D)
    \/ TakePending
    \/ \E R \in SUBSET Waits : HostAnswer(R)
    \/ Sweep
    \/ Abandon
    \/ \E t \in Tasks : CallWaker(t) \/ Notice(t) \/ CallInline(t)

WaitSpec == WaitInit /\ [][WaitNext]_waitVars

-----------------------------------------------------------------------------
(* Properties *)

\* No registration is lost: as long as its WaitPoll lives and waits, its entry
\* is queued or with the host, unless the end of a run has abandoned it.
PendingIsTracked ==
    \A w \in Waits :
        future[w] = "registered" /\ IsPending(w)
            => w \in queue \cup hand \cup abandoned

\* An entry is in one place only, and an abandoned one is never taken up again.
Exclusive ==
    /\ queue \cap hand = {}
    /\ abandoned \cap (queue \cup hand) = {}

\* Whatever task polled a pending wait last is the one its waker wakes, also
\* when the future has moved to another task since it was registered.
WakerIsLatest ==
    \A w \in Waits :
        future[w] = "registered" /\ IsPending(w)
            => waker[w] = poller[w] /\ answer[w] = "pending"

\* A live WaitPoll never resolves to PollableCanceled, and resolves to Ok only
\* for a pollable the host has reported ready.
HonestAnswer ==
    \A w \in Waits :
        /\ answer[w] # "canceled"
        /\ answer[w] = "ok" => w \in ready

\* Ids are handed out once, so WaitQueue::cancel(id) cannot remove the entry
\* of another WaitPoll.
DistinctIds ==
    \A v, w \in Waits : status[v] # "none" /\ status[w] # "none" /\ v # w
                            => id[v] # id[w]

\* What the holder of a wait has been told so far.
Told(w) ==
    IF future[w] = "registered"
    THEN IF answer[w] = "ok" THEN "resolved"
         ELSE IF answer[w] = "canceled" THEN "canceled" ELSE "waiting"
    ELSE CASE future[w] = "absent" -> "absent"
           [] future[w] = "unregistered" -> "new"
           [] future[w] = "failed" -> "refused"
           [] OTHER -> "gone"

told == [w \in Waits |-> Told(w)]

Promise == INSTANCE WaitPromise WITH phase <- told

\* The registrations, wakers and queue implement what a WaitPoll promises.
KeepsPromise == Promise!Spec

-----------------------------------------------------------------------------
(* The inductive invariant *)

\* An entry in the queue or in hand belongs to a live pending wait, or to one
\* that was dropped while the host poll was in flight.
EntriesAccounted ==
    \A w \in queue \cup hand :
        \/ future[w] = "registered" /\ IsPending(w)
        \/ future[w] = "dropped" /\ status[w] = "Canceled"

StatusFollowsFuture ==
    \A w \in Waits :
        /\ future[w] = "registered" => status[w] \in {"Pending", "Ready"}
        /\ future[w] \in {"absent", "unregistered", "failed"}
              => status[w] = "none"
        /\ IsPending(w) => future[w] = "registered" /\ waker[w] \in Tasks
        /\ status[w] = "Ready" => w \in ready

IdsBelowNext ==
    \A w \in Waits : status[w] # "none" => id[w] < nextId

WaitInv ==
    /\ WaitTypeOK
    /\ PendingIsTracked
    /\ Exclusive
    /\ WakerIsLatest
    /\ HonestAnswer
    /\ DistinctIds
    /\ EntriesAccounted
    /\ StatusFollowsFuture
    /\ IdsBelowNext
    /\ \A w \in abandoned : future[w] = "registered" /\ IsPending(w)
=============================================================================
