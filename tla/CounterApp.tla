----------------------------- MODULE CounterApp -----------------------------
(***************************************************************************)
(* The counter example with its store: the island in each visitor's        *)
(* browser (CounterIsland, examples/counter/src/app.rs) calls a server     *)
(* function, which asks the store and waits two seconds at most            *)
(* (examples/counter/src/counter_store.rs).                                *)
(*                                                                         *)
(* A call of a server function and the request it makes are one message,   *)
(* numbered by attempt.  An answer that comes after the deadline is        *)
(* dropped; the request may still reach the store, even after a retry.     *)
(* Without a configured store the server function adds one to the count    *)
(* the island has sent it.                                                 *)
(***************************************************************************)
EXTENDS CounterStore

CONSTANTS
    Visitors,
    NoOp,         \* the island has no operation id
    MaxAttempts,  \* bound: attempts of an operation
    MaxCount      \* u32::MAX: the largest count the component can read

ASSUME NoOpAssumption == NoOp \notin Ops
ASSUME MaxAttemptsAssumption == MaxAttempts \in Nat
ASSUME MaxCountAssumption == MaxCount \in Nat

VARIABLES
    configured,  \* COUNTER_STORE_URL is set
    load,        \* load_action: not begun, pending or done
    action,      \* increment_action: idle or pending
    count,       \* the count an island shows
    operation,   \* operation_id
    attempts,    \* attempts an island has made for its operation
    used,        \* ids that islands have made up
    told         \* increments the islands have been told of, with the value

appVars == <<configured, load, action, count, operation, attempts, used, told>>
vars == <<storeVars, appVars>>

ReadOf(c) == [kind |-> "read", visitor |-> c]
IncrementOf(c) ==
    [kind |-> "increment", visitor |-> c, op |-> operation[c], attempt |-> attempts[c]]

Init ==
    /\ StoreInit
    /\ configured \in BOOLEAN
    /\ load = [c \in Visitors |-> "no"]
    /\ action = [c \in Visitors |-> "idle"]
    /\ count = [c \in Visitors |-> 0]
    /\ operation = [c \in Visitors |-> NoOp]
    /\ attempts = [c \in Visitors |-> 0]
    /\ used = {}
    /\ told = {}

StoreStays == UNCHANGED <<value, rows, txn, faults>>
Ask(request) ==
    /\ requests' = IF configured THEN requests \cup {request} ELSE requests
    /\ UNCHANGED answers

-----------------------------------------------------------------------------
(* Loading the count: once, when the island is hydrated *)

Load(c) ==
    /\ load[c] = "no"
    /\ load' = [load EXCEPT ![c] = "pending"]
    /\ Ask(ReadOf(c))
    /\ StoreStays
    /\ UNCHANGED <<configured, action, count, operation, attempts, used, told>>

\* The answers the server function gets for a request.
AnswersTo(request) == {a \in answers : a.request = request}
Readable(a) == a.status = OK /\ a.value <= MaxCount

LoadDone(c, shown) ==
    /\ load[c] = "pending"
    /\ load' = [load EXCEPT ![c] = "done"]
    /\ count' = [count EXCEPT ![c] = shown]
    /\ UNCHANGED <<value, rows, txn, faults, requests,
                   configured, action, operation, attempts, used, told>>

\* get_count without a store is 0; a failure leaves the count as it is.
LoadAnswered(c) ==
    \E a \in AnswersTo(ReadOf(c)) :
        /\ LoadDone(c, IF Readable(a) THEN a.value ELSE count[c])
        /\ answers' = answers \ {a}

LoadUnconfigured(c) == ~configured /\ LoadDone(c, 0) /\ UNCHANGED answers

\* The deadline passes: CounterStoreError::Timeout.
LoadGivesUp(c) == configured /\ LoadDone(c, count[c]) /\ UNCHANGED answers

-----------------------------------------------------------------------------
(* Incrementing *)

Pending(c) == load[c] = "pending" \/ action[c] = "pending"

Dispatch(c, op, n) ==
    /\ operation' = [operation EXCEPT ![c] = op]
    /\ attempts' = [attempts EXCEPT ![c] = n]
    /\ used' = used \cup {op}
    /\ action' = [action EXCEPT ![c] = "pending"]
    /\ Ask(IncrementOf(c)')
    /\ StoreStays
    /\ UNCHANGED <<configured, load, count, told>>

\* Mutant: the button is disabled for increments only.
ClickWhileLoading(c) ==
    /\ load[c] # "no"
    /\ action[c] # "pending"
    /\ operation[c] = NoOp
    /\ \E op \in Ops \ used : Dispatch(c, op, 1)

\* The button, when it is not disabled: the operation id of an increment that
\* failed is used again.
Click(c) ==
    /\ load[c] # "no"
    /\ ~Pending(c)
    /\ \/ /\ operation[c] = NoOp
          /\ \E op \in Ops \ used : Dispatch(c, op, 1)
       \/ /\ operation[c] # NoOp
          /\ attempts[c] < MaxAttempts
          /\ Dispatch(c, operation[c], attempts[c] + 1)

ActionDone(c, shown, op) ==
    /\ action[c] = "pending"
    /\ action' = [action EXCEPT ![c] = "idle"]
    /\ count' = [count EXCEPT ![c] = shown]
    /\ operation' = [operation EXCEPT ![c] = op]
    /\ UNCHANGED <<value, rows, txn, faults, requests,
                   configured, load, attempts, used>>

\* The effect on Some(Ok): the operation is done with.
IncrementSucceeds(c) ==
    \E a \in AnswersTo(IncrementOf(c)) :
        /\ Readable(a)
        /\ ActionDone(c, a.value, NoOp)
        /\ answers' = answers \ {a}
        /\ told' = told \cup {Row(operation[c], a.value)}

\* An answer other than 200, or one the component cannot read.
IncrementFails(c) ==
    \E a \in AnswersTo(IncrementOf(c)) :
        /\ ~Readable(a)
        /\ ActionDone(c, count[c], operation[c])
        /\ answers' = answers \ {a}
        /\ UNCHANGED told

\* Mutant: only an answer ends the wait.
WaitsForAnswer(c) ==
    /\ AnswersTo(IncrementOf(c)) # {}
    /\ ActionDone(c, count[c], operation[c])
    /\ UNCHANGED <<answers, told>>

\* The deadline passes, whatever becomes of the request.
IncrementGivesUp(c) ==
    /\ configured
    /\ ActionDone(c, count[c], operation[c])
    /\ UNCHANGED <<answers, told>>

\* checked_add without a store.
IncrementUnconfigured(c) ==
    /\ ~configured
    /\ IF count[c] < MaxCount
       THEN ActionDone(c, count[c] + 1, NoOp)
       ELSE ActionDone(c, count[c], operation[c])
    /\ UNCHANGED <<answers, told>>

-----------------------------------------------------------------------------
VisitorNext(c) ==
    \/ Load(c) \/ LoadAnswered(c) \/ LoadUnconfigured(c) \/ LoadGivesUp(c)
    \/ Click(c) \/ IncrementSucceeds(c) \/ IncrementFails(c)
    \/ IncrementGivesUp(c) \/ IncrementUnconfigured(c)

Next ==
    \/ StoreNext /\ UNCHANGED appVars
    \/ \E c \in Visitors : VisitorNext(c)

Spec == Init /\ [][Next]_vars

\* The clock goes on, and a server function without a store answers.
Deadlines ==
    \A c \in Visitors :
        WF_vars(LoadGivesUp(c) \/ LoadUnconfigured(c))
            /\ WF_vars(IncrementGivesUp(c) \/ IncrementUnconfigured(c))

FairSpec == Spec /\ Deadlines

-----------------------------------------------------------------------------
(* Properties *)

\* The store and its visitors keep the promise of the counter: an increment
\* counts once however often its answer is lost and its request repeated, and
\* the island learns the value it made, not one of a later increment.
Promise == INSTANCE Counter WITH counted <- rows, told <- told
KeepsPromise == Promise!Spec

\* The count an island shows never falls back: neither a load that is answered
\* late nor a retry that is answered with its first result can put an older
\* count in the place of a newer one (app.rs:113-134).
ShownNeverFallsBack == [][\A c \in Visitors : count'[c] >= count[c]]_count

\* The button is not disabled for good, whatever becomes of requests and answers
\* (counter_store.rs:140-154).
ButtonComesBack == \A c \in Visitors : Pending(c) ~> ~Pending(c)
=============================================================================
