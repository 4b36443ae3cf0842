---------------------------- MODULE CounterStore ----------------------------
(***************************************************************************)
(* The counter store of the production example                             *)
(* (examples/production-counter/store/src/main.rs): an increment is a      *)
(* transaction that reserves its operation id, and only the one that has   *)
(* reserved it counts; any other is answered with the value recorded then. *)
(*                                                                         *)
(* Every statement of a transaction is a step: the database may fail, the  *)
(* process may crash and the connection of the caller may close between    *)
(* any two.  The pool has one connection, so there is one transaction at a *)
(* time and no read beside it.  Requests and answers are messages that may *)
(* arrive in any order, late or never.                                     *)
(***************************************************************************)
EXTENDS Naturals, FiniteSets

CONSTANTS
    Ops,        \* operation ids
    MaxFaults   \* bound: failures, crashes and lost messages

ASSUME MaxFaultsAssumption == MaxFaults \in Nat

VARIABLES
    value,     \* counters.value
    rows,      \* counter_operations: an operation and its result_value
    txn,       \* the transaction on the pool's connection
    requests,  \* requests on their way to the store
    answers,   \* answers on their way back
    faults     \* how much of MaxFaults is used

storeVars == <<value, rows, txn, requests, answers, faults>>

Null == 0
Row(op, v) == [op |-> op, value |-> v]
Idle == [step |-> "idle"]
Transaction(step, request, v, rs, result) ==
    [step |-> step, request |-> request, value |-> v, rows |-> rs, result |-> result]

OK == 200
BadRequest == 400
Unavailable == 503
Answer(request, status, v) == [request |-> request, status |-> status, value |-> v]

StoreInit ==
    /\ value = 0
    /\ rows = {}
    /\ txn = Idle
    /\ requests = {}
    /\ answers = {}
    /\ faults = 0

Steps == {"reserve", "update", "record", "replay", "commit", "respond"}
InTransaction == txn.step \in Steps \ {"respond"}
RowsOf(op) == {r \in txn.rows : r.op = op}

-----------------------------------------------------------------------------
(* read_counter and increment_counter *)

ReadCounter(request) ==
    /\ txn = Idle
    /\ request \in requests
    /\ request.kind = "read"
    /\ requests' = requests \ {request}
    /\ answers' = answers \cup {Answer(request, OK, value)}
    /\ UNCHANGED <<value, rows, txn, faults>>

\* The counter's own row is there from now on.
Begin(request) ==
    /\ txn = Idle
    /\ request \in requests
    /\ request.kind = "increment"
    /\ requests' = requests \ {request}
    /\ txn' = Transaction("reserve", request, value, rows, Null)
    /\ UNCHANGED <<value, rows, answers, faults>>

OnlyTxn == UNCHANGED <<value, rows, requests, answers, faults>>

\* Mutant: an operation that is there already is reserved again.
ReserveAgain ==
    /\ txn.step = "reserve"
    /\ txn' = [txn EXCEPT !.step = "update",
                          !.rows = @ \cup {Row(txn.request.op, Null)}]
    /\ OnlyTxn

\* INSERT ... ON CONFLICT DO NOTHING RETURNING 1
Reserve ==
    /\ txn.step = "reserve"
    /\ txn' = IF RowsOf(txn.request.op) = {}
              THEN [txn EXCEPT !.step = "update",
                               !.rows = @ \cup {Row(txn.request.op, Null)}]
              ELSE [txn EXCEPT !.step = "replay"]
    /\ OnlyTxn

Update ==
    /\ txn.step = "update"
    /\ txn' = [txn EXCEPT !.step = "record", !.value = @ + 1]
    /\ OnlyTxn

Record ==
    /\ txn.step = "record"
    /\ txn' = [txn EXCEPT
                  !.step = "commit",
                  !.rows = (@ \ {Row(txn.request.op, Null)})
                               \cup {Row(txn.request.op, txn.value)},
                  !.result = txn.value]
    /\ OnlyTxn

\* Mutant: a retry is answered with the value of the counter.
ReplayCurrent ==
    /\ txn.step = "replay"
    /\ txn' = [txn EXCEPT !.step = "commit", !.result = txn.value]
    /\ OnlyTxn

\* The recorded result; without one the request is refused and rolled back.
Replay ==
    /\ txn.step = "replay"
    /\ LET found == CHOOSE r \in RowsOf(txn.request.op) : TRUE
       IN IF found.value # Null
          THEN /\ txn' = [txn EXCEPT !.step = "commit", !.result = found.value]
               /\ UNCHANGED answers
          ELSE /\ txn' = Idle
               /\ answers' = answers \cup {Answer(txn.request, BadRequest, Null)}
    /\ UNCHANGED <<value, rows, requests, faults>>

Commit ==
    /\ txn.step = "commit"
    /\ value' = txn.value
    /\ rows' = txn.rows
    /\ txn' = [txn EXCEPT !.step = "respond"]
    /\ UNCHANGED <<requests, answers, faults>>

Respond ==
    /\ txn.step = "respond"
    /\ txn' = Idle
    /\ answers' = answers \cup {Answer(txn.request, OK, txn.result)}
    /\ UNCHANGED <<value, rows, requests, faults>>

-----------------------------------------------------------------------------
(* What goes wrong *)

Fault ==
    /\ faults < MaxFaults
    /\ faults' = faults + 1

\* StoreError::Unavailable: the SELECT of a read fails, or there is no connection
\* for it.
ReadFails(request) ==
    /\ txn = Idle
    /\ request \in requests
    /\ request.kind = "read"
    /\ Fault
    /\ requests' = requests \ {request}
    /\ answers' = answers \cup {Answer(request, Unavailable, Null)}
    /\ UNCHANGED <<value, rows, txn>>

\* StoreError::Unavailable: the transaction is rolled back.
StatementFails ==
    /\ InTransaction
    /\ Fault
    /\ txn' = Idle
    /\ answers' = answers \cup {Answer(txn.request, Unavailable, Null)}
    /\ UNCHANGED <<value, rows, requests>>

\* Mutant: what a transaction has written so far outlives it.
AbandonKeeps ==
    /\ txn # Idle
    /\ Fault
    /\ txn' = Idle
    /\ value' = txn.value
    /\ rows' = txn.rows
    /\ UNCHANGED <<requests, answers>>

\* The process crashes, or the caller's connection closes and the handler is
\* dropped: what is committed stays, the answer is never sent.
Abandon ==
    /\ txn # Idle
    /\ Fault
    /\ txn' = Idle
    /\ UNCHANGED <<value, rows, requests, answers>>

LoseRequest(request) ==
    /\ request \in requests
    /\ Fault
    /\ requests' = requests \ {request}
    /\ UNCHANGED <<value, rows, txn, answers>>

LoseAnswer(answer) ==
    /\ answer \in answers
    /\ Fault
    /\ answers' = answers \ {answer}
    /\ UNCHANGED <<value, rows, txn, requests>>

StoreNext ==
    \/ \E request \in requests :
           \/ ReadCounter(request) \/ ReadFails(request)
           \/ Begin(request) \/ LoseRequest(request)
    \/ Reserve \/ Update \/ Record \/ Replay \/ Commit \/ Respond
    \/ StatementFails \/ Abandon
    \/ \E answer \in answers : LoseAnswer(answer)

-----------------------------------------------------------------------------
(* Properties *)

\* The counter and the operations that made it: each once, each with its value.
Consistent(v, rs) ==
    /\ Cardinality(rs) = v
    /\ \A r \in rs : r.value \in 1..v
    /\ \A r, s \in rs : r.op = s.op \/ r.value = s.value => r = s

\* Whatever fails, crashes or is tried again, the committed counter is the number
\* of operations that are recorded, each once and with a result of its own; no
\* operation is ever seen without its result (main.rs:103-140).
CountsOperationsOnce == Consistent(value, rows)
=============================================================================
