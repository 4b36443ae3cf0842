------------------------- MODULE CounterStoreProofs -------------------------
(***************************************************************************)
(* Proofs about the counter example and its store, for any operations,     *)
(* visitors, attempts and faults: the committed counter counts every       *)
(* recorded operation once, and visitors are told what was recorded.       *)
(***************************************************************************)
EXTENDS CounterApp, FiniteSetTheorems, TLAPS

Recorded(op, v) == Row(op, v) \in rows
Fresh(op) == \A r \in rows : r.op # op

CommittedRows ==
    /\ value \in Nat
    /\ rows \subseteq [op : Ops, value : Nat]
    /\ IsFiniteSet(rows)
    /\ Consistent(value, rows)

\* A transaction starts from what is committed, which stays while it is open; at
\* every statement it holds that, or that and its own increment.
Copies == txn.value = value /\ txn.rows = rows
Reserved == Fresh(txn.request.op) /\ txn.rows = rows \cup {Row(txn.request.op, Null)}

TxnFollows ==
    txn # Idle =>
        /\ txn.step \in Steps
        /\ txn = Transaction(txn.step, txn.request, txn.value, txn.rows, txn.result)
        /\ txn.request.kind = "increment" /\ txn.request.op \in Ops
        /\ txn.step = "reserve" => Copies
        /\ txn.step = "update" => txn.value = value /\ Reserved
        /\ txn.step = "record" => txn.value = value + 1 /\ Reserved
        /\ txn.step = "replay" => Copies /\ ~Fresh(txn.request.op)
        /\ txn.step = "commit" =>
               \/ Copies /\ Recorded(txn.request.op, txn.result)
               \/ /\ Fresh(txn.request.op)
                  /\ txn.value = value + 1 /\ txn.result = value + 1
                  /\ txn.rows = rows \cup {Row(txn.request.op, value + 1)}
        /\ txn.step = "respond" => Recorded(txn.request.op, txn.result)

\* Messages and visitors know only what is recorded.
MessagesAreTrue ==
    /\ \A r \in requests : r.kind = "increment" => r.op \in Ops
    /\ \A a \in answers :
           a.status = OK /\ a.request.kind = "increment" =>
               Recorded(a.request.op, a.value)

VisitorsKnow ==
    /\ operation \in [Visitors -> Ops \cup {NoOp}]
    /\ attempts \in [Visitors -> Nat]
    /\ told \subseteq rows

StoreInv == CommittedRows /\ TxnFollows /\ MessagesAreTrue /\ VisitorsKnow

LEMMA StoreInitially == Init => StoreInv
<1> SUFFICES ASSUME Init PROVE StoreInv
    OBVIOUS
<1> USE DEF Init, StoreInit
<1>1. IsFiniteSet(rows) /\ Cardinality(rows) = 0
    BY FS_EmptySet
<1>2. CommittedRows
    BY <1>1 DEF CommittedRows, Consistent
<1>3. TxnFollows /\ MessagesAreTrue
    BY DEF TxnFollows, MessagesAreTrue
<1>4. VisitorsKnow
    BY DEF VisitorsKnow
<1> QED
    BY <1>2, <1>3, <1>4 DEF StoreInv

\* One more operation is the next number.
LEMMA OneMore ==
    ASSUME CommittedRows, NEW op \in Ops, Fresh(op)
    PROVE  LET more == rows \cup {Row(op, value + 1)}
           IN /\ more \subseteq [op : Ops, value : Nat]
              /\ IsFiniteSet(more)
              /\ Consistent(value + 1, more)
              /\ Cardinality(rows) = value
<1> DEFINE new == Row(op, value + 1)
           more == rows \cup {new}
<1>1. new.op = op /\ new.value = value + 1 /\ new \notin rows
    BY DEF Row, Fresh
<1>2. IsFiniteSet(more) /\ Cardinality(more) = Cardinality(rows) + 1
    BY <1>1, FS_AddElement DEF CommittedRows
<1>3. Cardinality(more) = value + 1 /\ Cardinality(rows) = value
    BY <1>2 DEF CommittedRows, Consistent
<1>4. \A r \in more : r.value \in 1..value + 1
    BY <1>1 DEF CommittedRows, Consistent
<1>5. \A r, s \in more : r.op = s.op \/ r.value = s.value => r = s
    BY <1>1 DEF CommittedRows, Consistent, Fresh
<1>6. more \subseteq [op : Ops, value : Nat]
    BY DEF CommittedRows, Row
<1> QED
    BY <1>2, <1>3, <1>4, <1>5, <1>6 DEF Consistent

\* What is recorded stays recorded.
LEMMA CommitKeeps ==
    ASSUME StoreInv, Commit, UNCHANGED appVars
    PROVE  StoreInv'
<1> USE DEF Commit
<1>1. /\ txn # Idle /\ txn.step = "commit"
      /\ txn = Transaction(txn.step, txn.request, txn.value, txn.rows, txn.result)
      /\ txn.request.kind = "increment" /\ txn.request.op \in Ops
    BY DEF StoreInv, TxnFollows, Idle
<1>2. CASE Copies /\ Recorded(txn.request.op, txn.result)
  <2>1. value' = value /\ rows' = rows
      BY <1>2 DEF Copies
  <2>2. CommittedRows' /\ MessagesAreTrue' /\ VisitorsKnow'
      BY <2>1 DEF StoreInv, CommittedRows, MessagesAreTrue, VisitorsKnow, Recorded, appVars
  <2>3. txn' = Transaction("respond", txn.request, txn.value, txn.rows, txn.result)
      BY <1>1 DEF Transaction
  <2>4. TxnFollows'
      BY <1>1, <1>2, <2>1, <2>3 DEF TxnFollows, Transaction, Steps, Recorded
  <2> QED
      BY <2>2, <2>4 DEF StoreInv
<1>3. CASE /\ Fresh(txn.request.op)
           /\ txn.value = value + 1 /\ txn.result = value + 1
           /\ txn.rows = rows \cup {Row(txn.request.op, value + 1)}
  <2>1. value' = value + 1 /\ rows' = rows \cup {Row(txn.request.op, value + 1)}
      BY <1>3
  <2>2. CommittedRows'
    <3> DEFINE more == rows \cup {Row(txn.request.op, value + 1)}
    <3>1. /\ more \subseteq [op : Ops, value : Nat] /\ IsFiniteSet(more)
          /\ Consistent(value + 1, more)
        BY <1>1, <1>3, OneMore DEF StoreInv
    <3>2. value + 1 \in Nat
        BY DEF StoreInv, CommittedRows
    <3> QED
        BY <2>1, <3>1, <3>2 DEF CommittedRows
  <2>3. MessagesAreTrue' /\ VisitorsKnow'
      BY <2>1 DEF StoreInv, MessagesAreTrue, VisitorsKnow, Recorded, appVars
  <2>4. txn' = Transaction("respond", txn.request, txn.value, txn.rows, txn.result)
      BY <1>1 DEF Transaction
  <2>5. TxnFollows'
      BY <1>1, <1>3, <2>1, <2>4 DEF TxnFollows, Transaction, Steps, Recorded
  <2> QED
      BY <2>2, <2>3, <2>5 DEF StoreInv
<1> QED
    BY <1>1, <1>2, <1>3 DEF StoreInv, TxnFollows

\* The other steps of a transaction, and what goes wrong, commit nothing.
LEMMA StatementKeeps ==
    ASSUME StoreInv, UNCHANGED appVars, UNCHANGED <<value, rows, requests>>,
           Reserve \/ Update \/ Record \/ Replay \/ Respond
    PROVE  StoreInv'
<1>1. /\ txn # Idle /\ txn.step \in Steps
      /\ txn = Transaction(txn.step, txn.request, txn.value, txn.rows, txn.result)
      /\ txn.request.kind = "increment" /\ txn.request.op \in Ops
    BY DEF StoreInv, TxnFollows, Idle, Reserve, Update, Record, Replay, Respond
<1>2. CommittedRows' /\ VisitorsKnow'
    BY DEF StoreInv, CommittedRows, VisitorsKnow, appVars
<1> DEFINE op == txn.request.op
<1>3. CASE Reserve
  <2>1. MessagesAreTrue'
      BY <1>3 DEF StoreInv, MessagesAreTrue, Recorded, Reserve, OnlyTxn
  <2>2. Copies
      BY <1>1, <1>3 DEF Reserve, StoreInv, TxnFollows
  <2>3. CASE RowsOf(op) = {}
    <3>1. Fresh(op)
        BY <2>2, <2>3 DEF Fresh, RowsOf, Copies
    <3>2. txn' = Transaction("update", txn.request, txn.value,
                             rows \cup {Row(op, Null)}, txn.result)
        BY <1>1, <1>3, <2>2, <2>3 DEF Reserve, Transaction, Copies
    <3> QED
        BY <1>1, <1>2, <2>1, <2>2, <3>1, <3>2
           DEF StoreInv, TxnFollows, Transaction, Copies, Reserved, Steps, Fresh
  <2>4. CASE RowsOf(op) # {}
    <3>1. ~Fresh(op)
        BY <2>2, <2>4 DEF Fresh, RowsOf, Copies
    <3>2. txn' = Transaction("replay", txn.request, txn.value, txn.rows, txn.result)
        BY <1>1, <1>3, <2>4 DEF Reserve, Transaction
    <3> QED
        BY <1>1, <1>2, <2>1, <2>2, <3>1, <3>2
           DEF StoreInv, TxnFollows, Transaction, Copies, Steps, Fresh
  <2> QED
      BY <2>3, <2>4
<1>4. CASE Update
  <2>1. MessagesAreTrue'
      BY <1>4 DEF StoreInv, MessagesAreTrue, Recorded, Update, OnlyTxn
  <2>2. txn.value = value /\ Reserved
      BY <1>1, <1>4 DEF Update, StoreInv, TxnFollows
  <2>3. txn' = Transaction("record", txn.request, txn.value + 1, txn.rows, txn.result)
      BY <1>1, <1>4 DEF Update, Transaction
  <2> QED
      BY <1>1, <1>2, <2>1, <2>2, <2>3
         DEF StoreInv, TxnFollows, Transaction, Reserved, Steps, Fresh
<1>5. CASE Record
  <2>1. MessagesAreTrue'
      BY <1>5 DEF StoreInv, MessagesAreTrue, Recorded, Record, OnlyTxn
  <2>2. txn.value = value + 1 /\ Reserved
      BY <1>1, <1>5 DEF Record, StoreInv, TxnFollows
  <2>3. (txn.rows \ {Row(op, Null)}) = rows
      BY <2>2 DEF Reserved, Fresh, Row
  <2>4. txn' = Transaction("commit", txn.request, txn.value,
                           rows \cup {Row(op, value + 1)}, value + 1)
      BY <1>1, <1>5, <2>2, <2>3 DEF Record, Transaction
  <2> QED
      BY <1>1, <1>2, <2>1, <2>2, <2>4
         DEF StoreInv, TxnFollows, Transaction, Reserved, Steps, Fresh
<1>6. CASE Replay
  <2> DEFINE found == CHOOSE r \in RowsOf(op) : TRUE
  <2>1. Copies /\ ~Fresh(op)
      BY <1>1, <1>6 DEF Replay, StoreInv, TxnFollows
  <2>2. found \in rows /\ found.op = op
      BY <2>1 DEF Copies, Fresh, RowsOf
  <2>3. found = Row(op, found.value)
      BY <2>2 DEF StoreInv, CommittedRows, Row
  <2>4. CASE found.value # Null
    <3>1. txn' = Transaction("commit", txn.request, txn.value, txn.rows, found.value)
          /\ answers' = answers
        BY <1>1, <1>6, <2>4 DEF Replay, Transaction
    <3>2. MessagesAreTrue'
        BY <3>1 DEF StoreInv, MessagesAreTrue, Recorded
    <3> QED
      <4>1. Recorded(op, found.value)
          BY <2>2, <2>3 DEF Recorded
      <4> HIDE DEF found
      <4>2. TxnFollows'
          BY <1>1, <2>1, <3>1, <4>1
             DEF TxnFollows, Transaction, Copies, Steps, Fresh, Recorded
      <4> QED
          BY <1>2, <3>2, <4>2 DEF StoreInv
  <2>5. CASE found.value = Null
    <3>1. txn' = Idle /\ answers' = answers \cup {Answer(txn.request, BadRequest, Null)}
        BY <1>6, <2>5 DEF Replay
    <3>2. MessagesAreTrue'
        BY <3>1 DEF StoreInv, MessagesAreTrue, Recorded, Answer, BadRequest, OK
    <3> QED
        BY <1>2, <3>1, <3>2 DEF StoreInv, TxnFollows
  <2> QED
      BY <2>4, <2>5
<1>7. CASE Respond
  <2>1. txn' = Idle /\ answers' = answers \cup {Answer(txn.request, OK, txn.result)}
      BY <1>7 DEF Respond
  <2>2. Recorded(op, txn.result)
      BY <1>1, <1>7 DEF Respond, StoreInv, TxnFollows
  <2>3. MessagesAreTrue'
      BY <2>1, <2>2 DEF StoreInv, MessagesAreTrue, Recorded, Answer
  <2> QED
      BY <1>2, <2>1, <2>3 DEF StoreInv, TxnFollows
<1> QED
    BY <1>3, <1>4, <1>5, <1>6, <1>7

\* Requests, answers and faults: the network, and the transactions they end.
LEMMA MessageKeeps ==
    ASSUME StoreInv, UNCHANGED appVars,
           \/ \E request \in requests :
                  \/ ReadCounter(request) \/ ReadFails(request)
                  \/ Begin(request) \/ LoseRequest(request)
           \/ StatementFails \/ Abandon
           \/ \E answer \in answers : LoseAnswer(answer)
    PROVE  StoreInv'
<1>1. UNCHANGED <<value, rows>> /\ requests' \subseteq requests
    BY DEF ReadCounter, ReadFails, Begin, LoseRequest, StatementFails, Abandon, LoseAnswer
<1>2. CommittedRows' /\ VisitorsKnow'
    BY <1>1 DEF StoreInv, CommittedRows, VisitorsKnow, appVars
<1>3. CASE \E request \in requests : ReadCounter(request) \/ ReadFails(request)
  <2>1. PICK request \in requests : ReadCounter(request) \/ ReadFails(request)
      BY <1>3
  <2>2. /\ txn' = txn /\ request.kind = "read"
        /\ \/ answers' = answers \cup {Answer(request, OK, value)}
           \/ answers' = answers \cup {Answer(request, Unavailable, Null)}
      BY <2>1 DEF ReadCounter, ReadFails
  <2>3. MessagesAreTrue'
      BY <1>1, <2>2 DEF StoreInv, MessagesAreTrue, Recorded, Answer
  <2>4. TxnFollows'
      BY <1>1, <2>2 DEF StoreInv, TxnFollows, Copies, Reserved, Recorded, Fresh
  <2> QED
      BY <1>2, <2>3, <2>4 DEF StoreInv
<1>4. CASE \E request \in requests : Begin(request)
  <2>1. PICK request \in requests : Begin(request)
      BY <1>4
  <2>2. /\ txn' = Transaction("reserve", request, value, rows, Null)
        /\ request.kind = "increment" /\ request.op \in Ops
        /\ answers' = answers
      BY <2>1 DEF Begin, StoreInv, MessagesAreTrue
  <2>3. MessagesAreTrue'
      BY <1>1, <2>2 DEF StoreInv, MessagesAreTrue, Recorded
  <2>4. TxnFollows'
      BY <1>1, <2>2 DEF TxnFollows, Transaction, Copies, Steps
  <2> QED
      BY <1>2, <2>3, <2>4 DEF StoreInv
<1>5. CASE StatementFails \/ Abandon
  <2>1. txn' = Idle
        /\ answers' \subseteq answers \cup {Answer(txn.request, Unavailable, Null)}
      BY <1>5 DEF StatementFails, Abandon
  <2>2. MessagesAreTrue'
      BY <1>1, <2>1 DEF StoreInv, MessagesAreTrue, Recorded, Answer, Unavailable, OK
  <2> QED
      BY <1>2, <2>1, <2>2 DEF StoreInv, TxnFollows
<1>6. CASE \/ \E request \in requests : LoseRequest(request)
           \/ \E answer \in answers : LoseAnswer(answer)
  <2>1. txn' = txn /\ answers' \subseteq answers
      BY <1>6 DEF LoseRequest, LoseAnswer
  <2>2. MessagesAreTrue'
      BY <1>1, <2>1 DEF StoreInv, MessagesAreTrue, Recorded
  <2>3. TxnFollows'
      BY <1>1, <2>1 DEF StoreInv, TxnFollows, Copies, Reserved, Recorded, Fresh
  <2> QED
      BY <1>2, <2>2, <2>3 DEF StoreInv
<1> QED
    BY <1>3, <1>4, <1>5, <1>6

-----------------------------------------------------------------------------
(* The visitors *)

\* A step of an island touches neither the counter nor its transactions.
LEMMA VisitorLeavesStore ==
    ASSUME StoreInv, UNCHANGED <<value, rows, txn>>,
           MessagesAreTrue', VisitorsKnow'
    PROVE  StoreInv'
BY DEF StoreInv, CommittedRows, TxnFollows, Copies, Reserved, Recorded, Fresh

\* A request an island makes is about an operation; answers are only taken.
LEMMA MessagesStayTrue ==
    ASSUME StoreInv, UNCHANGED rows, answers' \subseteq answers,
           \A r \in requests' \ requests : r.kind = "increment" => r.op \in Ops
    PROVE  MessagesAreTrue'
BY DEF StoreInv, MessagesAreTrue, Recorded

LEMMA LoadKeeps ==
    ASSUME StoreInv, NEW c \in Visitors,
           Load(c) \/ LoadAnswered(c) \/ LoadUnconfigured(c) \/ LoadGivesUp(c)
    PROVE  StoreInv'
<1>1. /\ UNCHANGED <<value, rows, txn, operation, attempts, told>>
      /\ answers' \subseteq answers
      /\ requests' \subseteq requests \cup {ReadOf(c)}
    BY DEF Load, LoadAnswered, LoadUnconfigured, LoadGivesUp, LoadDone, Ask, StoreStays
<1>2. \A r \in requests' \ requests : r.kind = "read"
    BY <1>1 DEF ReadOf
<1>3. MessagesAreTrue'
    BY <1>1, <1>2, MessagesStayTrue
<1>4. VisitorsKnow'
    BY <1>1 DEF StoreInv, VisitorsKnow
<1> QED
    BY <1>1, <1>3, <1>4, VisitorLeavesStore

LEMMA DispatchKeeps ==
    ASSUME StoreInv, NEW c \in Visitors, NEW op \in Ops, NEW n \in Nat,
           Dispatch(c, op, n)
    PROVE  StoreInv'
<1> USE DEF Dispatch, StoreStays
<1>1. VisitorsKnow' /\ operation'[c] = op
    BY DEF StoreInv, VisitorsKnow
<1>2. answers' = answers
      /\ \A r \in requests' \ requests : r.op = op
    BY <1>1 DEF Ask, IncrementOf
<1>3. MessagesAreTrue'
    BY <1>2, MessagesStayTrue
<1> QED
    BY <1>1, <1>3, VisitorLeavesStore

LEMMA ClickKeeps ==
    ASSUME StoreInv, NEW c \in Visitors, Click(c)
    PROVE  StoreInv'
<1>1. CASE \E op \in Ops \ used : Dispatch(c, op, 1)
    BY <1>1, DispatchKeeps
<1>2. CASE operation[c] # NoOp /\ Dispatch(c, operation[c], attempts[c] + 1)
  <2>1. operation[c] \in Ops /\ attempts[c] + 1 \in Nat
      BY <1>2 DEF StoreInv, VisitorsKnow
  <2> DEFINE op == operation[c]
             n == attempts[c] + 1
  <2> QED
      BY <1>2, <2>1, DispatchKeeps
<1> QED
    BY <1>1, <1>2 DEF Click

\* A visitor is told only what an answer says, and so what is recorded.
LEMMA SuccessTells ==
    ASSUME StoreInv, NEW c \in Visitors, IncrementSucceeds(c)
    PROVE  \E r \in rows : told' = told \cup {r}
<1>1. PICK a \in AnswersTo(IncrementOf(c)) :
          Readable(a) /\ told' = told \cup {Row(operation[c], a.value)}
    BY DEF IncrementSucceeds
<1>2. a \in answers /\ a.status = OK /\ a.request = IncrementOf(c)
    BY <1>1 DEF AnswersTo, Readable
<1>3. a.request.kind = "increment" /\ a.request.op = operation[c]
    BY <1>2 DEF IncrementOf
<1>4. Row(operation[c], a.value) \in rows
    BY <1>2, <1>3 DEF StoreInv, MessagesAreTrue, Recorded
<1> QED
    BY <1>1, <1>4

LEMMA OutcomeKeeps ==
    ASSUME StoreInv, NEW c \in Visitors,
           \/ IncrementSucceeds(c) \/ IncrementFails(c)
           \/ IncrementGivesUp(c) \/ IncrementUnconfigured(c)
    PROVE  StoreInv'
<1>1. /\ UNCHANGED <<value, rows, txn, requests, attempts>>
      /\ answers' \subseteq answers
      /\ \E op \in {NoOp, operation[c]} : operation' = [operation EXCEPT ![c] = op]
      /\ told' = told \/ IncrementSucceeds(c)
    BY DEF IncrementSucceeds, IncrementFails, IncrementGivesUp,
           IncrementUnconfigured, ActionDone
<1>2. MessagesAreTrue'
    BY <1>1, MessagesStayTrue
<1>3. told' \subseteq rows'
    BY <1>1, SuccessTells DEF StoreInv, VisitorsKnow
<1>4. VisitorsKnow'
    BY <1>1, <1>3 DEF StoreInv, VisitorsKnow
<1> QED
    BY <1>1, <1>2, <1>4, VisitorLeavesStore

LEMMA StoreSteps == StoreInv /\ [Next]_vars => StoreInv'
<1> SUFFICES ASSUME StoreInv, [Next]_vars PROVE StoreInv'
    OBVIOUS
<1>1. CASE StoreNext /\ UNCHANGED appVars
  <2>1. CASE Commit
      BY <1>1, <2>1, CommitKeeps
  <2>2. CASE Reserve \/ Update \/ Record \/ Replay \/ Respond
    <3>1. UNCHANGED <<value, rows, requests>>
        BY <2>2 DEF Reserve, Update, Record, Replay, Respond, OnlyTxn
    <3> QED
        BY <1>1, <2>2, <3>1, StatementKeeps
  <2>3. CASE \/ \E request \in requests :
                    \/ ReadCounter(request) \/ ReadFails(request)
                    \/ Begin(request) \/ LoseRequest(request)
             \/ StatementFails \/ Abandon
             \/ \E answer \in answers : LoseAnswer(answer)
      BY <1>1, <2>3, MessageKeeps
  <2> QED
      BY <1>1, <2>1, <2>2, <2>3 DEF StoreNext
<1>2. CASE \E c \in Visitors : VisitorNext(c)
    BY <1>2, LoadKeeps, ClickKeeps, OutcomeKeeps DEF VisitorNext
<1>3. CASE UNCHANGED vars
  <2>1. UNCHANGED <<value, rows, txn, requests, answers, operation, attempts, told>>
      BY <1>3 DEF vars, storeVars, appVars
  <2>2. MessagesAreTrue' /\ VisitorsKnow'
      BY <2>1 DEF StoreInv, MessagesAreTrue, VisitorsKnow, Recorded
  <2> QED
      BY <2>1, <2>2, VisitorLeavesStore
<1> QED
    BY <1>1, <1>2, <1>3 DEF Next

\* The inductive invariant, for any operations, visitors and faults.
THEOREM StoreInvariant == Spec => []StoreInv
BY StoreInitially, StoreSteps, PTL DEF Spec

\* The committed counter is the number of recorded operations.
THEOREM CounterCountsOnce == Spec => []CountsOperationsOnce
<1>1. StoreInv => CountsOperationsOnce
    BY DEF StoreInv, CommittedRows, CountsOperationsOnce
<1> QED
    BY <1>1, StoreInvariant, PTL

-----------------------------------------------------------------------------
(* The refinement *)

\* A step counts one operation, tells of one that was counted, or is not seen.
LEMMA StepIsPromised ==
    ASSUME StoreInv, [Next]_vars
    PROVE  [Promise!Next]_Promise!vars
<1> USE DEF Promise!vars
<1>1. CASE Commit /\ UNCHANGED appVars
  <2>1. /\ rows' = txn.rows /\ told' = told
        /\ txn # Idle /\ txn.step = "commit" /\ txn.request.op \in Ops
      BY <1>1 DEF Commit, appVars, StoreInv, TxnFollows, Idle
  <2>2. CASE Copies
      BY <2>1, <2>2 DEF Copies
  <2>3. CASE Fresh(txn.request.op)
             /\ txn.rows = rows \cup {Row(txn.request.op, value + 1)}
    <3>1. Cardinality(rows) = value
        BY <2>1, <2>3, OneMore DEF StoreInv
    <3>2. Promise!Count(txn.request.op)
      <4> DEFINE op == txn.request.op
      <4>1. \A r \in rows : r.op # op
          BY <2>3 DEF Fresh
      <4>2. Promise!Cardinality(rows) = Cardinality(rows)
          BY DEF Promise!Cardinality, Cardinality
      <4>3. Row(op, value + 1) = [op |-> op, value |-> Cardinality(rows) + 1]
          BY <3>1 DEF Row
      <4>4. rows' = rows \cup {[op |-> op, value |-> Cardinality(rows) + 1]}
          BY <2>1, <2>3, <4>3
      <4> QED
          BY <2>1, <4>1, <4>2, <4>4 DEF Promise!Count
    <3> QED
        BY <2>1, <3>2 DEF Promise!Next
  <2> QED
      BY <2>1, <2>2, <2>3 DEF StoreInv, TxnFollows
<1>2. CASE StoreNext /\ ~Commit /\ UNCHANGED appVars
    BY <1>2 DEF StoreNext, ReadCounter, ReadFails, Begin, LoseRequest, Reserve, Update, Record,
       Replay, Respond, StatementFails, Abandon, LoseAnswer, OnlyTxn, appVars
<1>3. ASSUME NEW c \in Visitors, IncrementSucceeds(c)
      PROVE  [Promise!Next]_Promise!vars
  <2>1. PICK r \in rows : told' = told \cup {r}
      BY <1>3, SuccessTells
  <2>2. rows' = rows
      BY <1>3 DEF IncrementSucceeds, ActionDone
  <2> QED
      BY <2>1, <2>2 DEF Promise!Next, Promise!Tell
<1>4. ASSUME NEW c \in Visitors, VisitorNext(c), ~IncrementSucceeds(c)
      PROVE  UNCHANGED <<rows, told>>
    BY <1>4 DEF VisitorNext, Load, LoadAnswered, LoadUnconfigured, LoadGivesUp,
       LoadDone, Click, Dispatch, IncrementFails, IncrementGivesUp,
       IncrementUnconfigured, ActionDone, StoreStays
<1>5. CASE UNCHANGED vars
    BY <1>5 DEF vars, storeVars, appVars
<1> QED
    BY <1>1, <1>2, <1>3, <1>4, <1>5 DEF Next

\* The store and the islands implement the counter that was promised: an operation
\* counts at most once, and whoever is told of it is told its own value.
THEOREM CounterIsPromised == Spec => KeepsPromise
<1>1. Init => Promise!Init
    BY DEF Init, StoreInit, Promise!Init
<1> QED
    BY <1>1, StepIsPromised, StoreInvariant, PTL DEF Spec, KeepsPromise, Promise!Spec

-----------------------------------------------------------------------------
(* What the islands show *)

\* The operations of requests, transactions and rows are ones that were made up.
OperationsAreUsed ==
    /\ \A r \in requests : r.kind = "increment" => r.op \in used
    /\ txn # Idle => txn.request.op \in used
    /\ \A r \in rows : r.op \in used
    /\ used \subseteq Ops

\* Without a store nothing is asked of it.
Unasked == ~configured => requests = {} /\ answers = {} /\ txn = Idle /\ rows = {}

\* An island has a count only after its load, and then nothing that may still
\* reach it is older: not the counter, not the result of the operation it has.
CountsAreOld ==
    /\ count \in [Visitors -> Nat]
    /\ load \in [Visitors -> {"no", "pending", "done"}]
    /\ action \in [Visitors -> {"idle", "pending"}]
    /\ configured => \A c \in Visitors : count[c] <= value
    /\ \A c \in Visitors :
           load[c] # "done" =>
               count[c] = 0 /\ action[c] # "pending" /\ operation[c] = NoOp
    /\ \A c \in Visitors : \A r \in rows :
           r.op = operation[c] => count[c] <= r.value
    /\ \A a \in answers :
           a.status = OK /\ a.request.kind # "increment" => a.value \in 0..value

ShownInv == OperationsAreUsed /\ Unasked /\ CountsAreOld

LEMMA ShownInitially == Init => ShownInv
BY DEF Init, StoreInit, ShownInv, OperationsAreUsed, Unasked, CountsAreOld

\* A commit records an operation that was made up, with a value of its own, or
\* nothing new; the transaction is still the same request's.
LEMMA CommitAdds ==
    ASSUME StoreInv, Commit
    PROVE  /\ txn # Idle /\ txn'.request = txn.request
           /\ \/ UNCHANGED <<value, rows>>
              \/ /\ value' = value + 1
                 /\ rows' = rows \cup {Row(txn.request.op, value + 1)}
<1>1. /\ txn # Idle /\ txn.step = "commit"
      /\ txn = Transaction(txn.step, txn.request, txn.value, txn.rows, txn.result)
    BY DEF Commit, StoreInv, TxnFollows, Idle
<1>2. txn'.request = txn.request
    BY <1>1 DEF Commit, Transaction
<1>3. \/ txn.value = value /\ txn.rows = rows
      \/ txn.value = value + 1 /\ txn.rows = rows \cup {Row(txn.request.op, value + 1)}
    BY <1>1 DEF StoreInv, TxnFollows, Copies
<1> QED
    BY <1>1, <1>2, <1>3 DEF Commit

\* The other statements leave the request of a transaction as it is, and what
\* they answer was recorded.
LEMMA StatementGoesOn ==
    ASSUME StoreInv, Reserve \/ Update \/ Record \/ Replay \/ Respond
    PROVE  /\ UNCHANGED <<value, rows, requests>> /\ txn # Idle
           /\ txn' = Idle \/ txn'.request = txn.request
           /\ \A a \in answers' \ answers : a.request.kind = "increment"
<1>1. txn # Idle
    BY DEF Reserve, Update, Record, Replay, Respond, Idle
<1>2. txn = Transaction(txn.step, txn.request, txn.value, txn.rows, txn.result)
      /\ txn.request.kind = "increment"
    BY <1>1 DEF StoreInv, TxnFollows
<1>3. UNCHANGED <<value, rows, requests>>
      /\ answers' \subseteq answers \cup {Answer(txn.request, BadRequest, Null),
                                          Answer(txn.request, OK, txn.result)}
    BY DEF Reserve, Update, Record, Replay, Respond, OnlyTxn
<1>4. CASE Reserve
    BY <1>1, <1>2, <1>3, <1>4 DEF Reserve, Transaction, OnlyTxn
<1>5. CASE Update \/ Record
    BY <1>1, <1>2, <1>3, <1>5 DEF Update, Record, Transaction, OnlyTxn
<1>6. CASE Replay \/ Respond
  <2>1. txn' = Idle \/ txn'.request = txn.request
      BY <1>2, <1>6 DEF Replay, Respond, Transaction
  <2> QED
      BY <1>1, <1>2, <1>3, <2>1 DEF Answer
<1> QED
    BY <1>4, <1>5, <1>6

LEMMA StoreKeepsShown ==
    ASSUME StoreInv, ShownInv, StoreNext, UNCHANGED appVars
    PROVE  ShownInv'
<1> USE DEF ShownInv, appVars
<1>1. CASE Commit
  <2>1. UNCHANGED <<requests, answers>>
      BY <1>1 DEF Commit
  <2>2. configured
      BY <1>1, CommitAdds DEF Unasked
  <2>3. OperationsAreUsed' /\ Unasked'
      BY <1>1, <2>1, <2>2, CommitAdds DEF OperationsAreUsed, Unasked, Row
  <2>4. value \in Nat /\ \A r \in rows : r.value \in Nat
      BY DEF StoreInv, CommittedRows
  <2>5. CASE UNCHANGED <<value, rows>>
      BY <2>1, <2>3, <2>5 DEF CountsAreOld
  <2>6. CASE value' = value + 1 /\ rows' = rows \cup {Row(txn.request.op, value + 1)}
    <3>1. \A c \in Visitors : count[c] \in Nat /\ count[c] <= value + 1
        BY <2>2, <2>4 DEF CountsAreOld
    <3>2. \A c \in Visitors : \A r \in rows' :
              r.op = operation[c] => count[c] <= r.value
        BY <2>6, <3>1 DEF CountsAreOld, Row
    <3>3. \A a \in answers :
              a.status = OK /\ a.request.kind # "increment" => a.value \in 0..value + 1
        BY <2>4 DEF CountsAreOld
    <3> QED
        BY <2>1, <2>3, <2>6, <3>1, <3>2, <3>3 DEF CountsAreOld
  <2> QED
      BY <1>1, <2>5, <2>6, CommitAdds
<1>2. CASE Reserve \/ Update \/ Record \/ Replay \/ Respond
  <2>1. configured
      BY <1>2, StatementGoesOn DEF Unasked
  <2> QED
      BY <1>2, <2>1, StatementGoesOn DEF OperationsAreUsed, Unasked, CountsAreOld
<1>3. ASSUME NEW request \in requests, ReadCounter(request)
      PROVE  ShownInv'
  <2>1. configured /\ value \in Nat
      BY <1>3 DEF Unasked, StoreInv, CommittedRows
  <2>2. /\ UNCHANGED <<value, rows, txn>> /\ requests' \subseteq requests
        /\ answers' = answers \cup {Answer(request, OK, value)}
      BY <1>3 DEF ReadCounter
  <2> QED
      BY <2>1, <2>2 DEF OperationsAreUsed, Unasked, CountsAreOld, Answer
<1>7. ASSUME NEW request \in requests, ReadFails(request)
      PROVE  ShownInv'
  <2>1. /\ UNCHANGED <<value, rows, txn>> /\ requests' \subseteq requests
        /\ answers' = answers \cup {Answer(request, Unavailable, Null)}
        /\ configured
      BY <1>7 DEF ReadFails, Unasked
  <2> QED
      BY <2>1 DEF OperationsAreUsed, Unasked, CountsAreOld, Answer, OK, Unavailable
<1>4. ASSUME NEW request \in requests, Begin(request)
      PROVE  ShownInv'
  <2>1. configured
      BY <1>4 DEF Unasked
  <2>2. /\ UNCHANGED <<value, rows, answers>> /\ requests' \subseteq requests
        /\ request.kind = "increment" /\ txn'.request = request
      BY <1>4 DEF Begin, Transaction
  <2> QED
      BY <2>1, <2>2 DEF OperationsAreUsed, Unasked, CountsAreOld
<1>5. CASE StatementFails \/ Abandon
  <2>1. /\ UNCHANGED <<value, rows, requests>> /\ txn' = Idle
        /\ answers' \subseteq answers \cup {Answer(txn.request, Unavailable, Null)}
      BY <1>5 DEF StatementFails, Abandon
  <2>2. txn # Idle
      BY <1>5 DEF StatementFails, Abandon, InTransaction, Idle, Steps
  <2> QED
      BY <2>1, <2>2 DEF OperationsAreUsed, Unasked, CountsAreOld, Answer, OK, Unavailable
<1>6. CASE \/ \E request \in requests : LoseRequest(request)
           \/ \E answer \in answers : LoseAnswer(answer)
  <2>1. /\ UNCHANGED <<value, rows, txn>>
        /\ requests' \subseteq requests /\ answers' \subseteq answers
      BY <1>6 DEF LoseRequest, LoseAnswer
  <2> QED
      BY <2>1 DEF OperationsAreUsed, Unasked, CountsAreOld
<1> QED
    BY <1>1, <1>2, <1>3, <1>4, <1>5, <1>6, <1>7 DEF StoreNext

\* What reaches an island is no older than the count it shows: a load is answered
\* before any increment, and an increment with a count of its own.
LEMMA ReadIsNoOlder ==
    ASSUME StoreInv, ShownInv, NEW c \in Visitors, load[c] # "done",
           NEW a \in AnswersTo(ReadOf(c)), Readable(a)
    PROVE  a.value \in 0..value /\ configured
<1>1. a \in answers /\ a.status = OK /\ a.request.kind # "increment"
    BY DEF AnswersTo, Readable, ReadOf
<1> QED
    BY <1>1 DEF ShownInv, CountsAreOld, Unasked

LEMMA ResultIsNoOlder ==
    ASSUME StoreInv, ShownInv, NEW c \in Visitors,
           NEW a \in AnswersTo(IncrementOf(c)), Readable(a)
    PROVE  a.value \in count[c]..value /\ configured
<1>1. /\ a \in answers /\ a.status = OK
      /\ a.request.kind = "increment" /\ a.request.op = operation[c]
    BY DEF AnswersTo, Readable, IncrementOf
<1>2. Row(operation[c], a.value) \in rows
    BY <1>1 DEF StoreInv, MessagesAreTrue, Recorded
<1>3. a.value \in 1..value /\ value \in Nat
    BY <1>2 DEF StoreInv, CommittedRows, Consistent, Row
<1>4. count[c] <= a.value /\ count[c] \in Nat
    BY <1>2 DEF ShownInv, CountsAreOld, Row
<1> QED
    BY <1>1, <1>3, <1>4 DEF ShownInv, Unasked

LEMMA LoadKeepsShown ==
    ASSUME StoreInv, ShownInv, NEW c \in Visitors,
           Load(c) \/ LoadAnswered(c) \/ LoadUnconfigured(c) \/ LoadGivesUp(c)
    PROVE  ShownInv' /\ \A d \in Visitors : count'[d] >= count[d]
<1>1. /\ value \in Nat /\ count \in [Visitors -> Nat]
      /\ load \in [Visitors -> {"no", "pending", "done"}]
      /\ load[c] # "done" /\ count[c] = 0
    BY DEF StoreInv, CommittedRows, ShownInv, CountsAreOld, Load, LoadAnswered,
       LoadUnconfigured, LoadGivesUp, LoadDone
<1>2. /\ UNCHANGED <<value, rows, txn, configured, operation, used, action>>
      /\ answers' \subseteq answers
      /\ requests' \subseteq IF configured THEN requests \cup {ReadOf(c)} ELSE requests
    BY DEF Load, LoadAnswered, LoadUnconfigured, LoadGivesUp, LoadDone, Ask, StoreStays
<1>3. OperationsAreUsed' /\ Unasked'
    BY <1>2 DEF ShownInv, OperationsAreUsed, Unasked, ReadOf
<1>4. CASE Load(c)
  <2>1. UNCHANGED count /\ load' = [load EXCEPT ![c] = "pending"]
      BY <1>4 DEF Load
  <2>2. \A d \in Visitors : load'[d] # "done" => load[d] # "done"
      BY <1>1, <2>1
  <2>3. load' \in [Visitors -> {"no", "pending", "done"}]
      BY <1>1, <2>1
  <2> QED
      BY <1>1, <1>2, <1>3, <2>1, <2>2, <2>3 DEF ShownInv, CountsAreOld
<1>5. CASE LoadAnswered(c) \/ LoadUnconfigured(c) \/ LoadGivesUp(c)
  <2>1. PICK shown : LoadDone(c, shown) /\ (shown = 0 \/ (shown \in 0..value /\ configured))
    <3>1. CASE LoadAnswered(c)
      <4>1. PICK a \in AnswersTo(ReadOf(c)) :
                LoadDone(c, IF Readable(a) THEN a.value ELSE count[c])
          BY <3>1 DEF LoadAnswered
      <4>2. CASE Readable(a)
          BY <1>1, <4>1, <4>2, ReadIsNoOlder
      <4>3. CASE ~Readable(a)
          BY <1>1, <4>1, <4>3
      <4> QED
          BY <4>2, <4>3
    <3>2. CASE LoadUnconfigured(c) \/ LoadGivesUp(c)
        BY <1>1, <3>2 DEF LoadUnconfigured, LoadGivesUp
    <3> QED
        BY <1>5, <3>1, <3>2
  <2>2. shown \in Nat /\ (configured => shown <= value)
      BY <1>1, <2>1
  <2>3. count' = [count EXCEPT ![c] = shown] /\ load' = [load EXCEPT ![c] = "done"]
        /\ load[c] = "pending"
      BY <2>1 DEF LoadDone
  <2>4. \A d \in Visitors : count'[d] >= count[d] /\ count'[d] \in Nat
      BY <1>1, <2>2, <2>3
  <2>5. \A d \in Visitors : load'[d] # "done" => d # c /\ load[d] # "done"
      BY <1>1, <2>3
  <2>6. /\ load' \in [Visitors -> {"no", "pending", "done"}]
        /\ count' \in [Visitors -> Nat]
      BY <1>1, <2>2, <2>3
  <2>7. \A d \in Visitors : count'[d] = count[d] \/ (d = c /\ count'[d] = shown)
      BY <1>1, <2>3
  <2>8. configured' => \A d \in Visitors : count'[d] <= value'
      BY <1>2, <2>2, <2>7 DEF ShownInv, CountsAreOld
  <2>9. \A d \in Visitors : load'[d] # "done" =>
            count'[d] = 0 /\ action'[d] # "pending" /\ operation'[d] = NoOp
      BY <1>2, <2>5, <2>7 DEF ShownInv, CountsAreOld
  <2>10. \A d \in Visitors : \A r \in rows :
             r.op = operation[d] => count'[d] <= r.value
    <3>1. operation[c] = NoOp /\ \A r \in rows : r.op # NoOp
        BY <1>1, NoOpAssumption DEF ShownInv, CountsAreOld, OperationsAreUsed
    <3> QED
        BY <2>7, <3>1 DEF ShownInv, CountsAreOld
  <2> QED
      BY <1>2, <1>3, <2>4, <2>6, <2>8, <2>9, <2>10 DEF ShownInv, CountsAreOld
<1> QED
    BY <1>4, <1>5

\* The id of a click is new, or the island's; the count it shows stays.
LEMMA DispatchKeepsShown ==
    ASSUME StoreInv, ShownInv, NEW c \in Visitors, NEW op \in Ops, NEW n,
           op \notin used \/ op = operation[c],
           load[c] = "done", Dispatch(c, op, n)
    PROVE  ShownInv'
<1>1. /\ UNCHANGED <<value, rows, txn, answers, configured, load, count>>
      /\ used' = used \cup {op}
      /\ operation \in [Visitors -> Ops \cup {NoOp}] /\ attempts' = [attempts EXCEPT ![c] = n]
      /\ operation' = [operation EXCEPT ![c] = op]
      /\ action' = [action EXCEPT ![c] = "pending"]
    BY DEF Dispatch, StoreStays, Ask, StoreInv, VisitorsKnow
<1>2. requests' \subseteq requests \cup {IncrementOf(c)'}
      /\ (~configured => requests' = requests)
      /\ IncrementOf(c)'.op = op
    BY <1>1 DEF Dispatch, Ask, IncrementOf
<1>3. OperationsAreUsed' /\ Unasked'
    BY <1>1, <1>2 DEF ShownInv, OperationsAreUsed, Unasked
<1>4. \A d \in Visitors : \A r \in rows : r.op = operation'[d] => count[d] <= r.value
    BY <1>1 DEF ShownInv, CountsAreOld, OperationsAreUsed
<1> QED
    BY <1>1, <1>3, <1>4 DEF ShownInv, CountsAreOld

LEMMA ClickKeepsShown ==
    ASSUME StoreInv, ShownInv, NEW c \in Visitors, Click(c)
    PROVE  ShownInv' /\ UNCHANGED count
<1>1. load[c] = "done"
    BY DEF Click, Pending, ShownInv, CountsAreOld
<1>2. CASE \E op \in Ops \ used : Dispatch(c, op, 1)
  <2>1. PICK op \in Ops \ used : Dispatch(c, op, 1)
      BY <1>2
  <2>2. UNCHANGED count
      BY <2>1 DEF Dispatch
  <2> QED
      BY <1>1, <2>1, <2>2, DispatchKeepsShown
<1>3. CASE operation[c] # NoOp /\ Dispatch(c, operation[c], attempts[c] + 1)
  <2>1. PICK op \in Ops : op = operation[c]
      BY <1>3 DEF StoreInv, VisitorsKnow
  <2>2. PICK n : n = attempts[c] + 1
      OBVIOUS
  <2>3. Dispatch(c, op, n) /\ UNCHANGED count
      BY <1>3, <2>1, <2>2 DEF Dispatch
  <2> QED
      BY <1>1, <2>1, <2>3, DispatchKeepsShown
<1> QED
    BY <1>2, <1>3 DEF Click

\* The outcome of an increment shows its result, one more without a store, or
\* what was shown before.
LEMMA OutcomeShows ==
    ASSUME StoreInv, ShownInv, NEW c \in Visitors,
           \/ IncrementSucceeds(c) \/ IncrementFails(c)
           \/ IncrementGivesUp(c) \/ IncrementUnconfigured(c)
    PROVE  \E shown \in Nat : \E op \in {NoOp, operation[c]} :
               /\ ActionDone(c, shown, op)
               /\ shown >= count[c]
               /\ configured => shown <= value
               /\ op = NoOp \/ shown = count[c]
<1>1. /\ value \in Nat /\ count[c] \in Nat
      /\ configured => count[c] <= value
    BY DEF StoreInv, CommittedRows, ShownInv, CountsAreOld
<1>2. CASE IncrementSucceeds(c)
  <2>1. PICK a \in AnswersTo(IncrementOf(c)) : Readable(a) /\ ActionDone(c, a.value, NoOp)
      BY <1>2 DEF IncrementSucceeds
  <2>2. a.value \in count[c]..value
      BY <2>1, ResultIsNoOlder
  <2> QED
      BY <1>1, <2>1, <2>2
<1>3. CASE ActionDone(c, count[c], operation[c])
    BY <1>1, <1>3
<1>4. CASE ~configured /\ ActionDone(c, count[c] + 1, NoOp)
    BY <1>1, <1>4
<1> QED
    BY <1>2, <1>3, <1>4 DEF IncrementFails, IncrementGivesUp, IncrementUnconfigured

LEMMA OutcomeKeepsShown ==
    ASSUME StoreInv, ShownInv, NEW c \in Visitors,
           \/ IncrementSucceeds(c) \/ IncrementFails(c)
           \/ IncrementGivesUp(c) \/ IncrementUnconfigured(c)
    PROVE  ShownInv' /\ \A d \in Visitors : count'[d] >= count[d]
<1>1. PICK shown \in Nat : \E op \in {NoOp, operation[c]} :
               /\ ActionDone(c, shown, op)
               /\ shown >= count[c]
               /\ configured => shown <= value
               /\ op = NoOp \/ shown = count[c]
    BY OutcomeShows
<1>2. PICK op \in {NoOp, operation[c]} :
               ActionDone(c, shown, op) /\ (op = NoOp \/ shown = count[c])
    BY <1>1
<1>3. /\ UNCHANGED <<value, rows, txn, requests, configured, load, used>>
      /\ answers' \subseteq answers
      /\ action' = [action EXCEPT ![c] = "idle"]
      /\ count' = [count EXCEPT ![c] = shown]
      /\ operation' = [operation EXCEPT ![c] = op]
      /\ action[c] = "pending"
      /\ operation \in [Visitors -> Ops \cup {NoOp}]
    BY <1>2 DEF IncrementSucceeds, IncrementFails, IncrementGivesUp,
           IncrementUnconfigured, ActionDone, StoreInv, VisitorsKnow
<1>4. count \in [Visitors -> Nat] /\ load[c] = "done"
    BY <1>3 DEF ShownInv, CountsAreOld
<1>5. OperationsAreUsed' /\ Unasked'
    BY <1>3 DEF ShownInv, OperationsAreUsed, Unasked
<1>6. \A d \in Visitors : count'[d] >= count[d] /\ count'[d] \in Nat
    BY <1>1, <1>3, <1>4
<1>7. \A r \in rows : r.op # NoOp
    BY NoOpAssumption DEF ShownInv, OperationsAreUsed
<1>8. \A d \in Visitors : \A r \in rows : r.op = operation'[d] => count'[d] <= r.value
    BY <1>2, <1>3, <1>4, <1>7 DEF ShownInv, CountsAreOld
<1>9. configured' => \A d \in Visitors : count'[d] <= value'
    BY <1>1, <1>3, <1>4 DEF ShownInv, CountsAreOld
<1> QED
    BY <1>3, <1>4, <1>5, <1>6, <1>8, <1>9 DEF ShownInv, CountsAreOld

LEMMA ShownSteps ==
    ASSUME StoreInv, ShownInv, [Next]_vars
    PROVE  /\ ShownInv'
           /\ UNCHANGED count \/ \A c \in Visitors : count'[c] >= count[c]
<1>1. CASE StoreNext /\ UNCHANGED appVars
    BY <1>1, StoreKeepsShown DEF appVars
<1>2. CASE \E c \in Visitors : VisitorNext(c)
    BY <1>2, LoadKeepsShown, ClickKeepsShown, OutcomeKeepsShown DEF VisitorNext
<1>3. CASE UNCHANGED vars
    BY <1>3 DEF vars, storeVars, appVars, ShownInv, OperationsAreUsed, Unasked, CountsAreOld
<1> QED
    BY <1>1, <1>2, <1>3 DEF Next

\* The inductive invariant: nothing that can still reach an island is older than
\* what it shows.
THEOREM ShownInvariant == Spec => []ShownInv
<1>1. StoreInv /\ ShownInv /\ [Next]_vars => ShownInv'
    BY ShownSteps
<1> QED
    BY <1>1, ShownInitially, StoreInvariant, PTL DEF Spec

\* The count an island shows never falls back, for any visitors, faults and
\* retries.
THEOREM ShownStays == Spec => ShownNeverFallsBack
<1>1. StoreInv /\ ShownInv /\ [Next]_vars => [\A c \in Visitors : count'[c] >= count[c]]_count
    BY ShownSteps
<1> QED
    BY <1>1, StoreInvariant, ShownInvariant, PTL DEF Spec, ShownNeverFallsBack
=============================================================================
