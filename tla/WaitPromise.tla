---------------------------- MODULE WaitPromise ----------------------------
(***************************************************************************)
(* What a WaitPoll promises the guest, without registrations, ids, wakers  *)
(* or queues: it resolves once its pollable is ready and never before, it  *)
(* is refused only at its first poll, and it never reports a cancellation  *)
(* to the one who still holds it.                                          *)
(***************************************************************************)
CONSTANT Waits

VARIABLES
    phase,   \* how far the holder of a wait has got
    ready    \* the waits whose host pollable is ready

promiseVars == <<phase, ready>>

Phases == {"absent", "new", "waiting", "resolved", "refused", "gone"}

Init ==
    /\ phase = [w \in Waits |-> "absent"]
    /\ ready = {}

Goes(w, from, to) ==
    /\ phase[w] = from
    /\ phase' = [phase EXCEPT ![w] = to]
    /\ UNCHANGED ready

Make(w) == Goes(w, "absent", "new")
Await(w) == Goes(w, "new", "waiting")
Refuse(w) == Goes(w, "new", "refused")
Resolve(w) == w \in ready /\ Goes(w, "waiting", "resolved")

LetGo(D) ==
    /\ \A w \in D : phase[w] \notin {"absent", "gone"}
    /\ phase' = [w \in Waits |-> IF w \in D THEN "gone" ELSE phase[w]]
    /\ UNCHANGED ready

Happen(w) ==
    /\ phase[w] \in {"new", "waiting", "resolved"}
    /\ ready' = ready \cup {w}
    /\ UNCHANGED phase

Next ==
    \/ \E w \in Waits : \/ Make(w) \/ Await(w) \/ Refuse(w)
                        \/ Resolve(w) \/ Happen(w)
    \/ \E D \in SUBSET Waits : LetGo(D)

Spec == Init /\ [][Next]_promiseVars
=============================================================================
