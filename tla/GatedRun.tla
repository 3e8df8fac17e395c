------------------------------ MODULE GatedRun ------------------------------
(***************************************************************************)
(* What the backend promises of a gated run, without processes, leases,    *)
(* tasks, rows or manifests: a run acts only for an operator who approved  *)
(* it, ends well only when it has acted at every gate, ends "rejected" or  *)
(* "canceled" only for an operator who asked for it, and then stays ended. *)
(***************************************************************************)
EXTENDS Naturals

CONSTANTS
    Runs,
    PackRuns,   \* runs whose gates are fixed in advance
    Reqs,       \* operator requests
    NGates,
    None

VARIABLES
    status,     \* [Runs -> the status an operator reads]
    asked,      \* [Reqs -> what was asked of which run]
    acted       \* the gates that were acted on: [run, gate, by]

vars == <<status, asked, acted>>

Terminal == {"ok", "failed", "rejected", "canceled"}
Consents == {"approve", "edit"}

Init ==
    /\ status = [r \in Runs |-> "queued"]
    /\ asked = [q \in Reqs |-> [run |-> None, kind |-> "none"]]
    /\ acted = {}

Asked(q, r, kinds) == asked[q].run = r /\ asked[q].kind \in kinds

\* The run works, or waits for its operator.
Move(r) ==
    /\ status[r] \notin Terminal
    /\ \E s \in {"running", "awaiting_approval"} : status' = [status EXCEPT ![r] = s]
    /\ UNCHANGED <<asked, acted>>

\* A decision is asked of a run that waits, a cancel of a run that has not ended.
Ask(q, r, kind) ==
    /\ asked[q].kind = "none"
    /\ IF kind = "cancel" THEN status[r] \notin Terminal ELSE status[r] = "awaiting_approval"
    /\ asked' = [asked EXCEPT ![q] = [run |-> r, kind |-> kind]]
    /\ UNCHANGED <<status, acted>>

Act(r, g, q) ==
    /\ Asked(q, r, Consents)
    /\ acted' = acted \cup {[run |-> r, gate |-> g, by |-> q]}
    /\ UNCHANGED <<status, asked>>

EveryGateActed(r) == \A g \in 1..NGates : \E e \in acted : e.run = r /\ e.gate = g

End(r, s) ==
    /\ status[r] \notin Terminal
    /\ s = "ok" /\ r \in PackRuns => EveryGateActed(r)
    /\ s = "rejected" => \E q \in Reqs : Asked(q, r, {"reject"})
    /\ s = "canceled" => \E q \in Reqs : Asked(q, r, {"cancel"})
    /\ status' = [status EXCEPT ![r] = s]
    /\ UNCHANGED <<asked, acted>>

Next ==
    \E r \in Runs :
        \/ Move(r)
        \/ \E q \in Reqs, kind \in {"approve", "edit", "reject", "cancel"} : Ask(q, r, kind)
        \/ \E g \in 1..NGates, q \in Reqs : Act(r, g, q)
        \/ \E s \in Terminal : End(r, s)

Spec == Init /\ [][Next]_vars
=============================================================================
