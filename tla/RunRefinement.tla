---------------------------- MODULE RunRefinement ----------------------------
(***************************************************************************)
(* RunLifecycle implements GatedRun: rows, processes, tasks, gate rows and *)
(* manifests do what GatedRun promises, through crashes and restarts.      *)
(***************************************************************************)
EXTENDS RunLifecycle

status == [r \in Runs |-> row[r].status]
asked  == [q \in Reqs |-> [run |-> req[q].run, kind |-> req[q].kind]]
acted  == {[run |-> e.run, gate |-> e.gate, by |-> e.by] : e \in sent}

Promise == INSTANCE GatedRun WITH status <- status, asked <- asked, acted <- acted

\* Every step of the backend is one the promise allows, or changes nothing the operator
\* can see: no crash, resume, lease, leftover decision or lost race makes a run act
\* without consent, end well with a gate it skipped, or end for an operator who did not ask.
KeepsThePromise == Promise!Spec
=============================================================================
