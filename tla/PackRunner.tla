----------------------------- MODULE PackRunner -----------------------------
(***************************************************************************)
(* One pack run driven from the command line (agent/pipeline.py, graph.py, *)
(* pipeline_executor.py, __main__.py): its graph, its manifest file, the   *)
(* lock of the profile, and the invocations that run, resume, re-enter and *)
(* decide it. An invocation keeps its own copy of the manifest; the file   *)
(* is rewritten whole and not atomically. Invocations overlap freely: a    *)
(* re-entry and a decision read the file before they ask for the lock, so  *)
(* what they write may be older than what they write over.                 *)
(***************************************************************************)
EXTENDS FiniteSets, Naturals

CONSTANTS
    Nodes,
    DependsOn,     \* [Nodes -> SUBSET Nodes]
    Gates,         \* nodes that pause for the operator after their turn
    Effects,       \* nodes with an external_effect: the brain never runs them
    Invocations,
    None, Torn

\* The loader refuses a cycle: every set of nodes has one with no dependency in it.
Acyclic == \A S \in SUBSET Nodes : S # {} => \E n \in S : DependsOn[n] \cap S = {}

ASSUME GraphIsADag ==
    /\ IsFiniteSet(Nodes) /\ Nodes # {}
    /\ DependsOn \in [Nodes -> SUBSET Nodes]
    /\ Acyclic

\* A gate's draft is for its effect nodes; an effect node hangs on its gate alone.
ASSUME NodeKinds ==
    /\ Gates \subseteq Nodes /\ Effects \subseteq Nodes /\ Gates \cap Effects = {}
    /\ \A e \in Effects : \E g \in Gates : DependsOn[e] = {g}

ASSUME OthersAreNone ==
    /\ None \notin Invocations
    /\ {None, Torn} \cap [Nodes -> {"pending", "running", "ok", "skipped", "failed", "awaiting"}] = {}

Statuses  == {"pending", "running", "ok", "skipped", "failed", "awaiting"}
Complete  == {"ok", "skipped"}
Manifests == [Nodes -> Statuses]
Fresh     == [n \in Nodes |-> "pending"]

VARIABLES
    file,      \* runs/<run_id>.json: None, Torn or a manifest
    lock,      \* content/<profile>/.lock
    inv,       \* the invocations: [kind, pc, mem, gated, batch, said]; said is "ok" when
               \* the last one reported a complete run
    behind,    \* nodes of the brain that ran before the last turn of a node they depend on
    blessed,   \* gates whose latest draft an operator approved
    stale,     \* invocations whose copy is older than the file (history)
    lost       \* such a copy was written: what the file held is lost (history)

vars == <<file, lock, inv, behind, blessed, stale, lost>>

Idle(said) ==
    [kind |-> "none", pc |-> "idle", mem |-> Fresh, gated |-> None, batch |-> {}, said |-> said]

Begun(kind, pc, m, g) ==
    [kind |-> kind, pc |-> pc, mem |-> m, gated |-> g, batch |-> {}, said |-> "nothing"]

Init ==
    /\ file = None
    /\ lock = None
    /\ inv = [p \in Invocations |-> Idle("nothing")]
    /\ behind = {}
    /\ blessed = {}
    /\ stale = {}
    /\ lost = FALSE

Readable == file \in Manifests
Goto(p, pc)    == inv' = [inv EXCEPT ![p].pc = pc]
End(p, said)   == inv' = [inv EXCEPT ![p] = Idle(said)]

\* p works from a copy of the manifest: a run that is resumed takes it under the lock.
HasCopy(p) == inv[p].pc # "idle" /\ (inv[p].pc = "lock" => inv[p].kind # "resume")

\* p writes the file: copies taken outside the lock are older than it from now on, and
\* every other copy when p does not hold the lock.
Outdated(p) ==
    {q \in Invocations \ {p} : HasCopy(q) /\ (inv[q].kind = "resume" => lock # p)}

Writes(p) ==
    /\ stale' = stale \cup Outdated(p)
    /\ lost' = (lost \/ p \in stale)

(***************************************************************************)
(* The graph.                                                              *)
(***************************************************************************)
Children(S) == {n \in Nodes : DependsOn[n] \cap S # {}}

\* node_id and everything downstream of it: the least set closed under Children.
Downstream ==
    [n \in Nodes |->
        CHOOSE D \in SUBSET Nodes :
            /\ n \in D /\ Children(D) \subseteq D
            /\ \A E \in SUBSET Nodes : n \in E /\ Children(E) \subseteq E => D \subseteq E]

Frontier(m) ==
    {n \in Nodes : m[n] \notin Complete /\ \A d \in DependsOn[n] : m[d] \in Complete}

\* Fault: only a failure is looked for.
TerminalStatusFailures(m) == IF \E n \in Nodes : m[n] = "failed" THEN "failed" ELSE "ok"

TerminalStatus(m) ==
    IF \E n \in Nodes : m[n] = "failed" THEN "failed"
    ELSE IF \E n \in Nodes : m[n] = "awaiting" THEN "awaiting"
    ELSE "ok"

(***************************************************************************)
(* The start of an invocation. A run that is resumed is read under the     *)
(* lock; one that is re-entered or decided is read before it is asked for. *)
(***************************************************************************)
StartRun(p) ==
    /\ inv[p].pc = "idle"
    /\ inv' = [inv EXCEPT ![p] = Begun("resume", "lock", Fresh, None)]
    /\ UNCHANGED <<file, lock, behind, blessed, stale, lost>>

\* Fault: the node alone is reset, not what consumed its output.
ResetNode(m, n) == [m EXCEPT ![n] = "pending"]

\* --from-node: the node and all its descendants are made re-runnable in the copy.
ResetFromNode(m, n) == [x \in Nodes |-> IF x \in Downstream[n] THEN "pending" ELSE m[x]]

StartFromNode(p, n) ==
    /\ inv[p].pc = "idle"
    /\ Readable
    /\ inv' = [inv EXCEPT ![p] = Begun("from", "lock", ResetFromNode(file, n), None)]
    /\ UNCHANGED <<file, lock, behind, blessed, stale, lost>>

\* --pack-gate: refused when no node waits.
StartDecision(p, g) ==
    /\ inv[p].pc = "idle"
    /\ Readable
    /\ file[g] = "awaiting"
    /\ inv' = [inv EXCEPT ![p] = Begun("gate", "decide", file, g)]
    /\ UNCHANGED <<file, lock, behind, blessed, stale, lost>>

\* The draft is discarded and the run left as it is.
Reject(p) ==
    /\ inv[p].pc = "decide"
    /\ End(p, "nothing")
    /\ stale' = stale \ {p}
    /\ UNCHANGED <<file, lock, behind, blessed, lost>>

\* The draft is promoted, or is no longer usable.
Approve(p) ==
    /\ inv[p].pc = "decide"
    /\ \/ /\ blessed' = blessed \cup ({inv[p].gated} \cap Gates)
          /\ Goto(p, "dispatch")
          /\ UNCHANGED stale
       \/ /\ End(p, "nothing")
          /\ stale' = stale \ {p}
          /\ UNCHANGED blessed
    /\ UNCHANGED <<file, lock, behind, lost>>

\* The effect nodes behind the gate run now, outside the runner; one that fails ends
\* the invocation with nothing written.
DispatchSuccessors(p) ==
    LET done == {inv[p].gated} \cup (Effects \cap Children({inv[p].gated})) IN
    /\ inv[p].pc = "dispatch"
    /\ \/ /\ inv' = [inv EXCEPT ![p].pc = "flip",
                      ![p].mem = [n \in Nodes |-> IF n \in done THEN "ok" ELSE inv[p].mem[n]]]
          /\ UNCHANGED stale
       \/ /\ done # {inv[p].gated}
          /\ End(p, "nothing")
          /\ stale' = stale \ {p}
    /\ UNCHANGED <<file, lock, behind, blessed, lost>>

\* The approved copy is written without the lock, then run.
WriteDecision(p) ==
    /\ inv[p].pc = "flip"
    /\ file' = inv[p].mem
    /\ Writes(p)
    /\ Goto(p, "lock")
    /\ UNCHANGED <<lock, behind, blessed>>

(***************************************************************************)
(* PipelineRunner.run.                                                     *)
(***************************************************************************)
\* Faults: the file is trusted unread; the lock is taken without waiting.
LoadAnything == file

AcquireAtOnce(p) ==
    /\ inv[p].pc = "lock"
    /\ lock' = p
    /\ inv' = [inv EXCEPT ![p].pc = "loop",
                          ![p].mem = IF inv[p].kind = "resume" /\ Readable THEN file ELSE @]
    /\ UNCHANGED <<file, behind, blessed, stale, lost>>

LoadOrCreate == IF Readable THEN file ELSE Fresh

Acquire(p) ==
    /\ inv[p].pc = "lock"
    /\ lock = None
    /\ lock' = p
    /\ inv' = [inv EXCEPT ![p].pc = "loop",
                          ![p].mem = IF inv[p].kind = "resume" THEN LoadOrCreate ELSE inv[p].mem]
    /\ UNCHANGED <<file, behind, blessed, stale, lost>>

Return(p) ==
    /\ End(p, IF TerminalStatus(inv[p].mem) = "ok" THEN "ok" ELSE "nothing")
    /\ lock' = None
    /\ stale' = stale \ {p}

NothingToRun(p) ==
    /\ inv[p].pc = "loop"
    /\ Frontier(inv[p].mem) = {}
    /\ Return(p)
    /\ UNCHANGED <<file, behind, blessed, lost>>

\* The cost cap is reached: one node of the batch is failed, then the run returns.
OverBudget(p, n) ==
    /\ inv[p].pc = "loop"
    /\ n \in Frontier(inv[p].mem)
    /\ file' = [inv[p].mem EXCEPT ![n] = "failed"]
    /\ End(p, "nothing")
    /\ lock' = None
    /\ stale' = (stale \cup Outdated(p)) \ {p}
    /\ lost' = (lost \/ p \in stale)
    /\ UNCHANGED <<behind, blessed>>

\* The whole batch is marked and written before any of its turns begins. A turn may
\* change the node's output as soon as it begins.
StartBatch(p) ==
    LET batch  == Frontier(inv[p].mem)
        marked == [n \in Nodes |-> IF n \in batch THEN "running" ELSE inv[p].mem[n]] IN
    /\ inv[p].pc = "loop"
    /\ batch # {}
    /\ file' = marked
    /\ inv' = [inv EXCEPT ![p].pc = "batch", ![p].batch = batch, ![p].mem = marked]
    /\ behind' = (behind \ batch) \cup (Children(batch) \ Effects)
    /\ blessed' = blessed \ batch
    /\ Writes(p)
    /\ UNCHANGED lock

\* Fault: the pause is left to the sentinel in the brain's answer.
OutcomesByMarker(n) ==
    IF n \in Effects THEN {"skipped"}
    ELSE {"failed", "ok", "awaiting"}

\* execute_stage: an effect node is skipped; any other turn may fail or, with the gate's
\* sentinel in its answer, pause; only a node that is no gate goes on without a pause.
Outcomes(n) ==
    IF n \in Effects THEN {"skipped"}
    ELSE {"failed", "awaiting"} \cup (IF n \in Gates THEN {} ELSE {"ok"})

\* One turn of the batch ends: its outcome and all that the copy holds are written.
EndTurn(p, n) ==
    /\ inv[p].pc = "batch"
    /\ n \in inv[p].batch
    /\ inv[p].mem[n] = "running"
    /\ \E outcome \in Outcomes(n) :
           LET m == [inv[p].mem EXCEPT ![n] = outcome] IN
           /\ file' = m
           /\ inv' = [inv EXCEPT ![p].mem = m]
    /\ Writes(p)
    /\ UNCHANGED <<lock, behind, blessed>>

\* Fault: only a gate stops the run, a failed node is tried again at once.
EndBatchRetry(p) ==
    /\ inv[p].pc = "batch"
    /\ \A n \in inv[p].batch : inv[p].mem[n] # "running"
    /\ IF \E n \in inv[p].batch : inv[p].mem[n] = "awaiting"
       THEN Return(p)
       ELSE /\ inv' = [inv EXCEPT ![p].pc = "loop", ![p].batch = {}]
            /\ UNCHANGED <<lock, stale>>
    /\ UNCHANGED <<file, behind, blessed, lost>>

\* gather returns when no turn of the batch is left; a failure or a gate ends the run.
EndBatch(p) ==
    /\ inv[p].pc = "batch"
    /\ \A n \in inv[p].batch : inv[p].mem[n] # "running"
    /\ IF \E n \in inv[p].batch : inv[p].mem[n] \in {"failed", "awaiting"}
       THEN Return(p)
       ELSE /\ inv' = [inv EXCEPT ![p].pc = "loop", ![p].batch = {}]
            /\ UNCHANGED <<lock, stale>>
    /\ UNCHANGED <<file, behind, blessed, lost>>

\* The process dies; the kernel gives its lock back. Inside a write it leaves the file torn.
Crash(p) ==
    /\ inv[p].pc # "idle"
    /\ \/ UNCHANGED file /\ stale' = stale \ {p}
       \/ /\ inv[p].pc \in {"flip", "loop", "batch"}
          /\ file' = Torn
          /\ stale' = (stale \cup Outdated(p)) \ {p}
    /\ End(p, "nothing")
    /\ lock' = IF lock = p THEN None ELSE lock
    /\ UNCHANGED <<behind, blessed, lost>>

Step(p) ==
    \/ Approve(p) \/ DispatchSuccessors(p) \/ WriteDecision(p)
    \/ Acquire(p) \/ NothingToRun(p) \/ StartBatch(p) \/ EndBatch(p)
    \/ \E n \in Nodes : OverBudget(p, n) \/ EndTurn(p, n)

Next ==
    \E p \in Invocations :
        \/ StartRun(p) \/ Reject(p) \/ Step(p) \/ Crash(p)
        \/ \E n \in Nodes : StartFromNode(p, n) \/ StartDecision(p, n)

Spec == Init /\ [][Next]_vars

\* An invocation that holds the lock goes on: a turn ends, for the client of the brain
\* bounds it, and no step of the runner waits for another process.
FairSpec == Spec /\ \A p \in Invocations : WF_vars(lock = p /\ Step(p))

-----------------------------------------------------------------------------
(***************************************************************************)
(* Properties.                                                             *)
(***************************************************************************)
\* The file, the lock and the copies have the shape the code gives them.
TypeOK ==
    /\ file \in Manifests \cup {None, Torn}
    /\ lock \in Invocations \cup {None}
    /\ inv \in [Invocations -> [
            kind : {"none", "resume", "from", "gate"},
            pc : {"idle", "decide", "dispatch", "flip", "lock", "loop", "batch"},
            mem : Manifests, gated : Nodes \cup {None}, batch : SUBSET Nodes,
            said : {"nothing", "ok"}]]
    /\ behind \subseteq Nodes
    /\ blessed \subseteq Gates
    /\ stale \subseteq Invocations
    /\ lost \in BOOLEAN

\* A node that the file calls complete ran after the last turn of every node it
\* depends on, through re-entries, failures and deaths in the middle of a batch
\* (pipeline.py:153-156, the "silent half-update" reset_from_node exists to prevent),
\* as long as no copy older than the file was written over it (__main__.py:494-547).
NoHalfUpdate ==
    Readable /\ ~lost =>
        \A n \in Nodes \ Effects :
            file[n] \in Complete =>
                n \notin behind /\ \A d \in DependsOn[n] : file[d] \in Complete

\* A gate that the file calls complete was approved after its last turn: nothing
\* downstream of it works from a draft that nobody approved, as long as no copy older
\* than the file was written over it.
GatesWereApproved ==
    Readable /\ ~lost => \A g \in Gates : file[g] \in Complete => g \in blessed

\* An invocation whose copy is not older than the file reports ok only when every node of
\* the graph is complete in it: no empty frontier is reached with work left
\* (pipeline.py:199-214).
OkMeansComplete ==
    [][\A p \in Invocations :
           lock = p /\ lock' # p /\ p \notin stale /\ inv'[p].said = "ok"
               => Readable /\ \A n \in Nodes : file[n] \in Complete]_vars

\* What the file calls complete stays so, whoever resumes the run beside whom and
\* wherever one of them dies, until an operator re-enters it (a torn file aside) or a
\* copy older than the file is written over it.
ResumeKeepsWork ==
    [][Readable /\ file' \in Manifests /\ ~lost' =>
           \A n \in Nodes :
               file[n] \in Complete /\ file'[n] \notin Complete =>
                   \E p \in Invocations : lock = p /\ inv[p].kind = "from"]_vars

\* Whoever holds the lock of the profile gives it back: the batches of a run end.
RunnerReturns ==
    \A p \in Invocations : lock = p ~> lock # p

=============================================================================
