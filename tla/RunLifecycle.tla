---------------------------- MODULE RunLifecycle ----------------------------
(***************************************************************************)
(* The durable life of a run: the Postgres rows (runs, run_gates), the     *)
(* pack manifest on disk, the memory of every backend process, the         *)
(* asyncio tasks that execute runs, and the HTTP requests of operators.    *)
(*                                                                         *)
(* A step of a task is one database statement together with the            *)
(* synchronous code around it, up to the next await: every other           *)
(* coroutine, process and request may run between two steps.               *)
(***************************************************************************)
EXTENDS Naturals, FiniteSets

CONSTANTS
    Runs,         \* rows of the runs table, all enqueued at the start
    PackRuns,     \* those of mode "pack"; the others are prompt runs
    Procs,        \* process incarnations: WORKER_ID is minted at every boot
    Tasks,        \* bound: executor tasks that exist at one time
    Reqs,         \* bound: operator requests (decide or cancel), each made once
    Drafts,       \* the bytes a gated node can write
    None,         \* SQL NULL, Python None
    NGates,       \* gated nodes of a pack, sentinels of a prompt run
    MaxAttempts,  \* MAX_ATTEMPTS
    MaxUp,        \* processes alive at one time: replicas, or a rolling deploy
    Stalls,       \* TRUE: the lease of a live process may expire
    Failing       \* best-effort writes that may fail: 0 for the ownership of a resumed
                  \* run, g for the opening of its gate g

ASSUME ParamsAssumption ==
    /\ PackRuns \subseteq Runs
    /\ NGates \in Nat
    /\ MaxAttempts \in Nat
    /\ MaxUp \in Nat
    /\ Stalls \in BOOLEAN
    /\ Failing \subseteq Nat
    /\ None \notin Runs \cup Procs \cup Reqs \cup Drafts \cup Nat

VARIABLES
    row,       \* runs: status, claimed_by, the age of heartbeat_at, attempts, pending_content
    gate,      \* run_gates, one row per (run, gated node)
    manifest,  \* the manifest file: how many gated nodes are complete
    life,      \* off, live or down
    mem,       \* the module globals of each process
    task,      \* the coroutines that execute runs
    req,       \* the operator requests
    sent,      \* history: the approved bytes that Gate 2 acted on
    starts,    \* history: how many times an executor started a run afresh
    lapses     \* history: the best-effort writes that failed and were passed over

histVars == <<sent, starts, lapses>>
vars == <<row, gate, manifest, life, mem, task, req, sent, starts, lapses>>

-----------------------------------------------------------------------------
Gates    == 1..NGates
Terminal == {"ok", "failed", "rejected", "canceled"}
Parked   == {"running", "awaiting_approval"}
Statuses == {"queued"} \cup Parked \cup Terminal

Decisions == {"approve", "edit", "reject"}
\* Fault: the word of the request is written as the state of the gate row.
DecisionStateRaw(kind) == kind

DecisionState(kind) == CASE kind = "approve" -> "approved"
                         [] kind = "edit"    -> "edited"
                         [] OTHER            -> "rejected"

\* What claim_next_run returns, held by the claim loop until it is dispatched.
Claims == [run: Runs, first: BOOLEAN, attempts: Nat]

Row     == [status: Statuses, owner: Procs \cup {None}, lease: {"none", "fresh", "stale"},
            attempts: Nat, pending: Drafts \cup Reqs \cup {None}]
GateRow == [state: {"none", "open", "approved", "edited", "rejected"},
            sha: Drafts \cup {None}, applied: BOOLEAN, by: Reqs \cup {None}]
Memory  == [recon: SUBSET Runs,                 \* rows reconcile_gates still has to act on
            hand: Claims \cup {None},           \* the row claim_loop is dispatching
            waiting: SUBSET Runs,               \* _gate_events
            decided: [Runs -> Reqs \cup {None}],\* _gate_decisions
            cancelled: SUBSET Runs,             \* _cancelled_runs
            held: SUBSET Runs]                  \* _workspace_runs
TaskPCs == {"idle", "begin", "admit", "exec", "claim", "register", "park", "open",
            "poll", "local", "slot", "decided", "rewrite", "dispatch", "flip", "resume", "finish"}
Task    == [pc: TaskPCs, run: Runs \cup {None}, at: Procs \cup {None},
            done: Nat \cup {None},              \* gated nodes complete in ITS manifest
            bytes: Drafts \cup {None},          \* pending_content of its gate
            dec: Reqs \cup {None}]              \* the decision hold_gate returned
ReqPCs  == {"idle", "checked", "recorded", "unrecorded", "marked", "accepted", "refused", "lost"}
Request == [pc: ReqPCs, kind: Decisions \cup {"cancel", "none"}, run: Runs \cup {None},
            at: Procs \cup {None}, saw: Drafts \cup Reqs \cup {None}]

NoGateRow == [state |-> "none", sha |-> None, applied |-> FALSE, by |-> None]
NoTask    == [pc |-> "idle", run |-> None, at |-> None, done |-> None,
              bytes |-> None, dec |-> None]
Blank     == [recon |-> {}, hand |-> None, waiting |-> {},
              decided |-> [r \in Runs |-> None], cancelled |-> {}, held |-> {}]
NoRequest == [pc |-> "idle", kind |-> "none", run |-> None, at |-> None, saw |-> None]

Init ==
    /\ row = [r \in Runs |-> [status |-> "queued", owner |-> None, lease |-> "none",
                              attempts |-> 0, pending |-> None]]
    /\ gate = [r \in Runs |-> [g \in Gates |-> NoGateRow]]
    /\ manifest = [r \in Runs |-> 0]
    /\ life = [p \in Procs |-> "off"]
    /\ mem = [p \in Procs |-> Blank]
    /\ task = [t \in Tasks |-> NoTask]
    /\ req = [q \in Reqs |-> NoRequest]
    /\ sent = {}
    /\ starts = [r \in Runs |-> 0]
    /\ lapses = {}

-----------------------------------------------------------------------------
(* The guarded writes of lifecycle.py and persistence.py.                  *)

Ended(r) == row[r].status \in Terminal

\* Fault: the terminal write without its "AND status NOT IN (...)".
EndBlindly(r, s) == row' = [row EXCEPT ![r].status = s, ![r].pending = None]

\* complete_run, reject_run, _fail_run and cancel: only a live row is written.
End(r, s) ==
    row' = IF Ended(r) THEN row
           ELSE [row EXCEPT ![r].status = s, ![r].pending = None]

\* Fault: the loops and the API start before reconcile_gates is done.
ServingAtOnce(p) == life[p] = "live"

\* A process serves requests and claims runs once its reconciliation is over.
Live(p)    == life[p] = "live"
Serving(p) == Live(p) /\ mem[p].recon = {}

\* One executor task more, on process p; p counts the run among those it holds.
Spawn(t, p, r) ==
    /\ task[t].pc = "idle"
    /\ task' = [task EXCEPT ![t] = [NoTask EXCEPT !.pc = "begin", !.run = r, !.at = p]]

Goto(t, pc) == task' = [task EXCEPT ![t].pc = pc]

\* The task ends: _track_run's done-callback frees the run's slot. m is the
\* memory of its process as the task leaves it.
Leave(t, m) ==
    /\ task' = [task EXCEPT ![t] = NoTask]
    /\ mem' = [mem EXCEPT ![task[t].at] = [m EXCEPT !.held = @ \ {task[t].run}]]

\* A write fails whose caller catches that and goes on as if it had been done.
Lapse(r, what) ==
    /\ what \in Failing
    /\ lapses' = lapses \cup {<<r, what>>}

Mine(t) == mem[task[t].at]
Forget(m, r)  == [m EXCEPT !.cancelled = @ \ {r}]
Unwait(m, r)  == [m EXCEPT !.waiting = @ \ {r}]

IsPack(t)  == task[t].run \in PackRuns
NextGate(t) == task[t].done + 1

-----------------------------------------------------------------------------
(* The queue: claim_loop, dispatch_claimed, heartbeat_loop (queue.py).     *)

\* Fault: claim_next_run without its reclaim of stale leases.
ClaimableQueued(r) == row[r].status = "queued"

Claimable(r) ==
    \/ row[r].status = "queued"
    \/ row[r].status \in Parked /\ row[r].lease = "stale"

ClaimNext(p) ==
    /\ Serving(p)
    /\ mem[p].hand = None
    /\ \E t \in Tasks : task[t].pc = "idle"
    /\ \E r \in Runs :
        LET tries == IF row[r].status = "awaiting_approval" THEN row[r].attempts
                     ELSE row[r].attempts + 1
        IN  /\ Claimable(r)
            /\ row' = [row EXCEPT ![r].owner = p, ![r].lease = "fresh", ![r].attempts = tries,
                                  ![r].status = IF @ = "queued" THEN "running" ELSE @]
            /\ mem' = [mem EXCEPT ![p].hand =
                          [run |-> r, first |-> row[r].status = "queued", attempts |-> tries]]
    /\ UNCHANGED <<gate, manifest, life, task, req, histVars>>

\* Faults: one retry too many; a reclaimed prompt run executed afresh.
RefusedLate(c)  == c.attempts > MaxAttempts + 1 \/ (~c.first /\ c.run \notin PackRuns)
RefusedRetry(c) == c.attempts > MaxAttempts

\* A claim the worker refuses to execute: retries exhausted, or a prompt run
\* whose SDK session died with the worker that held it.
Refused(c) == c.attempts > MaxAttempts \/ (~c.first /\ c.run \notin PackRuns)

DispatchClaimed(p) ==
    /\ Live(p)
    /\ mem[p].hand # None
    /\ LET c == mem[p].hand IN
        \/ /\ Refused(c)
           /\ End(c.run, "failed")
           /\ mem' = [mem EXCEPT ![p].hand = None]
           /\ UNCHANGED task
        \/ /\ ~Refused(c)
           /\ \E t \in Tasks : Spawn(t, p, c.run)
           /\ mem' = [mem EXCEPT ![p].hand = None, ![p].held = @ \cup {c.run}]
           /\ UNCHANGED row
    /\ UNCHANGED <<gate, manifest, life, req, histVars>>

\* heartbeat_loop: touch_worker_runs refreshes every row this process claimed,
\* provided it holds at least one run, and cancel_tick marks the held runs whose
\* row asks to be cancelled.
Heartbeat(p) ==
    /\ Serving(p)
    /\ mem[p].held # {}
    /\ row' = [r \in Runs |-> IF row[r].owner = p /\ row[r].status \in Parked
                              THEN [row[r] EXCEPT !.lease = "fresh"] ELSE row[r]]
    /\ mem' = [mem EXCEPT ![p].cancelled =
                  @ \cup {r \in mem[p].held : row[r].status = "canceled"}]
    /\ UNCHANGED <<gate, manifest, life, task, req, histVars>>

\* A live owner that holds no run, and is not dispatching one, does not beat at all.
Silent(p) == ~Live(p) \/ (mem[p].held = {} /\ mem[p].hand = None)

\* LEASE_S passes without a beat: the owner is silent, or stalls.
LeaseExpires(r) ==
    /\ row[r].status \in Parked
    /\ row[r].lease = "fresh"
    /\ Stalls \/ Silent(row[r].owner)
    /\ row' = [row EXCEPT ![r].lease = "stale"]
    /\ UNCHANGED <<gate, manifest, life, mem, task, req, histVars>>

-----------------------------------------------------------------------------
(* Boot, reconcile_gates and death of a process.                           *)

\* The advisory lock admits one reconciliation at a time.
Boot(p) ==
    /\ life[p] = "off"
    /\ Cardinality({x \in Procs : Live(x)}) < MaxUp
    /\ \A x \in Procs : mem[x].recon = {}
    /\ life' = [life EXCEPT ![p] = "live"]
    /\ mem' = [mem EXCEPT ![p].recon = {r \in Runs : row[r].status = "awaiting_approval"}]
    /\ UNCHANGED <<row, gate, manifest, task, req, histVars>>

\* One row of reconcile_gates: a prompt run is failed, a pack run is re-dispatched
\* after _take_ownership, which does not look at the row's status or owner, and whose
\* failure leaves the row to its old claim.
ReconcileRun(p, r) ==
    /\ Live(p)
    /\ r \in mem[p].recon
    /\ \/ /\ r \notin PackRuns
          /\ End(r, "failed")
          /\ mem' = [mem EXCEPT ![p].recon = @ \ {r}]
          /\ UNCHANGED <<task, lapses>>
       \/ /\ r \in PackRuns
          /\ \/ /\ row' = [row EXCEPT ![r].owner = p, ![r].lease = "fresh"]
                /\ UNCHANGED lapses
             \/ Lapse(r, 0) /\ UNCHANGED row
          /\ \E t \in Tasks : Spawn(t, p, r)
          /\ mem' = [mem EXCEPT ![p].recon = @ \ {r}, ![p].held = @ \cup {r}]
    /\ UNCHANGED <<gate, manifest, life, req, sent, starts>>

\* A crash, a kill, or a shutdown whose drain cancels the tasks. The last
\* incarnation survives: the supervisor restarts what dies (bound: Procs).
Crash(p) ==
    /\ Live(p)
    /\ \E x \in Procs \ {p} : life[x] # "down"
    /\ life' = [life EXCEPT ![p] = "down"]
    /\ mem' = [mem EXCEPT ![p] = Blank]
    /\ task' = [t \in Tasks |-> IF task[t].at = p THEN NoTask ELSE task[t]]
    /\ req' = [q \in Reqs |-> IF req[q].at = p /\ req[q].pc \notin {"accepted", "refused"}
                              THEN [req[q] EXCEPT !.pc = "lost"] ELSE req[q]]
    /\ UNCHANGED <<row, gate, manifest, histVars>>

-----------------------------------------------------------------------------
(* The executor task: _execute_pack_run and _execute_run.                  *)

\* Cancelled before it began; else a pack run that reads awaiting_approval resumes
\* at its gate and skips admission.
Begin(t) ==
    LET r == task[t].run IN
    /\ task[t].pc = "begin"
    /\ \/ r \in Mine(t).cancelled /\ Leave(t, Forget(Mine(t), r))
       \/ /\ r \notin Mine(t).cancelled
          /\ Goto(t, IF IsPack(t) /\ row[r].status = "awaiting_approval" THEN "exec" ELSE "admit")
          /\ UNCHANGED mem
    /\ UNCHANGED <<row, gate, manifest, life, req, histVars>>

\* The cost cap refuses the run, or start_run writes it running unless it has ended.
Admit(t) ==
    LET r == task[t].run IN
    /\ task[t].pc = "admit"
    /\ \/ /\ End(r, "failed")
          /\ Leave(t, Mine(t))
          /\ UNCHANGED starts
       \/ /\ Ended(r)
          /\ Leave(t, Mine(t))
          /\ UNCHANGED <<row, starts>>
       \/ /\ ~Ended(r)
          /\ row' = [row EXCEPT ![r].status = "running"]
          /\ starts' = [starts EXCEPT ![r] = @ + 1]
          /\ Goto(t, "exec")
          /\ UNCHANGED mem
    /\ UNCHANGED <<gate, manifest, life, req, sent, lapses>>

\* PipelineRunner.run under the profile lock. It reads the manifest from disk on the
\* first turn only and persists its own copy. The batch guard stops a canceled run;
\* a node may fail; a gated node that is not complete runs (again) and writes a draft.
ExecPack(t) ==
    LET r == task[t].run
        d == IF task[t].done = None THEN manifest[r] ELSE task[t].done
    IN
    /\ task[t].pc = "exec"
    /\ IsPack(t)
    /\ \/ /\ row[r].status = "canceled"
          /\ Leave(t, Forget(Mine(t), r))
          /\ UNCHANGED row
       \/ /\ row[r].status # "canceled"
          /\ End(r, "failed")
          /\ Leave(t, Mine(t))
       \/ /\ row[r].status # "canceled" \/ d = NGates
          /\ IF d < NGates
             THEN \E b \in Drafts : task' = [task EXCEPT ![t] =
                      [@ EXCEPT !.pc = "claim", !.done = d, !.bytes = b, !.dec = None]]
             ELSE task' = [task EXCEPT ![t] = [@ EXCEPT !.pc = "finish", !.done = d]]
          /\ UNCHANGED <<row, mem>>
    /\ manifest' = [manifest EXCEPT ![r] = d]
    /\ UNCHANGED <<gate, life, req, histVars>>

\* The chunks of a prompt run: each one checks the cancelled set; the stream raises,
\* ends, or shows a gate sentinel that was not handled yet.
ExecPrompt(t) ==
    LET r == task[t].run
        d == IF task[t].done = None THEN 0 ELSE task[t].done
    IN
    /\ task[t].pc = "exec"
    /\ ~IsPack(t)
    /\ \/ /\ r \in Mine(t).cancelled
          /\ Leave(t, Forget(Mine(t), r))
          /\ UNCHANGED row
       \/ /\ End(r, "failed")
          /\ Leave(t, Mine(t))
       \/ /\ r \notin Mine(t).cancelled
          /\ \/ /\ d < NGates
                /\ \E b \in Drafts : task' = [task EXCEPT ![t] =
                      [@ EXCEPT !.pc = "register", !.done = d, !.bytes = b, !.dec = None]]
             \/ task' = [task EXCEPT ![t] = [@ EXCEPT !.pc = "finish", !.done = d]]
          /\ UNCHANGED <<row, mem>>
    /\ UNCHANGED <<gate, manifest, life, req, histVars>>

\* The last cancel check, then complete_run.
Finish(t) ==
    LET r == task[t].run IN
    /\ task[t].pc = "finish"
    /\ IF r \in Mine(t).cancelled THEN UNCHANGED row ELSE End(r, "ok")
    /\ Leave(t, Forget(Mine(t), r))
    /\ UNCHANGED <<gate, manifest, life, req, histVars>>

-----------------------------------------------------------------------------
(* hold_gate and _wait_for_decision (lifecycle.py) over the run_gates row  *)
(* (gates.py).                                                             *)

\* Fault: a reject is bound to the bytes it was made over, as an approval is.
CanClaimSameBytes(t) ==
    LET g == gate[task[t].run][NextGate(t)] IN
    g.state \notin {"none", "open"} /\ ~g.applied /\ g.sha = task[t].bytes

\* _claim_gate_decision's predicate: decided, not applied, and either a reject or
\* recorded over the bytes held now.
CanClaim(t) ==
    LET g == gate[task[t].run][NextGate(t)] IN
    /\ g.state \notin {"none", "open"}
    /\ ~g.applied
    /\ g.state = "rejected" \/ g.sha = task[t].bytes

\* Claim the durable decision of this gate, if it has one that may be claimed. A
\* statement that fails reads as no decision.
HoldClaim(t) ==
    LET r == task[t].run
        g == NextGate(t)
    IN
    /\ task[t].pc = "claim"
    /\ \/ /\ CanClaim(t)
          /\ gate' = [gate EXCEPT ![r][g].applied = TRUE]
          /\ task' = [task EXCEPT ![t] = [@ EXCEPT !.pc = "register", !.dec = gate[r][g].by]]
       \/ Goto(t, "register") /\ UNCHANGED gate
    /\ UNCHANGED <<row, manifest, life, mem, req, histVars>>

\* Register the waiter, then look for a cancel that came before it.
HoldRegister(t) ==
    LET r == task[t].run IN
    /\ task[t].pc = "register"
    /\ IF r \in Mine(t).cancelled
       THEN Leave(t, Unwait(Forget(Mine(t), r), r))
       ELSE /\ mem' = [mem EXCEPT ![task[t].at].waiting = @ \cup {r}]
            /\ Goto(t, "park")
    /\ UNCHANGED <<row, gate, manifest, life, req, histVars>>

\* Write awaiting_approval and the pending bytes, unless the row has ended. A decision
\* claimed above is returned at once, and the waiter removed.
HoldPark(t) ==
    LET r == task[t].run IN
    /\ task[t].pc = "park"
    /\ \/ /\ Ended(r)
          /\ Leave(t, Unwait(Forget(Mine(t), r), r))
          /\ UNCHANGED row
       \/ /\ ~Ended(r)
          /\ row' = [row EXCEPT ![r].status = "awaiting_approval", ![r].pending = task[t].bytes]
          /\ IF task[t].dec # None
             THEN /\ mem' = [mem EXCEPT ![task[t].at] = Unwait(@, r)]
                  /\ Goto(t, "decided")
             ELSE /\ Goto(t, IF IsPack(t) THEN "open" ELSE "poll")
                  /\ UNCHANGED mem
    /\ UNCHANGED <<gate, manifest, life, req, histVars>>

\* Fault: a row that is open already is left alone whatever its bytes.
HoldOpenOnce(t) ==
    LET r == task[t].run
        g == NextGate(t)
    IN
    /\ task[t].pc = "open"
    /\ gate' = IF gate[r][g].state = "open" THEN gate
               ELSE [gate EXCEPT ![r][g] = [NoGateRow EXCEPT !.state = "open", !.sha = task[t].bytes]]
    /\ Goto(t, "poll")
    /\ UNCHANGED <<row, manifest, life, mem, req, histVars>>

\* _open_gate_row: one upsert that leaves alone a row it could claim, and a row
\* already open on these bytes, and resets any other. The waiter goes on if it fails.
HoldOpen(t) ==
    LET r == task[t].run
        g == NextGate(t)
        unchanged == CanClaim(t) \/ (gate[r][g].state = "open" /\ gate[r][g].sha = task[t].bytes)
    IN
    /\ task[t].pc = "open"
    /\ \/ /\ gate' = IF unchanged THEN gate
                     ELSE [gate EXCEPT ![r][g] = [NoGateRow EXCEPT !.state = "open", !.sha = task[t].bytes]]
          /\ UNCHANGED lapses
       \/ Lapse(r, g) /\ UNCHANGED gate
    /\ Goto(t, "poll")
    /\ UNCHANGED <<row, manifest, life, mem, req, sent, starts>>

\* hold_gate returns decision q. An approval first waits for a worker slot while its
\* waiter is still registered; a reject does not.
Decide(t, q, m) ==
    LET asks == req[q].kind = "reject" IN
    /\ task' = [task EXCEPT ![t] = [@ EXCEPT !.pc = IF asks THEN "decided" ELSE "slot", !.dec = q]]
    /\ mem' = [mem EXCEPT ![task[t].at] = IF asks THEN Unwait(m, task[t].run) ELSE m]

\* A tick of a durable gate: claim the row; having claimed it, drop the in-process copy. A
\* claim that fails, or finds nothing, goes on to that copy.
WaitClaim(t) ==
    LET r == task[t].run
        g == NextGate(t)
    IN
    /\ task[t].pc = "poll"
    /\ IsPack(t)
    /\ \/ /\ CanClaim(t)
          /\ gate' = [gate EXCEPT ![r][g].applied = TRUE]
          /\ Decide(t, gate[r][g].by, [Mine(t) EXCEPT !.decided[r] = None])
       \/ Goto(t, "local") /\ UNCHANGED <<gate, mem>>
    /\ UNCHANGED <<row, manifest, life, req, histVars>>

\* The rest of the tick: the in-process decision, whatever the claim found; else stop
\* if the run went terminal; else wait again.
WaitLocal(t) ==
    LET r == task[t].run
        q == Mine(t).decided[r]
    IN
    /\ task[t].pc = IF IsPack(t) THEN "local" ELSE "poll"
    /\ \/ q # None /\ Decide(t, q, [Mine(t) EXCEPT !.decided[r] = None])
       \/ q = None /\ Ended(r) /\ Leave(t, Unwait(Mine(t), r))
       \/ q = None /\ ~Ended(r) /\ Goto(t, "poll") /\ UNCHANGED mem
    /\ UNCHANGED <<row, gate, manifest, life, req, histVars>>

\* The worker slot is back: the finally of hold_gate removes the waiter.
WaitSlot(t) ==
    /\ task[t].pc = "slot"
    /\ Goto(t, "decided")
    /\ mem' = [mem EXCEPT ![task[t].at] = Unwait(@, task[t].run)]
    /\ UNCHANGED <<row, gate, manifest, life, req, histVars>>

\* GATE_TIMEOUT_S passes, seen at the top of the waiter's loop.
WaitTimeout(t) ==
    /\ task[t].pc = "poll"
    /\ End(task[t].run, "failed")
    /\ Leave(t, Unwait(Mine(t), task[t].run))
    /\ UNCHANGED <<gate, manifest, life, req, histVars>>

-----------------------------------------------------------------------------
(* After the decision.                                                     *)

\* Fault: no return after the reject was handled.
DecidedFallsThrough(t) ==
    LET r == task[t].run IN
    /\ task[t].pc = "decided"
    /\ IF req[task[t].dec].kind = "reject" THEN End(r, "rejected") ELSE UNCHANGED row
    /\ Goto(t, IF IsPack(t) THEN "dispatch" ELSE "resume")
    /\ UNCHANGED <<gate, manifest, life, mem, req, histVars>>

\* A reject ends the run; an approval is charged against the cap again (which may
\* refuse it), and an edit first replaces the pending bytes.
Decided(t) ==
    LET r == task[t].run
        kind == req[task[t].dec].kind
    IN
    /\ task[t].pc = "decided"
    /\ \/ kind = "reject" /\ End(r, "rejected") /\ Leave(t, Mine(t))
       \/ kind # "reject" /\ End(r, "failed") /\ Leave(t, Mine(t))
       \/ /\ kind # "reject"
          /\ Goto(t, IF kind = "edit" THEN "rewrite" ELSE IF IsPack(t) THEN "dispatch" ELSE "resume")
          /\ UNCHANGED <<row, mem>>
    /\ UNCHANGED <<gate, manifest, life, req, histVars>>

\* rewrite_pending_content has no guard. The edited bytes are named by their request.
RewritePending(t) ==
    /\ task[t].pc = "rewrite"
    /\ row' = [row EXCEPT ![task[t].run].pending = task[t].dec]
    /\ Goto(t, IF IsPack(t) THEN "dispatch" ELSE "resume")
    /\ UNCHANGED <<gate, manifest, life, mem, req, histVars>>

\* Fault: a dispatch that is refused lets the gate pass.
DispatchGate2Lenient(t) ==
    /\ task[t].pc = "dispatch"
    /\ \/ UNCHANGED sent
       \/ sent' = sent \cup {[run |-> task[t].run, gate |-> NextGate(t),
                              bytes |-> task[t].bytes, by |-> task[t].dec]}
    /\ Goto(t, "flip")
    /\ UNCHANGED <<row, gate, manifest, life, mem, req, starts, lapses>>

\* Promote the approved draft and dispatch the declared effect, or fail the run
\* because the draft or the dispatcher refuses it.
DispatchGate2(t) ==
    LET r == task[t].run IN
    /\ task[t].pc = "dispatch"
    /\ \/ /\ End(r, "failed")
          /\ Leave(t, Mine(t))
          /\ UNCHANGED sent
       \/ /\ sent' = sent \cup {[run |-> r, gate |-> NextGate(t), bytes |-> task[t].bytes,
                                 by |-> task[t].dec]}
          /\ Goto(t, "flip")
          /\ UNCHANGED <<row, mem>>
    /\ UNCHANGED <<gate, manifest, life, req, starts, lapses>>

\* Fault: the gated node is left incomplete, and runs again on the next turn.
CompleteGateNever(t) ==
    /\ task[t].pc = "flip"
    /\ Goto(t, "resume")
    /\ UNCHANGED <<row, gate, manifest, life, mem, req, histVars>>

\* _complete_approved_gate: the gated node is complete, in the file too.
CompleteGate(t) ==
    /\ task[t].pc = "flip"
    /\ manifest' = [manifest EXCEPT ![task[t].run] = NextGate(t)]
    /\ task' = [task EXCEPT ![t] = [@ EXCEPT !.pc = "resume", !.done = NextGate(t)]]
    /\ UNCHANGED <<row, gate, life, mem, req, histVars>>

ResumeRun(t) ==
    LET r == task[t].run IN
    /\ task[t].pc = "resume"
    /\ row' = IF Ended(r) THEN row
              ELSE [row EXCEPT ![r].status = "running", ![r].pending = None]
    /\ task' = [task EXCEPT ![t] = [@ EXCEPT !.pc = "exec",
                !.done = IF IsPack(t) THEN task[t].done ELSE NextGate(t)]]
    /\ UNCHANGED <<gate, manifest, life, mem, req, histVars>>

-----------------------------------------------------------------------------
(* Operator requests: POST /gate (decide_gate, record_decision) and        *)
(* POST /cancel (cancel_run, cancel), served by any live process.          *)

Ask(q, pc, kind, r, p, saw) ==
    req' = [req EXCEPT ![q] = [NoRequest EXCEPT !.pc = pc, !.kind = kind, !.run = r,
                                                !.at = p, !.saw = saw]]

Answer(q, pc) == req' = [req EXCEPT ![q].pc = pc]

\* Fault: the content_sha of the request is not compared (an approval of other bytes).
DecideCheckBlind(q, p, r) ==
    /\ req[q].pc = "idle"
    /\ Serving(p)
    /\ row[r].status = "awaiting_approval"
    /\ \E kind \in Decisions, seen \in Drafts : Ask(q, "checked", kind, r, p, seen)
    /\ UNCHANGED <<row, gate, manifest, life, mem, task, histVars>>

\* fetch_open_gate and the checks on the row it read: the run awaits approval, and the
\* content_sha of the request is that of the pending bytes (H9).
DecideCheck(q, p, r) ==
    /\ req[q].pc = "idle"
    /\ Serving(p)
    /\ row[r].status = "awaiting_approval"
    /\ row[r].pending # None
    /\ \E kind \in Decisions : Ask(q, "checked", kind, r, p, row[r].pending)
    /\ UNCHANGED <<row, gate, manifest, life, mem, task, histVars>>

\* _record_gate_decision: onto every open gate row of the run.
RecordDecision(q) ==
    LET r == req[q].run
        open == {g \in Gates : gate[r][g].state = "open"}
    IN
    /\ req[q].pc = "checked"
    /\ gate' = [gate EXCEPT ![r] = [g \in Gates |->
                   IF g \in open
                   THEN [@[g] EXCEPT !.state = DecisionState(req[q].kind), !.by = q]
                   ELSE @[g]]]
    /\ Answer(q, IF open = {} THEN "unrecorded" ELSE "recorded")
    /\ UNCHANGED <<row, manifest, life, mem, task, histVars>>

\* The in-process half of record_decision, under _state_lock.
ResolveWaiter(q) ==
    LET r == req[q].run
        m == mem[req[q].at]
        fresh == r \in m.waiting /\ m.decided[r] = None
    IN
    /\ req[q].pc \in {"recorded", "unrecorded"}
    /\ IF req[q].pc = "unrecorded" /\ ~fresh
       THEN Answer(q, "refused") /\ UNCHANGED mem
       ELSE /\ Answer(q, "accepted")
            /\ mem' = IF fresh THEN [mem EXCEPT ![req[q].at].decided[r] = q] ELSE mem
    /\ UNCHANGED <<row, gate, manifest, life, task, histVars>>

\* cancel_run sees a live run, and cancel marks it in memory before anything else.
CancelMark(q, p, r) ==
    /\ req[q].pc = "idle"
    /\ Serving(p)
    /\ ~Ended(r)
    /\ Ask(q, "marked", "cancel", r, p, None)
    /\ mem' = [mem EXCEPT ![p].cancelled = @ \cup {r}]
    /\ UNCHANGED <<row, gate, manifest, life, task, histVars>>

\* The transaction of cancel: the run row, and its OPEN gate rows.
CancelWrite(q) ==
    LET r == req[q].run IN
    /\ req[q].pc = "marked"
    /\ Answer(q, "accepted")
    /\ End(r, "canceled")
    /\ gate' = IF Ended(r) THEN gate
               ELSE [gate EXCEPT ![r] = [g \in Gates |->
                        IF @[g].state = "open"
                        THEN [@[g] EXCEPT !.state = "rejected", !.applied = TRUE] ELSE @[g]]]
    /\ UNCHANGED <<manifest, life, mem, task, histVars>>

\* The transaction of cancel fails: the caller gets an error, the mark stays.
CancelFails(q) ==
    /\ req[q].pc = "marked"
    /\ Answer(q, "lost")
    /\ UNCHANGED <<row, gate, manifest, life, mem, task, histVars>>

-----------------------------------------------------------------------------
TaskStep(t) ==
    \/ Begin(t) \/ Admit(t) \/ ExecPack(t) \/ ExecPrompt(t) \/ Finish(t)
    \/ HoldClaim(t) \/ HoldRegister(t) \/ HoldPark(t) \/ HoldOpen(t)
    \/ WaitClaim(t) \/ WaitLocal(t) \/ WaitSlot(t)
    \/ Decided(t) \/ RewritePending(t) \/ DispatchGate2(t) \/ CompleteGate(t) \/ ResumeRun(t)

ProcStep(p) ==
    \/ ClaimNext(p) \/ DispatchClaimed(p)
    \/ \E r \in Runs : ReconcileRun(p, r)

RequestStep(q) ==
    \/ \E p \in Procs, r \in Runs : DecideCheck(q, p, r) \/ CancelMark(q, p, r)
    \/ RecordDecision(q) \/ ResolveWaiter(q) \/ CancelWrite(q) \/ CancelFails(q)

Environment ==
    \/ \E p \in Procs : Boot(p) \/ Crash(p) \/ Heartbeat(p)
    \/ \E r \in Runs : LeaseExpires(r)
    \/ \E t \in Tasks : WaitTimeout(t)

\* The system may rest once every run has ended; resting before is a deadlock.
Rest == (\A r \in Runs : Ended(r)) /\ UNCHANGED vars

Next ==
    \/ \E t \in Tasks : TaskStep(t)
    \/ \E p \in Procs : ProcStep(p)
    \/ \E q \in Reqs : RequestStep(q)
    \/ Environment
    \/ Rest

Spec == Init /\ [][Next]_vars

\* Coroutines and loops run, the supervisor restarts processes, a lease nobody
\* refreshes expires, and a waiter reaches the top of its loop (where it may find the
\* deadline passed) at every tick. Operators owe nothing, nor does Crash.
Fairness ==
    /\ \A t \in Tasks : WF_vars(TaskStep(t)) /\ SF_vars(WaitTimeout(t))
    /\ \A p \in Procs : WF_vars(ProcStep(p)) /\ WF_vars(Boot(p))
    /\ \A r \in Runs : WF_vars(LeaseExpires(r))

FairSpec == Spec /\ Fairness
-----------------------------------------------------------------------------
(* Properties.                                                             *)

\* Every row, global, coroutine and request has the shape its code gives it.
TypeOK ==
    /\ row \in [Runs -> Row]
    /\ gate \in [Runs -> [Gates -> GateRow]]
    /\ manifest \in [Runs -> Nat]
    /\ life \in [Procs -> {"off", "live", "down"}]
    /\ mem \in [Procs -> Memory]
    /\ task \in [Tasks -> Task]
    /\ req \in [Reqs -> Request]
    /\ sent \subseteq [run: Runs, gate: Nat, bytes: Drafts \cup {None}, by: Reqs \cup {None}]
    /\ starts \in [Runs -> Nat]
    /\ lapses \subseteq Runs \X Nat

\* RL-03: whatever the order in which a cancel, a completion, a failure, a reject, a
\* gate opening and a resume reach the row, the first terminal status stands.
TerminalIsFinal ==
    [][\A r \in Runs : Ended(r) => row'[r].status = row[r].status]_vars

\* A prompt run is unresumable: no sequence of crashes, stalls and reclaims makes a
\* second executor start it (dispatch_claimed fails a reclaimed prompt run).
PromptExecutesOnce ==
    \A r \in Runs \ PackRuns : starts[r] <= 1

\* Every resumption of the run took it over from the worker that had died.
Stamped(r) == <<r, 0>> \notin lapses

\* A job that kills its worker every time is not a crash loop: it starts at most
\* MAX_ATTEMPTS times, however often it is reclaimed and resumed, unless a resumption
\* failed to take it over (reconcile.py:213) and a reclaim runs it beside the resumed one.
CrashLoopBounded ==
    \A r \in Runs : Stamped(r) => starts[r] <= MaxAttempts

\* Of a run there is at most one executor task at a time, unless a resumption failed to
\* take it over: that failure is the only way to a second one.
OneExecutor ==
    \A t, u \in Tasks :
        /\ task[t].pc # "idle" /\ task[u].pc # "idle"
        /\ task[t].run = task[u].run
        /\ Stamped(task[t].run)
        => t = u

\* H9: an operator who approved or edited what Gate 2 acts on was looking at exactly the
\* bytes it acts on ("rejects a stale/duplicate/blind decision meant for a different gate").
EffectAuthorised ==
    \A e \in sent : e.by \in Reqs /\ req[e.by].saw = e.bytes

\* Gate 2 acts only for an operator who approved or edited this very run: no crash, stall,
\* second executor or leftover decision turns a reject, or a decision about another run,
\* into a send.
EffectDecided ==
    \A e \in sent :
        /\ e.by \in Reqs
        /\ req[e.by].run = e.run
        /\ req[e.by].kind \in {"approve", "edit"}

FirstLife == \A p \in Procs : life[p] # "down"

\* H9 where the code keeps it: before a restart, and at the first gate of the run.
FirstGateAuthorised ==
    FirstLife => \A e \in sent : e.gate = 1 => e.by \in Reqs /\ req[e.by].saw = e.bytes

\* Before a restart an approved gate is acted on once.
SentOnce ==
    FirstLife => \A e, f \in sent : e.run = f.run /\ e.gate = f.gate => e = f

\* A run that ends rejected has sent nothing from the gate it was rejected at: only from
\* gates that are complete.
RejectedSentNothing ==
    FirstLife => \A e \in sent : row[e.run].status = "rejected" => manifest[e.run] >= e.gate

\* RL-12: a recorded reject is never destroyed by a gate that opens over it, whatever
\* bytes the re-run node wrote; it stays until a waiter applies it.
RejectSticks ==
    [][\A r \in Runs, g \in Gates :
        gate[r][g].state = "rejected" /\ ~gate[r][g].applied
            => gate'[r][g].state = "rejected" /\ gate'[r][g].by = gate[r][g].by]_vars

\* While a waiter waits on an open gate row, the pending bytes the operator is shown and
\* the bytes the waiter will act on are the same, unless the run has two executors; and
\* so are those of the gate row, unless its opening failed (gates.py:112) and the waiter
\* went on beside the row of an earlier life.
ShownIsHeld ==
    \A t \in Tasks :
        LET r == task[t].run IN
        /\ task[t].pc \in {"poll", "local"}
        /\ IsPack(t)
        /\ ~Ended(r)
        /\ Stamped(r)
        => /\ row[r].pending = task[t].bytes
           /\ gate[r][NextGate(t)].state = "open" /\ <<r, NextGate(t)>> \notin lapses
                  => gate[r][NextGate(t)].sha = task[t].bytes

\* Every run that was enqueued reaches a terminal status: none is left to a dead
\* process, to a gate nobody decides, or to a claim nobody dispatched.
EveryRunEnds ==
    \A r \in Runs : <>Ended(r)

\* "Under the advisory lock so N workers do not each re-dispatch the same run"
\* (main.py:313): a run is reconciled only if no task is executing it.
ReconciledOnce ==
    [][\A p \in Procs, r \in Runs :
        (r \in mem[p].recon /\ r \notin mem'[p].recon /\ r \in mem'[p].held)
            => \A t \in Tasks : task[t].run # r]_vars

\* "There is no configuration in which a recorded decision is not applied"
\* (lifecycle.py:319): the deadline does not fail a run whose decision may be claimed.
DecisionBeatsDeadline ==
    [][\A t \in Tasks :
        task[t].pc = "poll" /\ IsPack(t) /\ ~Ended(task[t].run) /\ CanClaim(t)
            => row'[task[t].run].status # "failed"]_vars
=============================================================================
