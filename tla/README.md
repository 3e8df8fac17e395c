# Verification of the GTM engine

TLA+ modules, TLC configurations and TLAPS proofs about the parts of the GTM
engine that run concurrently, survive crashes, or must not act twice. Paths are
relative to the repository root, `runs/` stands for `backend/services/runs/`.

## 1. The system

The engine turns a request ("run this pack for this workspace") into drafts,
shows them to an operator at *gates*, and publishes or emails what was approved.

| Part | State it keeps | Operations | Interacts with |
|---|---|---|---|
| Admission (`runs/admission.py`, `principal_admission.py`) | rows of `runs`, advisory lock per workspace | admit, idempotency key, in-flight cap | metering (reserve), queue |
| Run queue (`runs/queue.py`, V021, V040) | `runs.status/claimed_by/heartbeat_at/attempts`, slot counters | claim, dispatch, beat, cancel tick, reclaim | executors, Postgres |
| Boot reconciliation (`runs/reconcile.py`, `backend/main.py`) | none of its own | resume gated runs, own them | gates, queue |
| Gates (`runs/gates.py`, `lifecycle.py`) | `run_gates`, `_gate_events` | open, wait, claim a decision, time out | executors, requests |
| Decisions, cancel (`runs/decisions.py`, `backend/routers/runs.py`) | `_gate_decisions`, `_cancelled_runs` | decide, cancel | gates, run rows |
| Pack executor (`runs/pack_executor.py`), prompt executor (`runs/executor.py`) | coroutine locals, manifest file | execute, hold gate, dispatch, resume | pipeline, gates, dispatch |
| Pipeline runner (`agent/pipeline.py`, `graph.py`) | manifest of node statuses | run batches, resume, persist | pack executor, circuit breaker, run lock |
| Dispatch intents (`gtm_core/dispatch_intents.py`, `agent/email_dispatch.py`, `publish_dispatch.py`, `enroll_intents.py`; `backend/services/dispatch_intents.py`) | append-only journal of claims and outcomes, a hold flag | claim, call, record, resolve, hold | providers, operators |
| Metering (`gtm_core/metering.py`) | wallets, reservations, ledger rows | reserve, settle, debit, refund | admission, executors, MCP server |
| Events (`runs/events.py`, `stream.py`, `backend/broker.py`) | relay queue (2048), subscriber queues (256, drop oldest), `run_events` | emit, relay, subscribe, replay | every writer of a run |
| Sessions, provisioning, onboarding, webhooks, opt-out sweep | single rows and files | single-statement transitions | API |
| Cockpit (`cockpit/`) | gate futures, chat queue, restart notice | Telegram counterpart of gates and queue | agent session |
| MCP server (`mcp_server/`) | task table | start, poll, meter | metering, executors |
| Content, lint, visual tooling (`gtm_core/...`), packs, plugin, scripts | files | pure checks, data | one process |

What is hard here: a process is replaced while runs wait at gates; several
replicas share rows; a row is read, an await passes, and the row is written;
the same decision travels through a durable row *and* an in-process dict; a
cancel, a deadline and an approval race; a provider call may have taken effect
although its answer never came. `PROJECT.json` lists each such hazard at its
line with the properties that cover it.

What makes each part correct: *queue* — every run ends, no run has two
executors, a prompt run is never replayed, a crash loop is bounded; *gates* —
terminal statuses and rejects stick, nothing is sent without an approval of
that run over those bytes; *pipeline* — a complete node is not run again and a
node runs only after its dependencies; *dispatch intents* — no recipient gets the
same thing twice unless a human said the first did not go out; *metering* —
the wallet equals the sum of its ledger and is never overdrawn by concurrent
reservations; *events* — a subscriber sees a prefix-consistent stream ending in
one `done`; *admission* — the cap holds and a key admits once.

## 2. Modules

### RunLifecycle — the durable life of a run

`RunLifecycle.tla` models the queue, boot reconciliation, both executors, the
gates, and the operator's requests, for any number of runs, process
incarnations, coroutines and requests.

| Variable | Code |
|---|---|
| `row` | `runs`: `status`, `claimed_by` (`owner`), the age of `heartbeat_at` (`lease`: none/fresh/stale), `attempts`, `pending_content` |
| `gate` | `run_gates`: `state`, `content_sha`, whether `applied_at` is set, whose decision it is |
| `manifest` | the pack's manifest file: how many gated nodes are complete |
| `life` | a process incarnation (`WORKER_ID` is minted at boot): off, live, down |
| `mem` | module globals: `_gate_events`, `_gate_decisions`, `_cancelled_runs`, `_workspace_runs`, the claim `claim_loop` is dispatching, the rows `reconcile_gates` still has to visit |
| `task` | the coroutines that execute runs, with their locals |
| `req` | operator requests in flight |
| `lapses` | history: best-effort writes that failed, `<<r, 0>>` the stamp of ownership of a resumed run, `<<r, g>>` the opening of gate `g` |
| `sent`, `starts` | history, for the properties only |

*Grain.* A step is one database statement (or transaction) with the synchronous
code around it, up to the next `await`. Between two steps anything else may
run, in this process or another. So `hold_gate` is `HoldClaim` (an earlier
decision?), `HoldRegister` (waiter into `_gate_events`), `HoldPark` (the run
row), `HoldOpen` (the gate row), then ticks `WaitClaim`/`WaitLocal`, and
`WaitSlot`: an approved waiter takes a worker slot back *before* the `finally`
that removes its event. `decide_gate` is `DecideCheck`, `RecordDecision`,
`ResolveWaiter`; `cancel` is `CancelMark`, `CancelWrite` or `CancelFails`.

*Abstractions.* Time: a lease is fresh or stale, a deadline may pass at any tick.
Bytes of a draft are members of `Drafts`, an edit is named by its request. The
order in which `claim_next_run` prefers runs is dropped (any claimable run may
be taken). `Tasks` bounds the coroutines alive at once. A shutdown drains by
cancelling its tasks, which leaves the same rows as a crash, so `Crash` stands
for both. `cancel_requested_at` is set only together with the status
`canceled`, so the cancel tick reads the status. An executor may fail at every
step where the code fails the run itself (cost cap, node failure, refused draft
or dispatch). Polling makes the broker's notifications irrelevant to what may
happen, so they are not modelled.
*Swallowed failures.* Where the code catches a failed statement and goes on as if it had been
done, so does the model: the stamp of `_take_ownership` (`reconcile.py:213`) in `ReconcileRun`, the
upsert of `_open_gate_row` (`gates.py:112`) in `HoldOpen` (`Lapse`), and the claim of a decision
(`gates.py:178`), which reads as "no decision" in `HoldClaim` and `WaitClaim`. `Failing` says
which of the first two may fail in an instance. A statement that raises is taken not to have
taken effect.

Gate 2's dispatch is one step, `DispatchGate2`; what happens inside it is
`Dispatch`, below.

### GatedRun and RunRefinement — what all that machinery promises

`GatedRun.tla` is what an operator is entitled to, with three variables (the status of a
run, what was asked, at which gates the run acted) and no process, lease, task, gate row or
manifest. `RunRefinement.tla` maps `RunLifecycle` to it with `INSTANCE GatedRun WITH`: `status`
is the column of the row,
`asked` the requests without their progress, `acted` the history `sent` without its bytes.
`KeepsThePromise` says that every step of the detailed system is a step of the abstract one
or changes nothing of the three.

### RunLifecycleProofs, RunLifecycleSafety

The theorems about `RunLifecycle` and its refinement (section 5).

### Dispatch — a batch on its way to the provider

The dispatchers (`agent/email_dispatch.py`, `publish_dispatch.py`) and the
provider, without the store that remembers. `call[b]` is the dispatcher that holds
batch id `b`: where it is, its recipients, its verdict; a batch id is minted by every
claim, so batches are also the bound on claims. `wire` are the requests at the provider,
`landed` what it did, `excused` the sends an operator disowned (history, for the
property). A provider may accept (`Accepted`), refuse (`Rejected`), or leave the
dispatcher without an answer (`Unanswered`) and process the request wholly, in part or not
at all, before or long after (`Lands`). A dispatcher may die anywhere (`Die`).

### FileIntents — the file ledger

`led` is the fold `Replay` of `dispatch-intents.jsonl`; because the file is append-only
and the fold goes from the left, an append is one step of the fold, and the module
never represents the rows. `Claim` is check and append under one `flock`; `Record`,
`Resolve` and `MarkRemoved` append without reading first, and take effect as the fold
says (`Own`). `saved` is a backup; `Restore` puts it back and sets the hold,
`Reconcile` and `ClearHold` are the CLI's `--reconcile --record`.

Assumed of the operator: the file is restored while the service is down and nothing is
left at the provider (the procedure needs an export of the sequencer after that);
the CLI is run by one person at one console. Saying "not sent", or marking a
recipient as removed, disowns every send to it up to then: the ledger promises
protection against machines that guess, not against an operator who errs.

### PgIntents — the table store

The same dispatchers on the table `dispatch_intents`. `latest` is the latest row per
recipient. Each method is two statements at read committed, so it is two actions
(`ClaimRead`/`ClaimInsert`, `RecordRead`/`RecordInsert`, `ResolveRead`/`ResolveInsert`);
only claims hold the advisory lock from the first to the second (`Locked`). An
INSERT and its commit are one step. The hold and removals have no caller in the
backend and are left out.

### FileIntentsProofs, PgIntentsProofs

The theorems about the two stores, and through them about `Dispatch` (section 5).

### CreditLedger — admission, the wallet and what a run is charged

`CreditLedger.tla` follows the runs of one workspace from the request to the settlement.

| Variable | Code |
|---|---|
| `wallet`, `wlock` | `workspace_wallets` (`balance_credits`, `debit_failed_at`) and its `FOR UPDATE` lock |
| `alock`, `key`, `row` | the advisory lock of an admission, `client_request_id`, `runs.status` |
| `pc`, `gates` | the coroutine that acts for the run: first its request, then its executor |
| `hold`, `swept` | the open reservation (credits, or a legacy one in dollars), and one the sweep released |
| `settle` | the settlement a done-callback or a cancel has scheduled, or that failed |
| `writing`, `brain`, `worker`, `log` | cost records on their way, `cost_records`, JSONL ledger lines, `unified_metering_log` |
| `paid`, `call` | `wallet_transactions` (top-ups); metered MCP calls, with their reservations (`Lent`) |
| `spent`, `debited`, `debt`, `owed`, `late`, `drained` | history, for the properties only |

A transaction is one step unless another can get between its statements: an admission holds
its advisory lock from `CountInFlight` to `InsertRow`, a reservation holds the wallet row
from `ReadWallet` to `CommitHold`. A metered call (`draft_post`, `draft_outreach`) is checked
(`CheckCall`), reserves under the same lock (`ReserveCall`, `CommitCall`), and is settled against its
reservation once the model has answered (`SettleCall`); if that fails the wallet is marked
(`MarkCall`), and what it or a crash leaves open counts until the sweep (`SweepCall`). Every transaction may fail where the code catches it
(`RecordCost`, `SettleFails`, `MarkDebitFailed`), a kill (`Crash`) loses coroutines, locks and
scheduled settlements, a shutdown (`Drain`) cancels the executors, whose callbacks settle.
Abstracted: tokens and rates (a run spends whole credits), the monthly cap in dollars (a
choice), the content of a run. `CreditLedgerProofs` holds its theorems.

### Account and AccountRefinement — what the billing promises

`Account.tla` is a bank account without locks, coroutines, records or sweeps: `Reserve` takes
effect at once or not at all, `Charge` replaces a reservation by a bill, at most what the run
spent, and closes the run's account; a metered call reserves (`Lend`) and is billed once against
that (`Bill`), or not at all (`Return`); `Pay` is all else that moves the balance.
A run that a `shutdown` interrupted may be charged in parts. `AccountRefinement.tla` maps
`CreditLedger` to it: `balance` and `marked` are the wallet, `reserved` is `hold`, `charged` is
`debited`, `lent` the calls with an open reservation, a run is `closed` when nothing acts for it any more (`Closed`). `KeepsTheBooks` is the
refinement: `CommitHold` reserves although the balance it relies on was read before.

### WorkerSlots — the compute slots of one process

`inUse` is `_worker_in_use`, `asleep` who waits on the slot event, `loop` where `claim_loop`
is, `task` each executor task with its `_gtm_slot_held`/`_gtm_slot_released` marks and the
`was_held` of the gate's context manager. One asyncio loop: a step is the code between two
awaits, and every await may raise or be cancelled (`GateRaises`, `Cancel`, `LoopStops`). A
waiter that `Event.set` woke runs before anything a later timer starts (`LoopWakes`
requires `Awake = {}`). Runs resumed at boot own no slot, as in the code.
`WorkerSlotsProofs` holds its theorems.

### EventStream — what a client of a run hears

The events of one run. Any process may write and publish them, the one that executes the run
and the ones that serve a decision or a cancel (`Write`, `Publish`), each through a relay task of
its own (`RelayTake`, `RelayInsert`, `RelayCommit`, `RelayFails`, `RelayFans`). So ids are given in
the order of the INSERTs, commit in any order, and reach a stream in any order of the
processes. `log` holds what became of each: an INSERT still open, a row, no row although the
id was handed out (the COMMIT raised, which is caught with `seq` set), or no id at all. `wire` and
`alarm` are the broker; a client has a connection with queue, resync flag and watermark.
`_read_opening` is one transaction at read committed, so each of its SELECTs is a step:
`ReadRow`, `ReadHead`, then `Replay` or `Snapshot`.

`missed` is history: the four ways in which the code lets a client be passed over, so that the
properties can speak of everything else. *overflow*: a full queue lost an item (a frame, or the
poison of an earlier overflow). *overtaken*: something went by with a lower id still to come, or
a snapshot held less than its head. *broker*: the broker lost a message for the process, or its resync came
too late. *unlogged*: a replay went by an event that has no row. A snapshot that is up to date
clears them.

Abstracted: chunk and ping frames, retention of `run_events`; a write and its events are one
event each (`run_cancelling` and `done` follow one row write). A process that dies with events in its
relay is not modelled. `EventStreamProofs` holds its theorems.

### PackRunner — the graph of a pack and its manifest

`file` is the manifest on disk (absent, torn or whole), `inv[p]` an invocation of the command
line with its own copy of the manifest, `lock` the profile lock. A run is resumed
(`StartRun`), re-entered (`StartFromNode`, `--from-node`) or decided (`StartDecision`,
`--pack-gate`); `PipelineRunner.run` is `Acquire`, `StartBatch`, `EndTurn`, `EndBatch`,
`NothingToRun`, `OverBudget`, each with the write of the manifest that it contains. Reading
the file and taking the lock are separate steps where they are separate in the code.
Any node but an effect may pause, because the sentinel in the brain's answer is enough
(`pipeline_executor.py:384`); a gate never goes on without a pause. Invocations overlap freely.

`behind`, `blessed`, `stale` and `lost` are history. A copy is `stale` once somebody else wrote the
file, and `lost` becomes true when such a copy is written: from there on the file is not what its
last writers believe, and the properties end. That this happens is the disagreement of section 6;
everything up to that write, with any number of invocations inside each other, is covered.
`PackRunnerProofs` holds its theorems.

## 3. Runs

Every module has an MC module with the constants, symmetry set and constraints TLC needs.
Runs, incarnations, tasks, requests and drafts are interchangeable in `MCRunLifecycle`
(processes and tasks are never compared by name), batches and recipients in the ledgers,
runs and keys in `MCCreditLedger`. Liveness is checked without symmetry.

| Run | Instance | Shows |
|---|---|---|
| `restart` | 1 pack run, 2 gates whose opening may fail, 3 incarnations one at a time, 2 requests, 2 drafts | types; terminal statuses and rejects stick; one executor; the operator is shown what the waiter holds; the attempt bound; no send without an approval of that run; until the first restart the first gate acts on the approved bytes only, each gate once, none after a reject; `RunLifecycle` implements `GatedRun` |
| `live` | 1 pack run and 1 prompt run, 2 incarnations, stamps of ownership that may fail, 1 request that may never come | every run ends; a prompt run is executed once |
| `reconcile_live` (violation) | 2 replicas | a booting replica re-dispatches a run whose waiter is alive |
| `leftover` (violation) | 1 process, 2 gates, 1 request | the in-process copy of a decision answers the next gate |
| `intents` | 1 sequence, 2 recipients, 3 batches; backups, restores and reconciliations beside one recipient | file ledger: types; no double send; a recorded send stays recorded |
| `pg_race` (violation) | 1 recipient, 3 batches, 1 resolution | table store: a late outcome releases another batch's recipient |
| `credits` | 2 requests with one or two keys, 1 gate, 1 metered call, 1 top-up | reservations of runs and calls are covered, nobody pays more than it spent, recorded spend is debited before its reservation is closed, the ledger adds up, cap and key hold, a marked wallet reserves nothing; `CreditLedger` implements `Account` |
| `drained` (violation) | 1 run | a shutdown settles a run that the next process resumes and settles again |
| `slots` | 2 slots, 3 claimed runs and 1 resumed at boot | the counter is what tasks own; the compute cap; no lost wake-up; an approved run computes again |
| `stream` | 2 events, 2 processes that both write, 1 client, queue of 1, relay of 1, replay of 1 | a client knows all up to its resume point; ids increase; an open stream ends |
| `overflow` (violation) | 3 events, 1 process, 1 client, queue of 2 | a frame dropped from a full queue is never sent again |
| `pack` | {text, image} → check (gate) → post (effect), 2 invocations that overlap freely | until a stale copy is written: no half update; gates were approved; ok means complete; a resume keeps work; the runner returns |

*Bounds.* Two requests make every race between two operators (decide/decide,
decide/cancel). Two gates are the least number for a decision, or a waiter, to
leak from one gate into the next; three incarnations allow a crash during the
recovery from a crash; two drafts are enough for bytes to differ. The attempt
bound is 1 in `restart`, so that a second start would already break it, and 2
elsewhere, so that a retry happens. Openings of gates may fail in `restart` (`Failing = {1, 2}`),
stamps of ownership in `live` (`{0}`), where their consequence, a second coroutine, has to end
as well; the theorems cover every `Failing`. The last incarnation never crashes, because
the supervisor restarts what dies: the bound is the number of incarnations.
Three batches let a late event of the first meet the second and authorise the
third; two recipients make batches overlap in part and land in part; a restore
does not depend on a second recipient (`RestoresBesideOne`). Two runs are enough for two
reservations, admissions or settlements to meet, with a cap of one run in flight and a
balance that pays for one; a metered call and a top-up interact with the wallet only, so
they are explored beside one run (`OutsideOneRun`); a reservation may expire at any moment; after a
shutdown one of the two runs waits at gates (`OneGateAfterShutdown`). Two events of two processes
are the least for an id to overtake another; a queue of one and a relay of one overflow with them.
In `overflow` three events are the least number for a dropped frame, a delivered one and the end.
The invariants and `IdsIncrease` were also checked once, beyond the time of a run, with three events,
the end second, and a queue of two (16.3 million states). Three claimed runs compete for two slots with the claim loop
and a run that owns none. The graph has a fan-out, the gated join behind it and its effect, as the
packs end; two invocations make every race for the manifest.

*Why some properties belong to some deployments.* `OneExecutor` and
`ShownIsHeld` are checked with one replica at a time (`MaxUp = 1`) and leases
that expire only when nobody beats, and proved under the same assumptions (section 5). With
two replicas they fail, for the reason `reconcile_live` shows. They, and `CrashLoopBounded`, also speak
only of runs whose resumptions stamped their ownership (`Stamped`), and `ShownIsHeld` of gate rows
whose opening did not fail: beyond that they are false in the code (section 6). The bytes-level properties (`FirstGateAuthorised`, `SentOnce`,
`RejectedSentNothing`) are stated until the first restart, and for the first gate:
what happens beyond is in section 6. `EffectDecided`, `TerminalIsFinal`,
`RejectSticks`, `PromptExecutesOnce` and `KeepsThePromise` need neither assumption and are
proved without it.

Deadlock is checked in every passing run: each system may rest only in the states its `Rest`
describes (all runs ended, all clients told of the end), so a state where all wait for each
other would be reported; the ledgers and the pack are driven from outside. Only in `pg_race`, where every batch
may be used up, it is not checked.

## 4. Fairness

`EveryRunEnds` is checked under weak fairness of the coroutines, of
the claim loop, dispatch and reconciliation (event-loop tasks that are always
restarted or never blocked), of `Boot` (the container supervisor restarts the
process) and of lease expiry (time passes). `WaitTimeout` has strong fairness:
the waiter's loop reaches its deadline test once per tick, between which the
step is disabled, and after `GATE_TIMEOUT_S` the test succeeds.

`ApprovedResumes`: the event loop runs what is ready (`LoopStep`, `Sleep`), and a task's
work ends or reaches a gate (`TaskStep`). A waiter that loses the race for a free slot
sleeps again; that it wins at last follows, because runs are finitely many.

`StreamEnds`: some process goes on writing until the run has ended, every process publishes what it
owes (`Publishing`), its relay and the broker deliver what they hold (`Relaying`, `BrokerFrame`,
`BrokerResync`), a stream reads its queue (`LiveStep`), and the opening read, which is retried after each
failure, succeeds at last (strong fairness of `ReadRow`).

`RunnerReturns`: the process that holds the profile lock goes on; the client of the brain
bounds every turn, and no step of the runner waits for another process.

No fairness is assumed of operators, clients, crashes, failures or the heartbeat.

## 5. What is proved

About `RunLifecycle`, for all values of the constants, from `ParamsAssumption` alone:

* **TypeCorrect** (`TypeOK`). Not inductive as it stands; `TypeInv` adds what
  each program counter knows (`Proper`: a coroutine that holds a gate has read
  its manifest and the gate exists) and that a request under way has an address
  (`Addressed`). One lemma per action.
* **TerminalStands** (`TerminalIsFinal`). Each write of a run row is either the
  guarded `End`, or a write that keeps the status of an ended row; the lemma
  `NextRowKept` says so action by action, given `TypeInv`.
* **RejectStands** (`RejectSticks`). Same shape over `run_gates`: the claim sets
  `applied`, `RecordDecision` touches open rows only, and the upsert of
  `HoldOpen` leaves a claimable row alone (`CanClaim` covers every unapplied
  reject).
* **PromptStartsOnce** (`PromptExecutesOnce`). A prompt run may start only while
  some claim that found it queued is alive: in the hand of a claim loop or in a
  coroutine that has not passed `start_run`. `PromptInv` says there is at most
  one such licence, and none once the row has left `queued` in another way.
  Leases may expire under live owners; the theorem does not need them not to.
* **DecidedBeforeSent** (`EffectDecided`). `SaysInv` follows a decision through
  every place it can be: the request, the gate row, the in-process dict, the
  local of the coroutine. Each holds a decision made about that run, and only a
  consent reaches `DispatchGate2`.
* **BackendKeepsThePromise** (`KeepsThePromise`): the refinement. `RInv` joins `TypeInv` and
  `SaysInv` with two more facts: every gate that the manifest, or a coroutine's copy
  of it, counts as complete was acted on (`PassedInv`), and a request whose kind is a cancel, or
  that is past its check, has its address (`AskInv`). Then each action is shown to be
  `Allowed`: a `Move`, an `Ask`, an `Act`, an `End` of the abstract run, or a stutter.

With the hypothesis `OneProcess` (one process at a time, no stall past a lease, finitely many
incarnations; with two processes `reconcile_live` shows a run with two executors), and whatever openings and
stamps fail:

* **ExecutorIsAlone** (`OneExecutor`), **CrashLoopsEnd** (`CrashLoopBounded`) and
  **OperatorSeesWhatIsHeld** (`ShownIsHeld`), of every run none of whose resumptions failed to
  stamp its ownership, and rows whose opening did not fail. The invariants below say what they
  say of such runs only; a lapse is never taken back (`LapsesGrow`), and no step of a coroutine makes one of
  ownership (`TaskStamps`). `SoleInv`: a coroutine sits on the live process
  that holds its run and is done reconciling it, the lease in the row is that process's and
  fresh, and a claim in hand is the only thing done about its run. `StartInv`: starts never
  exceed the attempts in the row, and a coroutine before `start_run` has one left. `ShownInv`:
  the row's pending draft, and the gate row once it is open, hold the text the waiter holds.
* **FirstGateSendsWhatWasSeen** (`FirstGateAuthorised`), **GateSendsOnce** (`SentOnce`) and
  **RejectedRunsSendNothing** (`RejectedSentNothing`), until the first restart. They rest on
  `LifeInv`, whose part about the first life holds in the first life only, where nothing is
  resumed and so every run is stamped (`AllStamped`). It adds to the invariants above: a coroutine's copy of the manifest is the
  file (`CopyInv`); a rejected run has no executor, no claim and no reconciliation left
  (`OverInv`, in every life); and, in the first life (`FirstInv`): nothing is reconciled, and
  nothing at all happened before the first boot (`Unborn`); a run with an empty manifest
  that is on its way to its first gate was not decided by anybody (`Early`), so that all
  who decide once it is there saw the draft its waiter holds (`Looking`); and what was acted
  on is complete in the manifest, or is about to be completed by the coroutine at `flip`
  (`Acted`), once (`ActedOnce`). The steps of a coroutine are sorted into eight moves
  (`EveryMove`: it ends, prepares, parks, awaits, hears, obeys, sends, flips), all other
  steps are `Calm`. After a restart the first of the three is false (section 6).

About `FileIntents`, for all values of the constants, from `NoneAssumption` and
`RestoresAssumption`:

* **TypeCorrect** (`TypeOK`), inductive as it stands.
* **SentIsKept** (`SentStands`): every fold step that changes a state passes over
  recipients that are dispatched (`Own`, `Decide`), except a removal and a restore.
* **SendsOnce** (`NoDoubleSend`), under the hypothesis `Restores => OneScope`, which is
  needed (section 6). Call a send *outstanding* if it landed, is at the
  provider or may still leave, and nobody disowned it. The invariant `SendInv` says:
  the recipient of an outstanding send is blocked, or sending is on hold
  (`BlockedOrHeld`); at most one batch has an outstanding send to a recipient
  (`AtMostOne`, which implies `NoDoubleSend`); of the live dispatchers only the one
  whose send is outstanding, or a reconciliation, still owns its recipient, so a
  `failed` can release nothing that another batch reached (`Spoken`); while a
  reconciliation is at work everything outstanding is blocked again (`Recovered`);
  and a table of what each program counter knows of its batch (`Tracked`). Most
  actions are `Quiet`: they start no send, release no outstanding recipient and move
  neither owners nor the hold, and lemma `QuietKeeps` serves them all.

About `PgIntents`, for all values of the constants:

* **TypeCorrect**, and **ClaimsAreExclusive** (`ClaimsExclude`): of two claims between their
  statements none shares a recipient with the other, and what a claim inserts never replaces
  an open claim. Needs that a claim stays in one sequence, the one it locks.
* **SendsOnceButForOneRace** (`NoDoubleSend`), for the behaviours in which no answer of an
  operator is inserted between the two statements of a `record_outcome` about the same
  recipient (`ResolvesApart`). Without the hypothesis `pg_race` refutes it, so the theorem
  names the whole of what a lock in `record_outcome` and `resolve` would have to exclude:
  claims against outcomes, outcomes against each other, answers against claims and answers read
  long ago need none. The invariant is that of the file store (outstanding sends are
  blocked, at most one, and no live dispatcher speaks for another's recipient) with two
  facts for the gaps: what `record_outcome` read still holds when it inserts (`StillOwned`),
  and nothing is outstanding on what a claim is about to insert (`Vacant`). TLC agreed with it
  on 2 recipients, 3 batches and 2 answers, and on 1, 4 and 3, before it was proved.

About `WorkerSlots`, from `SlotsAssumption`: **TypeCorrect**, **SlotsNeverLeak**
(`SlotsAccounted`), **ComputeCapHolds** (`WorkBounded`) and **WakeupsAreNotLost**
(`NoLostWakeup`), for any number of runs and slots. `SlotsOf` is a table
of what each program counter owns; the counter is the number of owners and at most
`MaxSlots`; whoever sleeps found no free slot, and every release wakes all sleepers. The lemma
`OwnersChange` says what one task entering or leaving the owners does to their number.

About `PackRunner`, for every finite DAG and any number of invocations, from `GraphIsADag`,
`NodeKinds` and `OthersAreNone`, for any overlap of invocations and without a further hypothesis:
**TypeCorrect**, **NoHalfUpdates**, **GatesAreApproved**, **OkIsHonest** and **ResumeKeeps**. The
invariant says that, until a stale copy is written, the manifest on disk is *sound* (what it calls
complete has complete dependencies, is not behind, and was approved if it is a gate: `Good`), and
that a copy which is not stale agrees with the file and is sound too (`Current`, `Agrees`): the file plus the
re-entry or the decision it stands for. A resume takes its copy under
the lock, the others before it, so whoever writes outdates every other copy (`Others`), and after a
write at most one copy is current.

About `CreditLedger`, from `LedgerAssumption` (the constants are sets and naturals; the
opening balance may be any integer), for any number of runs, keys, gates, calls, payments
and any prices: **TypeCorrect** (`TypeOK`); **AdmissionCapHolds** (`CapHolds`) and
**KeyAdmitsOnce** (`OneRunPerKey`); **MarkReservesNothing** (`MarkedReservesNothing`);
**ReservationsAreCovered** (`HoldsCovered`), with the hypothesis `Opening >= 0`;
**ChargedOnce** (`UndrainedChargedAtMostSpent`) and **SpendIsDebited** (`SpendNeverVanishes`).
What makes them inductive is a table of who is where:

* `LockInv`: whoever is between two statements of a reservation, or of an admission, holds
  the row lock or the advisory lock, so there is at most one, and the wallet it read is
  still unmarked.
* `AdmitInv`: an admission that counted a free place still has it, because only the holder
  of the lock adds rows; a key that was looked up and not found is still absent.
* `HoldInv`: the balance, with `debt` (what debits took beyond their reservations) added
  back, covers what runs and calls have reserved, and one reservation more, of a run or of a call,
  while one is being made (`Spare`). A call between its two statements holds the wallet lock
  (`CallLocked`).
* `TrackInv`: unless a shutdown drained it, a run is settled only after its end, when no
  coroutine acts for it, and its debit, at most what it spent, closes its reservation.
* `PaidInv`: of a run whose spend is owed, a reservation that is closed was settled after
  the end, with no record left on its way except those set aside as `late`.

* `AgreeInv`: **BalanceIsExplained** (`BalanceExplained`): through every shutdown, the balance is
  the opening one, plus the payments, minus what runs were debited and the metered calls.
  **WalletEqualsLedger** (`LedgerAgrees`) follows: as long as no shutdown drained anything,
  the log of a run is what it was debited; a claim, which deletes it, finds a run that was
  never debited (`TrackInv`). The sum over runs is `SumFunction` of the community modules,
  which picks one element after the other; that such sums exist and change as their
  terms do (`PartSumsExist`, `SumChange`) is proved by induction over the subsets of a
  finite set, stated for a *set* of subsets (`AllSubsets`) instead of a predicate.
* **LedgerKeepsTheBooks** (`KeepsTheBooks`): the refinement of `Account`. It needs, of whoever
  read the wallet and has not yet inserted, that its run has no reservation (`Unreserved`) and
  that the wallet still affords one (`Promised`), for runs and for calls alike: the row lock keeps
  every debit and every other reservation out, and a sweep or a payment can only raise what is
  available. A closed run stays closed
  (`ClosedForGood`), and the bill of a run that no shutdown interrupted closes it, because it
  comes after the end (`TrackInv`). Each action is then a `Step` of the account (`StepBooks`).

About `EventStream`, from `StreamAssumption`, for any number of processes, clients and events and
any bounds of the queues: **TypeCorrect**, **ResumePoints** (`ResumePointCovers`) and
**StreamsIncrease** (`IdsIncrease`). The invariant has two halves. That of the pipeline says that events
are written before they are published, that every id on its way is one of the log, and that
an INSERT that is still open is in the hands of its relay. That of the clients says of each one that is not in
`missed`: it knows every event up to the id it resumes from, and, unless a resync is pending that will
replace all it was told, it knows every event of the log, or the frame is on its way to it
(`Comes`), or the read under way will tell it (`WillTell`); its watermark is 0 or its resume point
(`FlowInv`, `CursorInv`). Without `FlowInv` the first is not inductive: a frame moves the resume point past all
smaller ids. With several publishers no queue is in the order of the ids, so none is claimed: an id that goes by
a lower one puts the client into `missed` at that step, and not before.

Only model-checked: the liveness properties (`EveryRunEnds`, `ApprovedResumes`, `StreamEnds`,
`RunnerReturns`: temporal reasoning under fairness is outside what the back ends of the proof
system do). Every invariant and every action property that a passing run checks is a
theorem, and so are both refinements.

## 6. Disagreements with the documentation

The violation runs are the places where a comment promises more than the
code does; `PROJECT.json` quotes each.

* `reconcile_live`: the advisory lock serialises reconciliations but does not keep a booting
  replica away from a run another replica serves (`main.py:313`).
* `leftover`: a decision stored in the process while an approved waiter waits for a slot
  is consumed by the next gate of the run, over bytes nobody approved (`lifecycle.py:181`).
* `pg_race`: the table store of the dispatch intents decides what a late outcome may touch
  before it inserts it, so it can release a recipient that another batch has just
  reached, which the file store cannot (`services/dispatch_intents.py:243`).
* `drained`: a shutdown settles a run that is not over; its next settlement sums
  the whole run again (`budget.py:216`).
* `overflow`: a full queue drops its oldest frame, delivers the newer ones and then closes;
  the client resumes after the dropped frame (`events.py:129`).

More of the same kind, seen in TLC when a stronger property or a weaker assumption was
tried; no run keeps them:

* `EffectAuthorised` also fails across a restart: `_open_gate_row` overwrites the draft of an
  open gate, and the hash of what the operator saw is compared at the time of reading only
  (`decisions.py:197`, `gates.py:138`).
* `DecisionBeatsDeadline` fails: the deadline is tested before the row is claimed, so a
  decision recorded in the last tick is dropped (`lifecycle.py:319` and 342).
* `NoDoubleSend` fails for two sequences: the hold after a restore is lifted for all by the
  reconciliation of one (`dispatch_intents_cli.py:131`), hence the hypothesis of `SendsOnce`.
* `LastSpendLands` fails: a cost record is written by a task nobody awaits
  (`session.py:509`), which may land after the settlement that should include it
  (`decisions.py:91`). `SpendNeverVanishes` sets these runs aside (`late`).
* The snapshot of a stream may contain less than its head: the row is read before the head
  (`stream.py:98`), against `stream.py:65`; and `max(id)` may pass a lower id whose transaction is not
  committed yet. `ResumePointCovers` sets both aside (`overtaken`).
* Ids do not reach a stream in order when two processes publish (`decisions.py:101` and 240 beside the
  executor's events), and `_live_frames` drops what comes below its watermark (`stream.py:337`) as
  "already folded into the snapshot or the replay". A `done` that is overtaken is dropped, and the stream
  pings for ever. The same aside.
* A COMMIT that raises leaves `seq` set (`events.py:258`), so the frame is fanned out with an id that may
  not be in `run_events`, against `events.py:251`: "one no `?since=` resume can ever replay" (`unlogged`).
* `OneExecutor` and `CrashLoopBounded` fail without `Stamped`: a failed stamp of ownership is logged and
  the resumed waiter starts, so the reclaim runs the same run again in the same process, which is what
  `reconcile.py:200` says the stamp prevents and `reconcile.py:213` calls "idempotent enough".
* `ShownIsHeld` fails when the opening of a gate row fails (`gates.py:112`): the row of an earlier life
  stays open over other bytes. A decision recorded on it cannot be claimed by the waiter, whose bytes
  differ; the copy in the memory of the process that holds the waiter answers it over bytes the
  operator did not see, or, if another process recorded it, only the deadline ends the wait.
* The properties of `PackRunner` fail once a copy older than the file is written (`lost`): `--from-node`
  (`agent/__main__.py:355`) and `--pack-gate` (494, 544) read and write the manifest outside the profile
  lock that `pipeline.py:20` and `pipeline.py:266` say guards it.

Observed while modelling, with no promise to hold them against: two overlapping resumes of
a run both run a gated node, the second discards the first one's draft (`run_ids.py:28`); a manifest is
rewritten in place, so a death inside the write leaves a torn file, which is read
as no file (`ledgers.py:400`); a death between a gate's dispatch and the write of the manifest
leaves a gate that a second approval dispatches again or, with its draft gone, cannot approve; re-entering a run at an
effect node skips the node and reports ok; an edit that loses against a cancel still writes
`pending_content` of the ended run (`lifecycle.py:133`).

## 7. Plan, and what is not modelled

The plan of the first version is done but for its last item: `RunLifecycle` with its
abstract specification, the dispatch intents in both stores, `PackRunner`, `CreditLedger`
with admission, `EventStream`, `WorkerSlots`. What would come next:

1. `run_lock.py` and the circuit breaker, `cancel_workspace_runs`, the cockpit's gates and
   queue.
2. The opt-out sweep with its at-least-once inputs.
3. An abstract specification for `EventStream` (a log with cursors) that it implements; the
   table store with a lock in `record_outcome` and `resolve`, once the code has one.

Not modelled because nothing there interleaves: sessions, auth and keys (single statements
on rows of their own), provisioning and onboarding (checklists driven by one operator),
agent tools and permissions (decision functions), the MCP tools themselves.
Not modelled because there is no state: content checks, linters and renderers (pure functions over text and
images run by one process), the packs and skills (data), clients of outside
services (behaviour is the service's), deployment scripts. These are most of the
repository's lines: the map covers the few thousand lines where processes, crashes, money
and operators meet.
