----------------------------- MODULE CreditLedger -----------------------------
(***************************************************************************)
(* Credits of one workspace: the admission of runs (the in-flight cap, the *)
(* idempotency key), the wallet row with its row lock, the reservations of *)
(* runs, their settlement when an executor task ends, the sweep of stale   *)
(* reservations, the metered MCP calls and the top-ups.                    *)
(*                                                                         *)
(* A transaction is one step unless another one can run between its        *)
(* statements: the admission holds its advisory lock from the count to the *)
(* commit, a reservation holds the wallet row from the read to the commit. *)
(***************************************************************************)
EXTENDS Integers, FiniteSets, Functions

CONSTANTS
    Runs,      \* run ids, each minted for one request
    Keys,      \* client_request_ids
    Calls,     \* metered MCP tool calls, made once
    Payments,  \* top-ups, each delivered any number of times
    None,
    Estimate,  \* RESERVATION_ESTIMATE_CREDITS
    CallEstimate,  \* what a metered call reserves, and what it costs
    CallPrice,
    Deposit,   \* credits of a top-up
    Opening,   \* balance of the wallet at the start
    MaxRuns,   \* _MAX_CONCURRENT_RUNS_PER_WORKSPACE
    NGates,    \* gates a run waits at
    MaxSpend,  \* bound: credits one run spends
    Enabled    \* values COST_RESERVATION_ENABLED takes (each process reads its own)

ASSUME LedgerAssumption ==
    /\ IsFiniteSet(Runs) /\ IsFiniteSet(Calls)
    /\ {Estimate, CallEstimate, CallPrice, Deposit, MaxRuns, NGates, MaxSpend} \subseteq Nat
    /\ Opening \in Int
    /\ Enabled \subseteq BOOLEAN
    /\ None \notin Runs \cup Calls
    /\ Runs \cap Calls = {}

VARIABLES
    wallet,   \* workspace_wallets: balance_credits, debit_failed_at
    wlock,    \* whose reservation holds the row lock of the wallet
    alock,    \* whose admission holds the advisory lock of the workspace
    key,      \* client_request_id of the request that minted a run
    pc,       \* the coroutine that acts for a run: its request, then its executor
    row,      \* runs.status
    gates,    \* how many gates the run has waited at
    hold,     \* the open reservation of a run, in credits or (legacy) in dollars
    swept,    \* has the run a reservation that the sweep released
    settle,   \* the settlement of a run: none, due, or failed and not yet marked
    writing,  \* cost records of the run that a fire-and-forget task is writing
    brain,    \* cost_records of the run
    worker,   \* the run's lines in the JSONL ledgers
    log,      \* unified_metering_log rows of the run
    paid,     \* wallet_transactions
    call,     \* a metered call and its reservation
    spent,    \* history: what each run has spent
    debited,  \* history: what each run was debited
    debt,     \* history: what debits took beyond their reservations
    owed,     \* history: the runs that reserved and were never swept or drained
    late,     \* history: the runs settled before their last cost record was written
    drained   \* history: the runs whose task a shutdown cancelled

runVars  == <<pc, row, gates>>
bookVars == <<writing, brain, worker, log>>
extVars  == <<paid, call>>
histVars == <<spent, debited, debt, owed, late, drained>>
vars == <<wallet, wlock, alock, key, runVars, hold, swept, settle, bookVars, extVars, histVars>>

-----------------------------------------------------------------------------
Requesting == {"new", "checked", "counted", "mcp"}
Executing  == {"ask", "credits", "usd", "work", "gate"}

Zero == [r \in Runs |-> 0]

Init ==
    /\ wallet = [balance |-> Opening, marked |-> FALSE]
    /\ wlock = None
    /\ alock = None
    /\ key \in [Runs -> Keys]
    /\ pc = [r \in Runs |-> "new"]
    /\ row = [r \in Runs |-> "none"]
    /\ gates = Zero
    /\ hold = [r \in Runs |-> "none"]
    /\ swept = [r \in Runs |-> FALSE]
    /\ settle = [r \in Runs |-> "no"]
    /\ writing = Zero
    /\ brain = Zero
    /\ worker = Zero
    /\ log = Zero
    /\ paid = {}
    /\ call = [c \in Calls |-> "idle"]
    /\ spent = Zero
    /\ debited = Zero
    /\ debt = 0
    /\ owed = {}
    /\ late = {}
    /\ drained = {}

Become(r, p) == pc' = [pc EXCEPT ![r] = p]
Ended(r)     == row[r] = "ended"
InFlight     == {r \in Runs : row[r] \in {"queued", "running"}}
Existing(r)  == {s \in Runs : row[s] # "none" /\ key[s] = key[r]}

\* The open reservations in credits; a legacy reservation holds dollars only.
Held == {r \in Runs : hold[r] = "credits"}
Lent == {c \in Calls : call[c] \in {"running", "failed", "left"}}

Reserved == Estimate * Cardinality(Held) + CallEstimate * Cardinality(Lent)

\* reserve_credits: what the balance leaves over the open reservations.
Affords(estimate) ==
    /\ wallet.balance > Reserved
    /\ wallet.balance - Reserved >= estimate

\* Fault: a balance row that is read without FOR UPDATE excludes nobody.
WalletNeverLocked == TRUE

WalletFree == wlock = None

-----------------------------------------------------------------------------
(* Admission: POST /v1/runs, and dispatch_task of the MCP server.          *)

\* find_existing_run_id answers a replay; else `admits` reads the cap and the marker,
\* and holds nothing.
CheckBudget(r) ==
    /\ pc[r] = "new"
    /\ \/ Become(r, "idle")
       \/ Existing(r) = {} /\ ~wallet.marked /\ Become(r, "checked")
    /\ UNCHANGED <<key, wallet, wlock, alock, row, gates, hold, swept, settle, bookVars, extVars, histVars>>

\* Fault: the runs in flight are counted without the advisory lock.
CountUnlocked(r) ==
    /\ pc[r] = "checked"
    /\ IF Cardinality(InFlight) >= MaxRuns THEN Become(r, "idle") ELSE Become(r, "counted")
    /\ UNCHANGED <<key, wallet, wlock, alock, row, gates, hold, swept, settle, bookVars, extVars, histVars>>

\* _reserve_cap: the advisory lock, then the count.
CountInFlight(r) ==
    /\ pc[r] = "checked"
    /\ alock = None
    /\ IF Cardinality(InFlight) >= MaxRuns
       THEN Become(r, "idle") /\ UNCHANGED alock
       ELSE Become(r, "counted") /\ alock' = r
    /\ UNCHANGED <<key, wallet, wlock, row, gates, hold, swept, settle, bookVars, extVars, histVars>>

\* Fault: a plain INSERT, without the unique key of the request.
InsertAlways(r) ==
    /\ pc[r] = "counted"
    /\ Become(r, "idle")
    /\ row' = [row EXCEPT ![r] = "queued"]
    /\ alock' = None
    /\ UNCHANGED <<key, wallet, wlock, gates, hold, swept, settle, bookVars, extVars, histVars>>

\* insert_run_row: a conflict on the key answers with the row that exists.
InsertRow(r) ==
    /\ pc[r] = "counted"
    /\ Become(r, "idle")
    /\ row' = IF Existing(r) = {} THEN [row EXCEPT ![r] = "queued"] ELSE row
    /\ alock' = None
    /\ UNCHANGED <<key, wallet, wlock, gates, hold, swept, settle, bookVars, extVars, histVars>>

\* dispatch_task: the row and its reservation are one transaction, which a refused
\* reservation rolls back.
InsertReserving(r) ==
    /\ pc[r] = "counted"
    /\ Existing(r) = {}
    /\ WalletFree
    /\ IF Affords(Estimate) /\ ~wallet.marked
       THEN Become(r, "mcp") /\ wlock' = r /\ UNCHANGED alock
       ELSE Become(r, "idle") /\ alock' = None /\ UNCHANGED wlock
    /\ UNCHANGED <<key, wallet, row, gates, hold, swept, settle, bookVars, extVars, histVars>>

CommitReserved(r) ==
    /\ pc[r] = "mcp"
    /\ Become(r, "idle")
    /\ row' = [row EXCEPT ![r] = "queued"]
    /\ hold' = [hold EXCEPT ![r] = "credits"]
    /\ wlock' = None
    /\ alock' = None
    /\ owed' = owed \cup {r}
    /\ UNCHANGED <<key, wallet, gates, swept, settle, bookVars, extVars, spent, debited, debt, late, drained>>

-----------------------------------------------------------------------------
(* The executor of a run, as far as it touches credits.                    *)

\* The task ends: the done-callback of _track_run schedules the settlement.
Leave(r) == Become(r, "idle") /\ settle' = [settle EXCEPT ![r] = "due"]

End(r) == row' = [row EXCEPT ![r] = "ended"]

\* claim_next_run, of a queued run or of one whose executor died: every claim deletes the
\* cost records and the metering log rows of the run. dispatch_claimed then refuses the
\* claim and settles it, or creates the task.
Claim(r) ==
    /\ pc[r] = "idle"
    /\ row[r] \in {"queued", "running", "gated"}
    /\ brain' = [brain EXCEPT ![r] = 0]
    /\ log' = [log EXCEPT ![r] = 0]
    /\ \/ End(r) /\ Leave(r)
       \/ /\ row' = [row EXCEPT ![r] = IF @ = "queued" THEN "running" ELSE @]
          /\ Become(r, IF row[r] = "gated" THEN "gate" ELSE "ask")
          /\ UNCHANGED settle
    /\ UNCHANGED <<key, wallet, wlock, alock, gates, hold, swept, writing, worker, extVars, histVars>>

\* reconcile_gates takes over a gated run whose executor died, without a claim.
Reconcile(r) ==
    /\ pc[r] = "idle"
    /\ row[r] = "gated"
    /\ \/ End(r) /\ Leave(r)
       \/ Become(r, "gate") /\ UNCHANGED <<row, settle>>
    /\ UNCHANGED <<key, wallet, wlock, alock, gates, hold, swept, bookVars, extVars, histVars>>

\* start_run ends the task of a run that has ended; resume_run writes nothing, and the
\* executor goes on until it notices.
Start(r) ==
    \/ Ended(r) /\ Leave(r) /\ UNCHANGED row
    \/ Ended(r) /\ gates[r] > 0 /\ Become(r, "work") /\ UNCHANGED <<row, settle>>
    \/ /\ ~Ended(r)
       /\ Become(r, "work")
       /\ row' = [row EXCEPT ![r] = "running"]
       /\ UNCHANGED settle

\* _reserve_or_deny without a reservation to make: the flag is off, or the run's open
\* reservation is adopted. The cap (abstracted) and the marker are read again.
Recheck(r) ==
    /\ pc[r] = "ask"
    /\ hold[r] # "none" \/ FALSE \in Enabled
    /\ \/ End(r) /\ Leave(r)
       \/ ~wallet.marked /\ Start(r)
    /\ UNCHANGED <<key, wallet, wlock, alock, gates, hold, swept, bookVars, extVars, histVars>>

\* _reserve_or_deny that reserves: the wallet row is locked and read; if the credits do
\* not suffice, areserve_budget may admit the run against the monthly cap.
ReadWallet(r) ==
    /\ pc[r] = "ask"
    /\ hold[r] = "none" /\ TRUE \in Enabled
    /\ WalletFree
    /\ \/ ~wallet.marked /\ Affords(Estimate) /\ Become(r, "credits") /\ wlock' = r /\ UNCHANGED <<row, settle>>
       \/ ~wallet.marked /\ ~Affords(Estimate) /\ Become(r, "usd") /\ wlock' = r /\ UNCHANGED <<row, settle>>
       \/ (wallet.marked \/ ~Affords(Estimate)) /\ End(r) /\ Leave(r) /\ UNCHANGED wlock
    /\ UNCHANGED <<key, wallet, alock, gates, hold, swept, bookVars, extVars, histVars>>

CommitHold(r) ==
    /\ pc[r] \in {"credits", "usd"}
    /\ hold' = [hold EXCEPT ![r] = pc[r]]
    /\ wlock' = None
    /\ owed' = IF swept[r] \/ r \in drained THEN owed ELSE owed \cup {r}
    /\ Start(r)
    /\ UNCHANGED <<key, wallet, alock, gates, swept, bookVars, extVars, spent, debited, debt, late, drained>>

\* A model call of the executor is recorded in Postgres by a task nobody awaits, one of a
\* worker in the JSONL at once.
Spend(r) ==
    /\ pc[r] = "work"
    /\ spent[r] < MaxSpend
    /\ \/ writing' = [writing EXCEPT ![r] = @ + 1] /\ UNCHANGED worker
       \/ worker' = [worker EXCEPT ![r] = @ + 1] /\ UNCHANGED writing
    /\ spent' = [spent EXCEPT ![r] = @ + 1]
    /\ UNCHANGED <<key, wallet, wlock, alock, runVars, hold, swept, settle, brain, log, extVars, debited, debt, owed, late, drained>>

\* The write lands, or fails: a metering failure never fails the run.
RecordCost(r) ==
    /\ writing[r] > 0
    /\ writing' = [writing EXCEPT ![r] = @ - 1]
    /\ \E n \in {0, 1} : brain' = [brain EXCEPT ![r] = @ + n]
    /\ UNCHANGED <<key, wallet, wlock, alock, runVars, hold, swept, settle, worker, log, extVars, histVars>>

\* hold_gate: the run waits for a decision.
Park(r) ==
    /\ pc[r] = "work"
    /\ gates[r] < NGates
    /\ IF Ended(r) THEN Leave(r) /\ UNCHANGED <<row, gates>>
       ELSE /\ Become(r, "gate")
            /\ row' = [row EXCEPT ![r] = "gated"]
            /\ gates' = [gates EXCEPT ![r] = @ + 1]
            /\ UNCHANGED settle
    /\ UNCHANGED <<key, wallet, wlock, alock, hold, swept, bookVars, extVars, histVars>>

\* An approval; or a reject, a timeout or a cancel, which end the task.
Resolve(r) ==
    /\ pc[r] = "gate"
    /\ \/ ~Ended(r) /\ Become(r, "ask") /\ UNCHANGED <<row, settle>>
       \/ End(r) /\ Leave(r)
    /\ UNCHANGED <<key, wallet, wlock, alock, gates, hold, swept, bookVars, extVars, histVars>>

\* complete_run, _fail_run, or a cancelled run whose task has noticed.
Finish(r) ==
    /\ pc[r] = "work"
    /\ End(r)
    /\ Leave(r)
    /\ UNCHANGED <<key, wallet, wlock, alock, gates, hold, swept, bookVars, extVars, histVars>>

\* Fault: a cancel settles a run whose executor is still at work.
CancelSettles(r) ==
    /\ row[r] \in {"queued", "running", "gated"}
    /\ End(r)
    /\ settle' = [settle EXCEPT ![r] = "due"]
    /\ UNCHANGED <<key, wallet, wlock, alock, pc, gates, hold, swept, bookVars, extVars, histVars>>

\* cancel: a queued run has no task, so the request settles it.
Cancel(r) ==
    /\ row[r] \in {"queued", "running", "gated"}
    /\ End(r)
    /\ settle' = IF row[r] = "queued" THEN [settle EXCEPT ![r] = "due"] ELSE settle
    /\ UNCHANGED <<key, wallet, wlock, alock, pc, gates, hold, swept, bookVars, extVars, histVars>>

-----------------------------------------------------------------------------
(* Settlement, and the sweep of stale reservations.                        *)

\* Fault: the JSONL ledgers are summed over all runs of the workspace.
DueAll(r) == brain[r] + SumFunction(worker)

Due(r) == brain[r] + worker[r]
Covered(r) == IF hold[r] = "credits" THEN Estimate ELSE 0
\* Fault: what a reservation leaves over is subtracted.
ExcessSigned(amount, r) == amount - Covered(r)

Excess(amount, r) == IF amount > Covered(r) THEN amount - Covered(r) ELSE 0

\* Fault: the debit is clamped to what was reserved.
DebitClamped(r, amount) ==
    LET taken == amount - Excess(amount, r) IN
    /\ wallet' = [wallet EXCEPT !.balance = @ - taken]
    /\ log' = [log EXCEPT ![r] = @ + amount]
    /\ debited' = [debited EXCEPT ![r] = @ + taken]
    /\ debt' = debt

\* settle_credits: the unclamped debit and its log row.
Debit(r, amount) ==
    /\ wallet' = [wallet EXCEPT !.balance = @ - amount]
    /\ log' = [log EXCEPT ![r] = @ + amount]
    /\ debited' = [debited EXCEPT ![r] = @ + amount]
    /\ debt' = debt + Excess(amount, r)

\* _settle_run_reservations: every reservation of the run that is not settled is closed.
\* The first one (in no particular order) is debited the whole of what the run owes,
\* unless that one had been released: then nothing is debited.
SettleRun(r) ==
    /\ settle[r] = "due"
    /\ settle' = [settle EXCEPT ![r] = "no"]
    /\ IF hold[r] = "none"
       THEN UNCHANGED <<wallet, log, debited, debt>>
       ELSE \/ WalletFree /\ Debit(r, Due(r))
            \/ swept[r] /\ UNCHANGED <<wallet, log, debited, debt>>
    /\ hold' = [hold EXCEPT ![r] = "none"]
    /\ swept' = [swept EXCEPT ![r] = FALSE]
    /\ late' = IF writing[r] > 0 THEN late \cup {r} ELSE late
    /\ UNCHANGED <<key, wlock, alock, runVars, writing, brain, worker, extVars, spent, owed, drained>>

\* The transaction fails and rolls back. If it had seen a reservation, the failure is to be
\* marked; if the first read failed, nothing is known to be owed.
SettleFails(r) ==
    /\ settle[r] = "due"
    /\ hold[r] # "none" \/ swept[r]
    /\ \E after \in {"failed", "no"} : settle' = [settle EXCEPT ![r] = after]
    /\ UNCHANGED <<key, wallet, wlock, alock, runVars, hold, swept, bookVars, extVars, histVars>>

\* Fault: the marker does not wait for the lock of the wallet row.
MarkUnlocked(r) ==
    /\ settle[r] = "failed"
    /\ settle' = [settle EXCEPT ![r] = "no"]
    /\ wallet' = [wallet EXCEPT !.marked = TRUE]
    /\ UNCHANGED <<key, wlock, alock, runVars, hold, swept, bookVars, extVars, histVars>>

\* mark_debit_failed, in a transaction of its own, which may fail as well.
MarkDebitFailed(r) ==
    /\ settle[r] = "failed"
    /\ settle' = [settle EXCEPT ![r] = "no"]
    /\ \/ WalletFree /\ wallet' = [wallet EXCEPT !.marked = TRUE]
       \/ UNCHANGED wallet
    /\ UNCHANGED <<key, wlock, alock, runVars, hold, swept, bookVars, extVars, histVars>>

\* release_stale_reservations. RESERVATION_TTL_SECONDS (25 h) run from the reservation, which
\* an admission may make: they may pass in the queue, at work or at a gate.
Sweep(r) ==
    /\ hold[r] # "none"
    /\ hold' = [hold EXCEPT ![r] = "none"]
    /\ swept' = [swept EXCEPT ![r] = TRUE]
    /\ owed' = owed \ {r}
    /\ UNCHANGED <<key, wallet, wlock, alock, runVars, settle, bookVars, extVars, spent, debited, debt, late, drained>>

-----------------------------------------------------------------------------
(* Metered MCP calls, top-ups, and the death of the process.               *)

Calling(c, p) == call' = [call EXCEPT ![c] = p]

\* check_budget of the MCP server: a positive balance, or a subscription under its cap.
CheckCall(c) ==
    /\ call[c] = "idle"
    /\ \/ ~wallet.marked /\ Calling(c, "checked")
       \/ Calling(c, "over")
    /\ UNCHANGED <<key, wallet, wlock, alock, runVars, hold, swept, settle, bookVars, paid, histVars>>

\* reserve_credits of a drafting tool: the wallet row is locked and read. Without the
\* credits, or with a marked wallet, or when a statement fails, the call is refused.
ReserveCall(c) ==
    /\ call[c] = "checked"
    /\ \/ /\ WalletFree /\ ~wallet.marked /\ Affords(CallEstimate)
          /\ Calling(c, "reserving")
          /\ wlock' = c
       \/ Calling(c, "over") /\ UNCHANGED wlock
    /\ UNCHANGED <<key, wallet, alock, runVars, hold, swept, settle, bookVars, paid, histVars>>

CommitCall(c) ==
    /\ call[c] = "reserving"
    /\ Calling(c, "running")
    /\ wlock' = None
    /\ UNCHANGED <<key, wallet, alock, runVars, hold, swept, settle, bookVars, paid, histVars>>

\* Fault: the call is debited, and its reservation stays open.
SettleCallOnly(c) ==
    /\ call[c] = "running"
    /\ WalletFree
    /\ Calling(c, "left")
    /\ wallet' = [wallet EXCEPT !.balance = @ - CallPrice]
    /\ UNCHANGED <<debt, key, wlock, alock, runVars, hold, swept, settle, bookVars, paid, spent, debited, owed, late, drained>>

\* debit_or_mark once the tool has run, in its finally: the reservation is closed and the
\* debit unclamped. A model call that raised costs nothing. Or the transaction fails.
SettleCall(c) ==
    /\ call[c] = "running"
    /\ \/ /\ WalletFree
          /\ Calling(c, "debited")
          /\ wallet' = [wallet EXCEPT !.balance = @ - CallPrice]
          /\ debt' = debt + IF CallPrice > CallEstimate THEN CallPrice - CallEstimate ELSE 0
       \/ WalletFree /\ Calling(c, "over") /\ UNCHANGED <<wallet, debt>>
       \/ Calling(c, "failed") /\ UNCHANGED <<wallet, debt>>
    /\ UNCHANGED <<key, wlock, alock, runVars, hold, swept, settle, bookVars, paid, spent, debited, owed, late, drained>>

\* mark_debit_failed, in a transaction of its own, which may fail as well. The reservation
\* is left to the sweep.
MarkCall(c) ==
    /\ call[c] = "failed"
    /\ Calling(c, "left")
    /\ \/ WalletFree /\ wallet' = [wallet EXCEPT !.marked = TRUE]
       \/ UNCHANGED wallet
    /\ UNCHANGED <<key, wlock, alock, runVars, hold, swept, settle, bookVars, paid, histVars>>

\* release_stale_reservations: a call takes seconds, so the sweep finds only what was left.
SweepCall(c) ==
    /\ call[c] = "left"
    /\ Calling(c, "over")
    /\ UNCHANGED <<key, wallet, wlock, alock, runVars, hold, swept, settle, bookVars, paid, histVars>>

\* apply_wallet_top_up: the wallet_transactions row admits a payment once.
TopUp(p) ==
    /\ p \notin paid
    /\ WalletFree
    /\ paid' = paid \cup {p}
    /\ wallet' = [wallet EXCEPT !.balance = @ + Deposit]
    /\ UNCHANGED <<key, wlock, alock, runVars, hold, swept, settle, bookVars, call, histVars>>

\* A kill: coroutines, locks, scheduled settlements and calls under way are gone.
Crash ==
    /\ pc' = [r \in Runs |-> IF pc[r] = "new" THEN "new" ELSE "idle"]
    /\ wlock' = None
    /\ alock' = None
    /\ settle' = [r \in Runs |-> "no"]
    /\ writing' = Zero
    /\ call' = [c \in Calls |->
          CASE call[c] \in {"checked", "reserving"} -> "over"
            [] call[c] \in {"running", "failed"} -> "left"
            [] OTHER -> call[c]]
    /\ UNCHANGED <<key, wallet, row, gates, hold, swept, brain, worker, log, paid, histVars>>

\* drain_background_tasks: a shutdown cancels the tasks, whose done-callbacks settle runs
\* that the next process resumes. (Bound: one such shutdown.)
Drain ==
    /\ drained = {}
    /\ pc' = [r \in Runs |-> IF pc[r] \in Executing THEN "idle" ELSE pc[r]]
    /\ settle' = [r \in Runs |-> IF pc[r] \in Executing THEN "due" ELSE settle[r]]
    /\ wlock' = IF wlock \in {r \in Runs : pc[r] \in Executing} THEN None ELSE wlock
    /\ drained' = drained \cup {r \in Runs : pc[r] \in Executing}
    /\ owed' = owed \ {r \in Runs : pc[r] \in Executing}
    /\ UNCHANGED <<key, wallet, alock, row, gates, hold, swept, bookVars, extVars, spent, debited, debt, late>>

-----------------------------------------------------------------------------
Admission(r) ==
    \/ CheckBudget(r) \/ CountInFlight(r) \/ InsertRow(r) \/ InsertReserving(r)
    \/ CommitReserved(r)

Execution(r) ==
    \/ Claim(r) \/ Reconcile(r) \/ Recheck(r) \/ ReadWallet(r) \/ CommitHold(r)
    \/ Spend(r) \/ RecordCost(r) \/ Park(r) \/ Resolve(r) \/ Finish(r) \/ Cancel(r)

Settlement(r) == SettleRun(r) \/ SettleFails(r) \/ MarkDebitFailed(r) \/ Sweep(r)

Metered(c) ==
    \/ CheckCall(c) \/ ReserveCall(c) \/ CommitCall(c) \/ SettleCall(c) \/ MarkCall(c)
    \/ SweepCall(c)

Next ==
    \/ \E r \in Runs : Admission(r) \/ Execution(r) \/ Settlement(r)
    \/ \E c \in Calls : Metered(c)
    \/ \E p \in Payments : TopUp(p)
    \/ Crash
    \/ Drain

Spec == Init /\ [][Next]_vars

-----------------------------------------------------------------------------
(* Properties.                                                             *)

\* Every row, lock and coroutine has the shape its code gives it.
TypeOK ==
    /\ wallet \in [balance: Int, marked: BOOLEAN]
    /\ wlock \in Runs \cup Calls \cup {None}
    /\ alock \in Runs \cup {None}
    /\ key \in [Runs -> Keys]
    /\ pc \in [Runs -> Requesting \cup Executing \cup {"idle"}]
    /\ row \in [Runs -> {"none", "queued", "running", "gated", "ended"}]
    /\ gates \in [Runs -> Nat]
    /\ hold \in [Runs -> {"none", "credits", "usd"}]
    /\ swept \in [Runs -> BOOLEAN]
    /\ settle \in [Runs -> {"no", "due", "failed"}]
    /\ {writing, brain, worker, log, spent, debited} \subseteq [Runs -> Nat]
    /\ paid \subseteq Payments
    /\ call \in [Calls -> {"idle", "checked", "reserving", "running", "failed", "left", "debited", "over"}]
    /\ debt \in Nat
    /\ {owed, late, drained} \subseteq SUBSET Runs

\* "so N queued runs could each pass admits (a read) and the wallet would be spent N times
\* over" (tasks.py:340): whatever runs and metered calls reserve, spend, gate and settle at
\* the same time, the balance covers all open reservations, but for what a run or a call
\* cost beyond its reservation.
HoldsCovered ==
    wallet.balance + debt >= Reserved

\* "claim_next_run double-billing prevention" (V040): no run is charged more than it spent,
\* whatever crashes, claims, sweeps and shutdowns it goes through.
ChargedAtMostSpent ==
    \A r \in Runs : debited[r] <= spent[r]

\* The same for the runs whose task no shutdown cancelled.
UndrainedChargedAtMostSpent ==
    \A r \in Runs \ drained : debited[r] <= spent[r]

Closed(r) == Ended(r) /\ pc[r] = "idle" /\ settle[r] = "no" /\ hold[r] = "none"

\* "a reservation can never leak" (budget.py:118): once the reservation of an ended run is
\* closed, and no settlement is due, its recorded spend was debited (a settlement that
\* fails leaves the reservation open, and the wallet marked unless the mark fails too). Set
\* aside are runs whose reservation a sweep released (after a kill, or a day in the queue),
\* that a shutdown settled before their end, or a record of which was still being written.
SpendNeverVanishes ==
    \A r \in owed \ late : Closed(r) => debited[r] >= Due(r)

\* "settled by its own task's done-callback, AFTER its last spend lands" (decisions.py:91).
LastSpendLands ==
    \A r \in owed : Closed(r) => debited[r] >= Due(r)

\* "the wallet and the ledger never disagree" (metering.py:952): the balance is what the
\* wallet transactions and the metering log add up to. (A claim deletes log rows: of a run
\* that was settled when a shutdown cancelled its task.)
LedgerAgrees ==
    drained = {} => wallet.balance = Opening + Deposit * Cardinality(paid) - SumFunction(log)
                        - CallPrice * Cardinality({c \in Calls : call[c] = "debited"})

\* The in-flight cap holds for the runs that have not waited at a gate, however many
\* requests are admitted at the same time.
CapHolds ==
    Cardinality({r \in InFlight : gates[r] = 0}) <= MaxRuns

\* Of concurrent and repeated requests with one key, one creates a run.
OneRunPerKey ==
    \A r, s \in Runs : row[r] # "none" /\ row[s] # "none" /\ key[r] = key[s] => r = s

\* "read from the SAME row this function already locks, so it cannot race the reservation
\* it gates" (metering.py:813): no reservation is made once a failed debit is marked.
MarkedReservesNothing ==
    [][wallet.marked => /\ \A r \in Runs : hold[r] = "none" => hold'[r] = "none"
                        /\ Lent' \subseteq Lent]_vars
=============================================================================
