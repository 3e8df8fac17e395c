-------------------------- MODULE CreditLedgerProofs --------------------------
(***************************************************************************)
(* Theorems about CreditLedger for any runs, keys, calls, payments, prices *)
(* and caps.                                                               *)
(***************************************************************************)
EXTENDS AccountRefinement, FiniteSetTheorems, WellFoundedInduction, TLAPS

PCs   == Requesting \cup Executing \cup {"idle"}
Rows  == {"none", "queued", "running", "gated", "ended"}
Holds == {"none", "credits", "usd"}
Dues  == {"no", "due", "failed"}
CallStates == {"idle", "checked", "reserving", "running", "failed", "left", "debited", "over"}

\* TypeOK, one conjunct for a variable.
TInv ==
    /\ wallet \in [balance: Int, marked: BOOLEAN]
    /\ wlock \in Runs \cup Calls \cup {None} /\ alock \in Runs \cup {None}
    /\ key \in [Runs -> Keys]
    /\ pc \in [Runs -> PCs]
    /\ row \in [Runs -> Rows]
    /\ gates \in [Runs -> Nat]
    /\ hold \in [Runs -> Holds]
    /\ swept \in [Runs -> BOOLEAN]
    /\ settle \in [Runs -> Dues]
    /\ writing \in [Runs -> Nat] /\ brain \in [Runs -> Nat] /\ worker \in [Runs -> Nat]
    /\ log \in [Runs -> Nat] /\ spent \in [Runs -> Nat] /\ debited \in [Runs -> Nat]
    /\ paid \subseteq Payments
    /\ call \in [Calls -> CallStates]
    /\ debt \in Nat
    /\ owed \subseteq Runs /\ late \subseteq Runs /\ drained \subseteq Runs

-----------------------------------------------------------------------------
(* The state keeps its type.                                               *)

LEMMA TypeIsTInv == TypeOK <=> TInv
  BY DEF TypeOK, TInv, PCs, Rows, Holds, Dues, CallStates

LEMMA InitType == Init => TInv
  BY LedgerAssumption
  DEF Init, TInv, Zero, PCs, Rows, Holds, Dues, CallStates, Requesting

LEMMA Words ==
    /\ Requesting \subseteq PCs /\ Executing \subseteq PCs /\ "idle" \in PCs
    /\ {"new", "checked", "counted", "mcp"} \subseteq PCs
    /\ {"ask", "credits", "usd", "work", "gate"} \subseteq PCs
  BY DEF PCs, Requesting, Executing

LEMMA AdmissionType ==
    ASSUME TInv, NEW r \in Runs, Admission(r)
    PROVE  TInv'
<1> USE DEF TInv, Become, Rows, Holds, runVars, bookVars, extVars, histVars
<1>1. CASE CheckBudget(r)
  BY <1>1, Words DEF CheckBudget
<1>2. CASE CountInFlight(r)
  BY <1>2, Words DEF CountInFlight
<1>3. CASE InsertRow(r)
  BY <1>3, Words DEF InsertRow
<1>4. CASE InsertReserving(r)
  BY <1>4, Words DEF InsertReserving
<1>5. CASE CommitReserved(r)
  BY <1>5, Words DEF CommitReserved
<1> QED BY <1>1, <1>2, <1>3, <1>4, <1>5 DEF Admission

LEMMA ExecutionType ==
    ASSUME TInv, NEW r \in Runs, Execution(r)
    PROVE  TInv'
<1> USE Words DEF TInv, Become, Leave, End, Rows, Holds, Dues, runVars, bookVars, extVars, histVars
<1>1. CASE Claim(r)
  <2>1. pc' \in [Runs -> PCs]
    BY <1>1 DEF Claim
  <2>2. row' \in [Runs -> Rows]
    BY <1>1 DEF Claim
  <2>3. settle' \in [Runs -> Dues]
    BY <1>1 DEF Claim
  <2> QED BY <1>1, <2>1, <2>2, <2>3 DEF Claim
<1>2. CASE Reconcile(r)
  BY <1>2 DEF Reconcile
<1>3. CASE Recheck(r)
  BY <1>3 DEF Recheck, Start
<1>4. CASE ReadWallet(r)
  BY <1>4 DEF ReadWallet
<1>5. CASE CommitHold(r)
  <2>1. pc' \in [Runs -> PCs] /\ row' \in [Runs -> Rows] /\ settle' \in [Runs -> Dues]
    BY <1>5 DEF CommitHold, Start
  <2>2. hold' \in [Runs -> Holds]
    BY <1>5 DEF CommitHold
  <2> QED BY <1>5, <2>1, <2>2 DEF CommitHold
<1>6. CASE Spend(r)
  BY <1>6 DEF Spend
<1>7. CASE RecordCost(r)
  BY <1>7 DEF RecordCost
<1>8. CASE Park(r)
  BY <1>8 DEF Park
<1>9. CASE Resolve(r)
  BY <1>9 DEF Resolve
<1>10. CASE Finish(r)
  BY <1>10 DEF Finish
<1>11. CASE Cancel(r)
  BY <1>11 DEF Cancel
<1> QED BY <1>1, <1>2, <1>3, <1>4, <1>5, <1>6, <1>7, <1>8, <1>9, <1>10, <1>11 DEF Execution

\* What a settlement debits, and what of it no credit reservation covers.
LEMMA DueType ==
    ASSUME TInv, NEW r \in Runs
    PROVE  /\ Due(r) \in Nat /\ Covered(r) \in Nat /\ Excess(Due(r), r) \in Nat
           /\ Excess(Due(r), r) >= Due(r) - Covered(r)
<1>1. Due(r) \in Nat
  BY DEF TInv, Due
<1>2. Covered(r) \in Nat
  BY LedgerAssumption DEF Covered
<1> QED BY <1>1, <1>2 DEF Excess

LEMMA SettlementType ==
    ASSUME TInv, NEW r \in Runs, Settlement(r)
    PROVE  TInv'
<1> USE DEF TInv, Holds, Dues, runVars, bookVars, extVars, histVars
<1>1. CASE SettleRun(r)
  <2>1. CASE UNCHANGED <<wallet, log, debited, debt>>
    BY <1>1, <2>1 DEF SettleRun
  <2>2. CASE Debit(r, Due(r))
    <3>1. PICK a \in Nat, x \in Nat : Debit(r, Due(r)) /\ a = Due(r) /\ x = Excess(Due(r), r)
      BY <2>2, DueType
    <3>2. /\ wallet' = [wallet EXCEPT !.balance = @ - a]
          /\ log' = [log EXCEPT ![r] = @ + a]
          /\ debited' = [debited EXCEPT ![r] = @ + a]
          /\ debt' = debt + x
      BY <3>1 DEF Debit
    <3>3. /\ wallet' \in [balance: Int, marked: BOOLEAN] /\ debt' \in Nat
          /\ log' \in [Runs -> Nat] /\ debited' \in [Runs -> Nat]
      BY <3>2
    <3>4. /\ hold' \in [Runs -> Holds] /\ settle' \in [Runs -> Dues]
          /\ swept' \in [Runs -> BOOLEAN] /\ late' \subseteq Runs
      BY <1>1 DEF SettleRun
    <3> QED BY <1>1, <3>3, <3>4 DEF SettleRun
  <2> QED BY <1>1, <2>1, <2>2 DEF SettleRun
<1>2. CASE SettleFails(r)
  BY <1>2 DEF SettleFails
<1>3. CASE MarkDebitFailed(r)
  BY <1>3 DEF MarkDebitFailed
<1>4. CASE Sweep(r)
  BY <1>4 DEF Sweep
<1> QED BY <1>1, <1>2, <1>3, <1>4 DEF Settlement

LEMMA MeteredType ==
    ASSUME TInv, NEW c \in Calls, Metered(c)
    PROVE  TInv'
<1> USE DEF TInv, CallStates, Calling, runVars, bookVars, histVars
<1>1. CASE CheckCall(c)
  BY <1>1 DEF CheckCall
<1>2. CASE ReserveCall(c)
  BY <1>2 DEF ReserveCall
<1>3. CASE CommitCall(c)
  BY <1>3 DEF CommitCall
<1>4. CASE SettleCall(c)
  <2>1. PICK price \in Nat, extra \in Nat :
          /\ wallet' = [wallet EXCEPT !.balance = @ - price] \/ UNCHANGED wallet
          /\ debt' = debt + extra
    <3>1. CASE UNCHANGED <<wallet, debt>>
      <4>1. debt' = debt + 0
        BY <3>1
      <4> QED BY <3>1, <4>1
    <3>2. CASE ~UNCHANGED <<wallet, debt>>
      <4>1. PICK extra : extra = IF CallPrice > CallEstimate THEN CallPrice - CallEstimate ELSE 0
        OBVIOUS
      <4>2. extra \in Nat /\ CallPrice \in Nat
        BY <4>1, LedgerAssumption
      <4>3. wallet' = [wallet EXCEPT !.balance = @ - CallPrice] /\ debt' = debt + extra
        BY <1>4, <3>2, <4>1 DEF SettleCall
      <4> QED BY <4>2, <4>3
    <3> QED BY <3>1, <3>2
  <2>2. wallet' \in [balance: Int, marked: BOOLEAN] /\ debt' \in Nat
    BY <2>1
  <2>3. call' \in [Calls -> CallStates]
    BY <1>4 DEF SettleCall
  <2> QED BY <1>4, <2>2, <2>3 DEF SettleCall
<1>5. CASE MarkCall(c)
  BY <1>5 DEF MarkCall
<1>6. CASE SweepCall(c)
  BY <1>6 DEF SweepCall
<1> QED BY <1>1, <1>2, <1>3, <1>4, <1>5, <1>6 DEF Metered

LEMMA OutsideType ==
    ASSUME TInv, \/ \E c \in Calls : Metered(c)
                 \/ \E p \in Payments : TopUp(p)
                 \/ Crash \/ Drain
    PROVE  TInv'
<1> USE Words DEF TInv, Dues, runVars, bookVars, extVars, histVars, Zero
<1>1. ASSUME NEW c \in Calls, Metered(c) PROVE TInv'
  BY <1>1, MeteredType
<1>2. ASSUME NEW p \in Payments, TopUp(p) PROVE TInv'
  BY <1>2, LedgerAssumption DEF TopUp
<1>3. CASE Crash
  <2>1. call' \in [Calls -> CallStates]
    BY <1>3 DEF Crash, CallStates
  <2> QED BY <1>3, <2>1 DEF Crash
<1>4. CASE Drain
  BY <1>4 DEF Drain
<1> QED BY <1>1, <1>2, <1>3, <1>4

LEMMA TypeStep == TInv /\ [Next]_vars => TInv'
<1> SUFFICES ASSUME TInv, [Next]_vars PROVE TInv'
  OBVIOUS
<1>1. CASE UNCHANGED vars
  BY <1>1 DEF TInv, vars, runVars, bookVars, extVars, histVars
<1>2. CASE Next
  BY <1>2, AdmissionType, ExecutionType, SettlementType, OutsideType DEF Next
<1> QED BY <1>1, <1>2

LEMMA TypeInvariant == Spec => []TInv
  BY InitType, TypeStep, PTL DEF Spec

\* Rows, locks, reservations, books and coroutines keep their shape.
THEOREM TypeCorrect == Spec => []TypeOK
  BY TypeInvariant, TypeIsTInv, PTL

-----------------------------------------------------------------------------
(* The locks, and the marker that is read under one of them.               *)

\* The row of the wallet is locked from the read of a reservation to its commit, the
\* workspace from the count of an admission to its commit.
WalletLocked == \A r \in Runs : pc[r] \in {"credits", "usd", "mcp"} => wlock = r
SpaceLocked  == \A r \in Runs : pc[r] \in {"counted", "mcp"} => alock = r

\* Who holds the wallet read it unmarked, and it still is.
Unmarked == \A r \in Runs : pc[r] \in {"credits", "usd", "mcp"} => ~wallet.marked

\* The reservation of a metered call, likewise.
CallLocked == \A c \in Calls : call[c] = "reserving" => wlock = c /\ ~wallet.marked

LockInv == WalletLocked /\ SpaceLocked /\ Unmarked /\ CallLocked

\* One coroutine acts, and the marker stays.
LEMMA OneLocks ==
    ASSUME TInv, TInv', LockInv, NEW r \in Runs, NEW x, pc' = [pc EXCEPT ![r] = x],
           wallet'.marked = wallet.marked, call' = call,
           \/ wlock' = wlock
           \/ wlock = None
           \/ wlock = r,
           \/ alock' = alock
           \/ alock = None
           \/ alock = r,
           x \in {"credits", "usd", "mcp"} => wlock' = r /\ ~wallet.marked,
           x \in {"counted", "mcp"} => alock' = r
    PROVE  LockInv'
<1>1. \A s \in Runs : pc'[s] = IF s = r THEN x ELSE pc[s]
  BY DEF TInv
<1>2. WalletLocked'
  BY <1>1, LedgerAssumption DEF LockInv, WalletLocked
<1>3. SpaceLocked'
  BY <1>1, LedgerAssumption DEF LockInv, SpaceLocked
<1>4. Unmarked'
  BY <1>1 DEF LockInv, Unmarked
<1>5. CallLocked'
  BY LedgerAssumption DEF LockInv, CallLocked
<1> QED BY <1>2, <1>3, <1>4, <1>5 DEF LockInv

\* No coroutine acts; who writes the wallet waits for its lock.
LEMMA SameLocks ==
    ASSUME LockInv, pc' = pc, wlock' = wlock, alock' = alock, call' = call,
           wallet'.marked = wallet.marked \/ WalletFree
    PROVE  LockInv'
  BY LedgerAssumption DEF LockInv, WalletLocked, SpaceLocked, Unmarked, CallLocked, WalletFree

\* A metered call acts.
LEMMA CallLocks ==
    ASSUME TInv, LockInv, NEW c \in Calls, NEW x, call' = [call EXCEPT ![c] = x],
           pc' = pc, alock' = alock,
           \/ wlock' = wlock
           \/ wlock = None
           \/ wlock = c,
           wallet'.marked = wallet.marked \/ (WalletFree /\ x # "reserving"),
           x = "reserving" => wlock' = c /\ ~wallet.marked
    PROVE  LockInv'
<1>1. \A d \in Calls : call'[d] = IF d = c THEN x ELSE call[d]
  BY DEF TInv
<1>2. WalletLocked' /\ SpaceLocked'
  BY LedgerAssumption DEF LockInv, WalletLocked, SpaceLocked
<1>3. Unmarked'
  BY LedgerAssumption DEF LockInv, Unmarked, WalletLocked, WalletFree
<1>4. CallLocked'
  BY <1>1, LedgerAssumption DEF LockInv, CallLocked, WalletFree
<1> QED BY <1>2, <1>3, <1>4 DEF LockInv

LEMMA MeteredLocks ==
    ASSUME TInv, LockInv, NEW c \in Calls, Metered(c)
    PROVE  LockInv'
<1> USE DEF runVars, Calling
<1>1. CASE CheckCall(c)
  BY <1>1, CallLocks DEF CheckCall
<1>2. CASE ReserveCall(c)
  BY <1>2, CallLocks DEF ReserveCall, WalletFree
<1>3. CASE CommitCall(c)
  BY <1>3, CallLocks DEF CommitCall, LockInv, CallLocked
<1>4. CASE SettleCall(c)
  <2>1. wallet'.marked = wallet.marked
    BY <1>4 DEF SettleCall, TInv
  <2> QED BY <1>4, <2>1, CallLocks DEF SettleCall
<1>5. CASE MarkCall(c)
  BY <1>5, CallLocks DEF MarkCall
<1>6. CASE SweepCall(c)
  BY <1>6, CallLocks DEF SweepCall
<1> QED BY <1>1, <1>2, <1>3, <1>4, <1>5, <1>6 DEF Metered

LEMMA AdmissionLocks ==
    ASSUME TInv, TInv', LockInv, NEW r \in Runs, Admission(r)
    PROVE  LockInv'
<1> USE DEF Become, extVars
<1>1. CASE CheckBudget(r)
  BY <1>1, OneLocks DEF CheckBudget
<1>2. CASE CountInFlight(r)
  BY <1>2, OneLocks DEF CountInFlight
<1>3. CASE InsertRow(r)
  BY <1>3, OneLocks DEF InsertRow, LockInv, SpaceLocked
<1>4. CASE InsertReserving(r)
  BY <1>4, OneLocks DEF InsertReserving, WalletFree, LockInv, SpaceLocked
<1>5. CASE CommitReserved(r)
  BY <1>5, OneLocks DEF CommitReserved, LockInv, WalletLocked, SpaceLocked
<1> QED BY <1>1, <1>2, <1>3, <1>4, <1>5 DEF Admission

LEMMA ExecutionLocks ==
    ASSUME TInv, TInv', LockInv, NEW r \in Runs, Execution(r)
    PROVE  LockInv'
<1> USE DEF Become, Leave, runVars, extVars
<1>1. CASE Claim(r)
  BY <1>1, OneLocks DEF Claim
<1>2. CASE Reconcile(r)
  BY <1>2, OneLocks DEF Reconcile
<1>3. CASE Recheck(r)
  BY <1>3, OneLocks DEF Recheck, Start
<1>4. CASE ReadWallet(r)
  BY <1>4, OneLocks DEF ReadWallet, WalletFree
<1>5. CASE CommitHold(r)
  BY <1>5, OneLocks DEF CommitHold, Start, LockInv, WalletLocked
<1>6. CASE Spend(r)
  BY <1>6, SameLocks DEF Spend
<1>7. CASE RecordCost(r)
  BY <1>7, SameLocks DEF RecordCost
<1>8. CASE Park(r)
  BY <1>8, OneLocks DEF Park
<1>9. CASE Resolve(r)
  BY <1>9, OneLocks DEF Resolve
<1>10. CASE Finish(r)
  BY <1>10, OneLocks DEF Finish
<1>11. CASE Cancel(r)
  BY <1>11, SameLocks DEF Cancel
<1> QED BY <1>1, <1>2, <1>3, <1>4, <1>5, <1>6, <1>7, <1>8, <1>9, <1>10, <1>11 DEF Execution

\* A debit leaves the marker alone.
LEMMA DebitMarks ==
    ASSUME TInv, NEW r, NEW a, Debit(r, a)
    PROVE  wallet'.marked = wallet.marked
  BY DEF TInv, Debit

LEMMA SettlementLocks ==
    ASSUME TInv, LockInv, NEW r \in Runs, Settlement(r)
    PROVE  LockInv'
<1> USE DEF runVars, extVars
<1>1. CASE SettleRun(r)
  BY <1>1, SameLocks, DebitMarks DEF SettleRun
<1>2. CASE SettleFails(r)
  BY <1>2, SameLocks DEF SettleFails
<1>3. CASE MarkDebitFailed(r)
  BY <1>3, SameLocks DEF MarkDebitFailed
<1>4. CASE Sweep(r)
  BY <1>4, SameLocks DEF Sweep
<1> QED BY <1>1, <1>2, <1>3, <1>4 DEF Settlement

LEMMA OutsideLocks ==
    ASSUME TInv, TInv', LockInv,
           \/ \E c \in Calls : Metered(c)
           \/ \E p \in Payments : TopUp(p)
           \/ Crash \/ Drain
    PROVE  LockInv'
<1> USE DEF runVars, extVars
<1>1. ASSUME NEW c \in Calls, Metered(c) PROVE LockInv'
  BY <1>1, MeteredLocks
<1>2. ASSUME NEW p \in Payments, TopUp(p) PROVE LockInv'
  BY <1>2, SameLocks DEF TopUp
<1>3. CASE Crash
  <2>1. \A c \in Calls : call'[c] # "reserving"
    BY <1>3 DEF Crash
  <2> QED BY <1>3, <2>1 DEF Crash, LockInv, WalletLocked, SpaceLocked, Unmarked, CallLocked
<1>4. CASE Drain
  <2>1. \A s \in Runs : pc'[s] = IF pc[s] \in Executing THEN "idle" ELSE pc[s]
    BY <1>4 DEF Drain
  <2>2. \A s \in Runs : pc'[s] \in {"credits", "usd", "mcp"} => pc'[s] = "mcp" /\ pc[s] = "mcp"
    BY <2>1 DEF Executing
  <2>3. \A s \in Runs : pc'[s] \in {"counted", "mcp"} => pc[s] = pc'[s]
    BY <2>1 DEF Executing
  <2>4. \A c \in Calls : wlock = c => wlock' = c
    BY <1>4, LedgerAssumption DEF Drain
  <2>5. WalletLocked' /\ SpaceLocked' /\ Unmarked'
    BY <1>4, <2>2, <2>3 DEF Drain, LockInv, WalletLocked, SpaceLocked, Unmarked
  <2>6. CallLocked'
    BY <1>4, <2>4 DEF Drain, LockInv, CallLocked
  <2> QED BY <2>5, <2>6 DEF LockInv
<1> QED BY <1>1, <1>2, <1>3, <1>4

LEMMA LockStep == TInv /\ TInv' /\ LockInv /\ [Next]_vars => LockInv'
<1> SUFFICES ASSUME TInv, TInv', LockInv, [Next]_vars PROVE LockInv'
  OBVIOUS
<1>1. CASE UNCHANGED vars
  BY <1>1, SameLocks DEF vars, runVars, extVars
<1>2. CASE Next
  BY <1>2, AdmissionLocks, ExecutionLocks, SettlementLocks, OutsideLocks DEF Next
<1> QED BY <1>1, <1>2

LEMMA LockInvariant == Spec => [](TInv /\ LockInv)
<1>1. Init => LockInv
  BY DEF Init, LockInv, WalletLocked, SpaceLocked, Unmarked, CallLocked
<1> QED BY <1>1, LockStep, InitType, TypeStep, PTL DEF Spec

\* No reservation is made once a failed debit is marked: the marker is read from the row
\* that the reservation locks, and written under the same lock.
LEMMA MarkStep ==
    ASSUME TInv, LockInv, [Next]_vars, NEW r \in Runs, wallet.marked, hold[r] = "none"
    PROVE  hold'[r] = "none"
<1>1. ASSUME NEW s \in Runs, hold'[r] # "none"
      PROVE  ~Admission(s) /\ ~Execution(s)
  <2>1. pc[s] \notin {"credits", "usd", "mcp"}
    BY DEF LockInv, Unmarked
  <2>2. ~CommitReserved(s) /\ ~CommitHold(s)
    BY <2>1 DEF CommitReserved, CommitHold
  <2>3. hold' # hold
    BY <1>1
  <2> QED BY <2>2, <2>3
      DEF Admission, Execution, CheckBudget, CountInFlight, InsertRow, InsertReserving,
          Claim, Reconcile, Recheck, ReadWallet, Spend, RecordCost, Park, Resolve, Finish, Cancel
<1>2. ASSUME NEW s \in Runs, Settlement(s) PROVE hold'[r] = "none"
  BY <1>2 DEF Settlement, SettleRun, SettleFails, MarkDebitFailed, Sweep, TInv
<1>3. CASE \/ \E c \in Calls : Metered(c)
           \/ \E p \in Payments : TopUp(p)
           \/ Crash \/ Drain
  BY <1>3 DEF Metered, CheckCall, ReserveCall, CommitCall, SettleCall, MarkCall, SweepCall,
              TopUp, Crash, Drain
<1> QED BY <1>1, <1>2, <1>3 DEF Next, vars

LEMMA MarkLends ==
    ASSUME TInv, LockInv, [Next]_vars, wallet.marked
    PROVE  Lent' \subseteq Lent
<1>1. CASE call' = call
  BY <1>1 DEF Lent
<1>2. ASSUME NEW c \in Calls, Metered(c) PROVE Lent' \subseteq Lent
  <2>1. call[c] # "reserving"
    BY DEF LockInv, CallLocked
  <2>2. PICK x : call' = [call EXCEPT ![c] = x] /\ (x \in {"running", "failed", "left"} => c \in Lent)
    BY <1>2, <2>1 DEF Metered, CheckCall, ReserveCall, CommitCall, SettleCall, MarkCall, SweepCall,
                      Calling, Lent
  <2> QED BY <2>2 DEF Lent, TInv
<1>3. CASE Crash
  BY <1>3 DEF Crash, Lent
<1>4. ASSUME NEW r \in Runs, Admission(r) \/ Execution(r) \/ Settlement(r) PROVE call' = call
  BY <1>4
  DEF Admission, Execution, Settlement, CheckBudget, CountInFlight, InsertRow, InsertReserving,
      CommitReserved, Claim, Reconcile, Recheck, ReadWallet, CommitHold, Spend, RecordCost, Park,
      Resolve, Finish, Cancel, SettleRun, SettleFails, MarkDebitFailed, Sweep, extVars
<1> QED BY <1>1, <1>2, <1>3, <1>4 DEF Next, vars, extVars, TopUp, Drain

\* No run and no metered call reserves once a failed debit is marked.
THEOREM MarkReservesNothing == Spec => MarkedReservesNothing
<1>1. TInv /\ LockInv /\ [Next]_vars =>
          [wallet.marked => /\ \A r \in Runs : hold[r] = "none" => hold'[r] = "none"
                            /\ Lent' \subseteq Lent]_vars
  BY MarkStep, MarkLends
<1> QED BY <1>1, LockInvariant, PTL DEF Spec, MarkedReservesNothing

-----------------------------------------------------------------------------
(* The balance covers the open reservations, and the one being made.       *)

Spare(n) == wallet.balance + debt >= Reserved + n

HoldInv ==
    /\ Spare(0)
    /\ \A r \in Runs : pc[r] \in {"credits", "mcp"} => Spare(Estimate)
    /\ \A c \in Calls : call[c] = "reserving" => Spare(CallEstimate)

LEMMA Product ==
    ASSUME NEW e \in Nat, NEW m \in Nat, NEW n \in Nat
    PROVE  /\ e * m \in Nat
           /\ e * (n + 1) = e * n + e
           /\ m <= n => e * m <= e * n
  OBVIOUS

\* What reservations of `e` credits each weigh: fewer weigh less, one more weighs `e` more.
LEMMA Weight ==
    ASSUME NEW e \in Nat, NEW S, IsFiniteSet(S), NEW T
    PROVE  /\ e * Cardinality(S) \in Nat
           /\ T \subseteq S => e * Cardinality(T) <= e * Cardinality(S)
           /\ \A x : T \subseteq S \cup {x} => e * Cardinality(T) <= e * Cardinality(S) + e
           /\ \A x \in S : T = S \ {x} => e * Cardinality(T) + e = e * Cardinality(S)
<1>1. PICK n \in Nat : n = Cardinality(S)
  BY FS_CardinalityType
<1>2. e * n \in Nat
  BY Product
<1>3. ASSUME T \subseteq S PROVE e * Cardinality(T) <= e * n
  <2>1. PICK m \in Nat : m = Cardinality(T) /\ m <= n
    BY <1>1, <1>3, FS_Subset, FS_CardinalityType
  <2>2. e * m <= e * n
    BY <2>1, Product
  <2> QED BY <2>1, <2>2
<1>4. ASSUME NEW x, T \subseteq S \cup {x} PROVE e * Cardinality(T) <= e * n + e
  <2>1. PICK k \in Nat : k = Cardinality(S \cup {x}) /\ k <= n + 1 /\ IsFiniteSet(S \cup {x})
    <3>1. IsFiniteSet(S \cup {x}) /\ Cardinality(S \cup {x}) \in {n, n + 1}
      BY <1>1, FS_AddElement
    <3> QED BY <3>1
  <2>2. PICK m \in Nat : m = Cardinality(T) /\ m <= k
    BY <1>4, <2>1, FS_Subset, FS_CardinalityType
  <2>3. m <= n + 1 /\ n + 1 \in Nat
    BY <2>1, <2>2
  <2>4. e * m <= e * (n + 1) /\ e * (n + 1) = e * n + e
    BY <2>3, Product
  <2> QED BY <2>2, <2>4
<1>5. ASSUME NEW x \in S, T = S \ {x} PROVE e * Cardinality(T) + e = e * n
  <2>1. PICK m \in Nat : m = Cardinality(T) /\ n = m + 1
    <3>1. IsFiniteSet(T) /\ Cardinality(T) = n - 1
      BY <1>1, <1>5, FS_RemoveElement
    <3>2. Cardinality(T) \in Nat
      BY <3>1, FS_CardinalityType
    <3> QED BY <3>1, <3>2
  <2>2. e * (m + 1) = e * m + e
    BY Product
  <2> QED BY <2>1, <2>2
<1> QED BY <1>1, <1>2, <1>3, <1>4, <1>5

LEMMA Finites ==
    /\ IsFiniteSet(Held) /\ IsFiniteSet(Held') /\ IsFiniteSet(Lent) /\ IsFiniteSet(Lent')
    /\ Estimate \in Nat /\ CallEstimate \in Nat
<1>1. Held \subseteq Runs /\ Held' \subseteq Runs /\ Lent \subseteq Calls /\ Lent' \subseteq Calls
  BY DEF Held, Lent
<1> QED BY <1>1, LedgerAssumption, FS_Subset

LEMMA ReservedNat == Reserved \in Nat /\ Reserved' \in Nat
<1>1. /\ Estimate * Cardinality(Held) \in Nat /\ CallEstimate * Cardinality(Lent) \in Nat
      /\ Estimate * Cardinality(Held') \in Nat /\ CallEstimate * Cardinality(Lent') \in Nat
  BY Finites, Weight
<1> QED BY <1>1 DEF Reserved

\* How a step that changes reservations changes what is reserved.
LEMMA ReservedSteps ==
    /\ Held' \subseteq Held /\ Lent' \subseteq Lent => Reserved' <= Reserved
    /\ \A r : Held' \subseteq Held \cup {r} /\ Lent' = Lent => Reserved' <= Reserved + Estimate
    /\ \A c : Held' = Held /\ Lent' \subseteq Lent \cup {c} => Reserved' <= Reserved + CallEstimate
    /\ \A r \in Held : Held' = Held \ {r} /\ Lent' = Lent => Reserved' + Estimate = Reserved
    /\ \A c \in Lent : Held' = Held /\ Lent' = Lent \ {c} => Reserved' + CallEstimate = Reserved
<1>1. PICK h \in Nat, k \in Nat, l \in Nat, m \in Nat :
          /\ h = Estimate * Cardinality(Held) /\ k = Estimate * Cardinality(Held')
          /\ l = CallEstimate * Cardinality(Lent) /\ m = CallEstimate * Cardinality(Lent')
  BY Finites, Weight
<1>2. Reserved = h + l /\ Reserved' = k + m
  BY <1>1 DEF Reserved
<1>3. /\ Held' \subseteq Held => k <= h
      /\ \A r : Held' \subseteq Held \cup {r} => k <= h + Estimate
      /\ \A r \in Held : Held' = Held \ {r} => k + Estimate = h
  BY <1>1, Finites, Weight
<1>4. /\ Lent' \subseteq Lent => m <= l
      /\ \A c : Lent' \subseteq Lent \cup {c} => m <= l + CallEstimate
      /\ \A c \in Lent : Lent' = Lent \ {c} => m + CallEstimate = l
  BY <1>1, Finites, Weight
<1>5. (Held' = Held => k <= h) /\ (Lent' = Lent => m <= l) /\ (Held' = Held => k = h) /\ (Lent' = Lent => m = l)
  BY <1>1
<1>6. Estimate \in Nat /\ CallEstimate \in Nat
  BY Finites
<1>7. Held' \subseteq Held /\ Lent' \subseteq Lent => Reserved' <= Reserved
  BY <1>2, <1>3, <1>4
<1>8. ASSUME NEW r, Held' \subseteq Held \cup {r}, Lent' = Lent PROVE Reserved' <= Reserved + Estimate
  BY <1>2, <1>3, <1>5, <1>6, <1>8
<1>9. ASSUME NEW c, Held' = Held, Lent' \subseteq Lent \cup {c} PROVE Reserved' <= Reserved + CallEstimate
  BY <1>2, <1>4, <1>5, <1>6, <1>9
<1>10. ASSUME NEW r \in Held, Held' = Held \ {r}, Lent' = Lent PROVE Reserved' + Estimate = Reserved
  BY <1>2, <1>3, <1>5, <1>6, <1>10
<1>11. ASSUME NEW c \in Lent, Held' = Held, Lent' = Lent \ {c} PROVE Reserved' + CallEstimate = Reserved
  BY <1>2, <1>4, <1>5, <1>6, <1>11
<1> QED BY <1>7, <1>8, <1>9, <1>10, <1>11

\* Nobody begins a reservation.
Quiet ==
    /\ \A r \in Runs : pc'[r] \in {"credits", "mcp"} => pc[r] \in {"credits", "mcp"}
    /\ \A c \in Calls : call'[c] = "reserving" => call[c] = "reserving"

\* Fewer reservations, more money: what was covered is covered.
LEMMA HoldKept ==
    ASSUME TInv, TInv', HoldInv, Held' \subseteq Held, Lent' \subseteq Lent,
           wallet'.balance + debt' >= wallet.balance + debt, Quiet
    PROVE  HoldInv'
<1>1. Reserved' <= Reserved /\ Reserved \in Nat /\ Reserved' \in Nat
  BY ReservedSteps, ReservedNat
<1>2. wallet.balance + debt \in Int /\ wallet'.balance + debt' \in Int
  BY DEF TInv
<1>3. ASSUME NEW n \in Nat, Spare(n) PROVE Spare(n)'
  BY <1>1, <1>2, <1>3 DEF Spare
<1> QED BY <1>3, Finites DEF HoldInv, Quiet

\* After a commit nobody else is making a reservation.
LEMMA NobodyReserves ==
    ASSUME LockInv', wlock' = None
    PROVE  /\ \A r \in Runs : pc'[r] \notin {"credits", "mcp"}
           /\ \A c \in Calls : call'[c] # "reserving"
  BY LedgerAssumption DEF LockInv, WalletLocked, CallLocked

\* Only the reservation that holds the wallet is made.
LEMMA HoldMade ==
    ASSUME TInv, TInv', HoldInv, NEW r \in Runs, pc[r] \in {"credits", "mcp"},
           wlock' = None, LockInv', wallet' = wallet, debt' = debt,
           Held' \subseteq Held \cup {r}, Lent' = Lent
    PROVE  HoldInv'
<1>1. Reserved' <= Reserved + Estimate /\ Reserved \in Nat /\ Reserved' \in Nat /\ Estimate \in Nat
  BY ReservedSteps, ReservedNat, Finites
<1>2. Spare(Estimate)
  BY DEF HoldInv
<1>3. Spare(0)'
  BY <1>1, <1>2 DEF Spare, TInv
<1> QED BY <1>3, NobodyReserves DEF HoldInv

\* The wallet affords what is about to be reserved.
LEMMA HoldPromised ==
    ASSUME TInv, NEW n \in Nat, Affords(n)
    PROVE  Spare(n)
<1>1. wallet.balance - Reserved >= n
  BY DEF Affords
<1> QED BY <1>1, ReservedNat DEF Spare, TInv

\* A coroutine of a run begins a reservation.
LEMMA HoldBegun ==
    ASSUME TInv, TInv', HoldInv, NEW n \in Nat, n = Estimate, Affords(n),
           UNCHANGED <<wallet, hold, debt, call>>
    PROVE  HoldInv'
<1>1. Held' = Held /\ Lent' = Lent /\ Reserved' = Reserved
  BY DEF Held, Lent, Reserved
<1>2. Spare(Estimate)
  BY HoldPromised
<1>3. Spare(0)' /\ Spare(Estimate)' /\ (Spare(CallEstimate) => Spare(CallEstimate)')
  BY <1>1, <1>2 DEF HoldInv, Spare
<1> QED BY <1>3 DEF HoldInv

LEMMA AdmissionHolds ==
    ASSUME TInv, TInv', LockInv', HoldInv, NEW r \in Runs, Admission(r)
    PROVE  HoldInv'
<1> USE DEF Become, TInv, Quiet, bookVars, extVars, histVars
<1>0. wallet.balance + debt \in Int /\ Estimate \in Nat
  BY LedgerAssumption
<1>1. CASE CheckBudget(r) \/ CountInFlight(r) \/ InsertRow(r)
  <2>1. Held' = Held /\ Lent' = Lent /\ wallet' = wallet /\ debt' = debt /\ call' = call
    BY <1>1 DEF CheckBudget, CountInFlight, InsertRow, Held, Lent
  <2>2. \A s \in Runs : pc'[s] \in {"credits", "mcp"} => pc[s] \in {"credits", "mcp"}
    BY <1>1 DEF CheckBudget, CountInFlight, InsertRow
  <2> QED BY <1>0, <2>1, <2>2, HoldKept
<1>2. CASE InsertReserving(r)
  <2>1. Held' = Held /\ Lent' = Lent /\ UNCHANGED <<wallet, hold, debt, call>>
    BY <1>2 DEF InsertReserving, Held, Lent
  <2>2. CASE Affords(Estimate)
    BY <1>0, <2>1, <2>2, HoldBegun
  <2>3. CASE ~Affords(Estimate)
    <3>1. \A s \in Runs : pc'[s] \in {"credits", "mcp"} => pc[s] \in {"credits", "mcp"}
      BY <1>2, <2>3 DEF InsertReserving
    <3> QED BY <1>0, <2>1, <3>1, HoldKept
  <2> QED BY <2>2, <2>3
<1>3. CASE CommitReserved(r)
  <2>1. Held' \subseteq Held \cup {r} /\ Lent' = Lent
    BY <1>3 DEF CommitReserved, Held, Lent
  <2>2. pc[r] = "mcp" /\ wlock' = None /\ wallet' = wallet /\ debt' = debt
    BY <1>3 DEF CommitReserved
  <2> QED BY <2>1, <2>2, HoldMade
<1> QED BY <1>1, <1>2, <1>3 DEF Admission

LEMMA ExecutionHolds ==
    ASSUME TInv, TInv', LockInv', HoldInv, NEW r \in Runs, Execution(r)
    PROVE  HoldInv'
<1> USE DEF Become, Leave, TInv, Quiet, runVars, bookVars, extVars, histVars
<1>0. wallet.balance + debt \in Int /\ Estimate \in Nat
  BY LedgerAssumption
<1>1. CASE \/ Claim(r) \/ Reconcile(r) \/ Recheck(r) \/ Spend(r) \/ RecordCost(r)
           \/ Park(r) \/ Resolve(r) \/ Finish(r) \/ Cancel(r)
  <2>1. hold' = hold /\ wallet' = wallet /\ debt' = debt /\ call' = call
    BY <1>1 DEF Claim, Reconcile, Recheck, Spend, RecordCost, Park, Resolve, Finish, Cancel
  <2>2. \A s \in Runs : pc'[s] \in {"credits", "mcp"} => pc[s] \in {"credits", "mcp"}
    <3>1. CASE Claim(r)
      BY <3>1 DEF Claim
    <3>2. CASE Reconcile(r) \/ Recheck(r)
      BY <3>2 DEF Reconcile, Recheck, Start
    <3>3. CASE Park(r) \/ Resolve(r) \/ Finish(r)
      BY <3>3 DEF Park, Resolve, Finish
    <3>4. CASE Spend(r) \/ RecordCost(r) \/ Cancel(r)
      BY <3>4 DEF Spend, RecordCost, Cancel
    <3> QED BY <1>1, <3>1, <3>2, <3>3, <3>4
  <2>3. Held' = Held /\ Lent' = Lent
    BY <2>1 DEF Held, Lent
  <2> QED BY <1>0, <2>1, <2>2, <2>3, HoldKept
<1>2. CASE ReadWallet(r)
  <2>1. UNCHANGED <<wallet, hold, debt, call>>
    BY <1>2 DEF ReadWallet
  <2>2. CASE Affords(Estimate)
    BY <1>0, <2>1, <2>2, HoldBegun
  <2>3. CASE ~Affords(Estimate)
    <3>1. \A s \in Runs : pc'[s] \in {"credits", "mcp"} => pc[s] \in {"credits", "mcp"}
      BY <1>2, <2>3 DEF ReadWallet
    <3>2. Held' = Held /\ Lent' = Lent
      BY <2>1 DEF Held, Lent
    <3> QED BY <1>0, <2>1, <3>1, <3>2, HoldKept
  <2> QED BY <2>2, <2>3
<1>3. CASE CommitHold(r)
  <2>1. wlock' = None /\ wallet' = wallet /\ debt' = debt /\ pc[r] \in {"credits", "usd"}
        /\ hold' = [hold EXCEPT ![r] = pc[r]] /\ call' = call /\ Lent' = Lent
    BY <1>3 DEF CommitHold, Lent
  <2>2. CASE pc[r] = "credits"
    <3>1. Held' \subseteq Held \cup {r}
      BY <2>1 DEF Held
    <3> QED BY <2>1, <2>2, <3>1, HoldMade
  <2>3. CASE pc[r] = "usd"
    <3>1. Held' \subseteq Held
      BY <2>1, <2>3 DEF Held
    <3> QED BY <1>0, <2>1, <3>1, NobodyReserves, HoldKept
  <2> QED BY <2>1, <2>2, <2>3
<1> QED BY <1>1, <1>2, <1>3 DEF Execution

\* A debit takes from what the reservation held, and the rest is debt.
LEMMA DebitHolds ==
    ASSUME TInv, TInv', LockInv, HoldInv, NEW r \in Runs, WalletFree, Debit(r, Due(r)),
           hold' = [hold EXCEPT ![r] = "none"], pc' = pc, call' = call
    PROVE  HoldInv'
<1>1. PICK a \in Nat, x \in Nat, c \in Nat :
          /\ a = Due(r) /\ x = Excess(Due(r), r) /\ c = Covered(r) /\ x >= a - c
  BY DueType
<1>2. wallet' = [wallet EXCEPT !.balance = @ - a] /\ debt' = debt + x
  BY <1>1 DEF Debit
<1>3. wallet'.balance + debt' >= (wallet.balance + debt) - c
  BY <1>1, <1>2 DEF TInv
<1>4. Held' = Held \ {r} /\ Lent' = Lent
  BY DEF Held, Lent, TInv
<1>5. CASE r \in Held
  <2>1. c = Estimate
    BY <1>1, <1>5 DEF Covered, Held
  <2>2. Reserved' + c = Reserved /\ Reserved \in Nat /\ Reserved' \in Nat
    BY <1>4, <1>5, <2>1, ReservedSteps, ReservedNat
  <2>3. wallet.balance + debt >= Reserved
    BY <2>2 DEF HoldInv, Spare, TInv
  <2>4. Spare(0)'
    BY <1>1, <1>3, <2>2, <2>3 DEF Spare, TInv
  <2>5. /\ \A s \in Runs : pc'[s] \notin {"credits", "mcp"}
        /\ \A d \in Calls : call'[d] # "reserving"
    BY LedgerAssumption DEF WalletFree, LockInv, WalletLocked, CallLocked
  <2> QED BY <2>4, <2>5 DEF HoldInv
<1>6. CASE r \notin Held
  <2>1. c = 0
    BY <1>1, <1>6 DEF Covered, Held
  <2>2. wallet'.balance + debt' >= wallet.balance + debt
    BY <1>3, <2>1 DEF TInv
  <2> QED BY <1>4, <2>2, HoldKept DEF Quiet
<1> QED BY <1>5, <1>6

LEMMA SettlementHolds ==
    ASSUME TInv, TInv', LockInv, HoldInv, NEW r \in Runs, Settlement(r)
    PROVE  HoldInv'
<1> USE DEF TInv, Quiet, runVars, bookVars, extVars, histVars
<1>0. wallet.balance + debt \in Int
  OBVIOUS
<1>1. CASE SettleRun(r)
  <2>1. pc' = pc /\ call' = call /\ hold' = [hold EXCEPT ![r] = "none"]
    BY <1>1 DEF SettleRun
  <2>2. Held' \subseteq Held /\ Lent' = Lent
    BY <2>1 DEF Held, Lent
  <2>3. CASE UNCHANGED <<wallet, debt>>
    BY <1>0, <2>1, <2>2, <2>3, HoldKept
  <2>4. CASE WalletFree /\ Debit(r, Due(r))
    BY <2>1, <2>4, DebitHolds
  <2> QED BY <1>1, <2>3, <2>4 DEF SettleRun
<1>2. CASE SettleFails(r) \/ MarkDebitFailed(r) \/ Sweep(r)
  <2>1. pc' = pc /\ call' = call /\ debt' = debt /\ wallet'.balance = wallet.balance
    BY <1>2 DEF SettleFails, MarkDebitFailed, Sweep
  <2>2. Held' \subseteq Held /\ Lent' = Lent
    BY <1>2, <2>1 DEF SettleFails, MarkDebitFailed, Sweep, Held, Lent
  <2> QED BY <1>0, <2>1, <2>2, HoldKept
<1> QED BY <1>1, <1>2 DEF Settlement

\* A metered call gives its reservation back; what it costs beyond it is debt.
LEMMA CallSettles ==
    ASSUME TInv, TInv', LockInv, HoldInv, NEW c \in Calls, call[c] = "running", WalletFree,
           NEW x \in Nat, x >= CallPrice - CallEstimate,
           call' = [call EXCEPT ![c] = "debited"], debt' = debt + x,
           wallet' = [wallet EXCEPT !.balance = @ - CallPrice], UNCHANGED <<pc, hold>>
    PROVE  HoldInv'
<1>1. CallPrice \in Nat /\ CallEstimate \in Nat
  BY LedgerAssumption
<1>2. c \in Lent /\ Lent' = Lent \ {c} /\ Held' = Held
  BY DEF Lent, Held, TInv
<1>3. Reserved' + CallEstimate = Reserved /\ Reserved \in Nat /\ Reserved' \in Nat
  BY <1>2, ReservedSteps, ReservedNat
<1>4. wallet'.balance + debt' >= (wallet.balance + debt) - CallEstimate
  BY <1>1 DEF TInv
<1>5. wallet.balance + debt >= Reserved
  BY <1>3 DEF HoldInv, Spare, TInv
<1>6. Spare(0)'
  BY <1>1, <1>3, <1>4, <1>5 DEF Spare, TInv
<1>7. /\ \A s \in Runs : pc'[s] \notin {"credits", "mcp"}
      /\ \A d \in Calls : call'[d] # "reserving"
  BY LedgerAssumption DEF WalletFree, LockInv, WalletLocked, CallLocked, TInv
<1> QED BY <1>6, <1>7 DEF HoldInv

LEMMA MeteredHolds ==
    ASSUME TInv, TInv', LockInv, LockInv', HoldInv, NEW c \in Calls, Metered(c)
    PROVE  HoldInv'
<1> USE DEF TInv, Calling, Quiet, runVars, bookVars, histVars
<1>0. wallet.balance + debt \in Int
  OBVIOUS
<1>1. CASE CheckCall(c) \/ MarkCall(c) \/ SweepCall(c)
  <2>1. UNCHANGED <<pc, debt>> /\ wallet'.balance = wallet.balance /\ Held' = Held
    BY <1>1 DEF CheckCall, MarkCall, SweepCall, Held
  <2>2. Lent' \subseteq Lent /\ \A d \in Calls : call'[d] = "reserving" => call[d] = "reserving"
    BY <1>1 DEF CheckCall, MarkCall, SweepCall, Lent
  <2> QED BY <1>0, <2>1, <2>2, HoldKept
<1>2. CASE ReserveCall(c)
  <2>1. UNCHANGED <<pc, wallet, hold, debt>> /\ Held' = Held /\ Lent' = Lent
    BY <1>2 DEF ReserveCall, Held, Lent
  <2>2. CASE call'[c] = "reserving"
    <3>1. Affords(CallEstimate)
      BY <1>2, <2>2 DEF ReserveCall
    <3>2. Spare(CallEstimate)
      BY <3>1, HoldPromised, Finites
    <3>3. Spare(CallEstimate)' /\ Spare(0)' /\ (Spare(Estimate) => Spare(Estimate)')
      BY <2>1, <3>2 DEF Spare, Reserved, HoldInv
    <3> QED BY <2>1, <3>3 DEF HoldInv
  <2>3. CASE call'[c] # "reserving"
    <3>1. \A d \in Calls : call'[d] = "reserving" => call[d] = "reserving"
      BY <1>2, <2>3 DEF ReserveCall
    <3> QED BY <1>0, <2>1, <3>1, HoldKept
  <2> QED BY <2>2, <2>3
<1>3. CASE CommitCall(c)
  <2>1. UNCHANGED <<pc, wallet, hold, debt>> /\ Held' = Held /\ Lent' \subseteq Lent \cup {c} /\ wlock' = None
    BY <1>3 DEF CommitCall, Held, Lent
  <2>2. Reserved' <= Reserved + CallEstimate /\ Reserved \in Nat /\ Reserved' \in Nat /\ CallEstimate \in Nat
    BY <2>1, ReservedSteps, ReservedNat, Finites
  <2>3. Spare(CallEstimate)
    BY <1>3 DEF CommitCall, HoldInv
  <2>4. Spare(0)'
    BY <2>1, <2>2, <2>3 DEF Spare
  <2> QED BY <2>1, <2>4, NobodyReserves DEF HoldInv
<1>4. CASE SettleCall(c)
  <2>1. CASE UNCHANGED <<wallet, debt>>
    <3>1. Lent' \subseteq Lent /\ Held' = Held /\ pc' = pc
      BY <1>4, <2>1 DEF SettleCall, Lent, Held
    <3>2. \A d \in Calls : call'[d] = "reserving" => call[d] = "reserving"
      BY <1>4, <2>1 DEF SettleCall
    <3> QED BY <1>0, <2>1, <3>1, <3>2, HoldKept
  <2>2. CASE ~UNCHANGED <<wallet, debt>>
    <3>1. PICK x : x = IF CallPrice > CallEstimate THEN CallPrice - CallEstimate ELSE 0
      OBVIOUS
    <3>2. x \in Nat /\ x >= CallPrice - CallEstimate
      BY <3>1, LedgerAssumption
    <3>3. /\ call[c] = "running" /\ WalletFree /\ UNCHANGED <<pc, hold>>
          /\ call' = [call EXCEPT ![c] = "debited"] /\ debt' = debt + x
          /\ wallet' = [wallet EXCEPT !.balance = @ - CallPrice]
      BY <1>4, <2>2, <3>1 DEF SettleCall
    <3> QED BY <3>2, <3>3, CallSettles
  <2> QED BY <2>1, <2>2
<1> QED BY <1>1, <1>2, <1>3, <1>4 DEF Metered

LEMMA OutsideHolds ==
    ASSUME TInv, TInv', LockInv, HoldInv,
           \/ \E p \in Payments : TopUp(p)
           \/ Crash \/ Drain
    PROVE  HoldInv'
<1> USE DEF TInv, Quiet, runVars, bookVars, extVars, histVars
<1>1. Held' = Held
  BY DEF TopUp, Crash, Drain, Held
<1>2. Lent' \subseteq Lent
  BY DEF TopUp, Crash, Drain, Lent
<1>3. wallet'.balance + debt' >= wallet.balance + debt
  BY LedgerAssumption DEF TopUp, Crash, Drain
<1>4. \A s \in Runs : pc'[s] \in {"credits", "mcp"} => pc[s] \in {"credits", "mcp"}
  BY DEF TopUp, Crash, Drain
<1>5. \A d \in Calls : call'[d] = "reserving" => call[d] = "reserving"
  BY DEF TopUp, Crash, Drain
<1> QED BY <1>1, <1>2, <1>3, <1>4, <1>5, HoldKept

LEMMA HoldStep ==
    ASSUME TInv, TInv', LockInv, LockInv', HoldInv, [Next]_vars
    PROVE  HoldInv'
<1>1. CASE UNCHANGED vars
  <2>1. wallet.balance + debt \in Int
    BY DEF TInv
  <2> QED BY <1>1, <2>1, HoldKept DEF vars, runVars, extVars, histVars, Held, Lent, Quiet
<1>2. CASE Next
  BY <1>2, AdmissionHolds, ExecutionHolds, SettlementHolds, MeteredHolds, OutsideHolds DEF Next
<1> QED BY <1>1, <1>2

\* However many runs and metered calls reserve, spend, gate, settle, are swept or killed at
\* the same time, the balance covers the open reservations, but for what a run or a call cost
\* beyond its own: the row lock of the wallet is enough (a workspace does not start in debt).
THEOREM ReservationsAreCovered ==
    ASSUME Opening >= 0
    PROVE  Spec => []HoldsCovered
<1>1. Init => HoldInv
  <2> SUFFICES ASSUME Init PROVE HoldInv
    OBVIOUS
  <2>1. Held = {} /\ Lent = {}
    BY DEF Init, Held, Lent
  <2>2. Cardinality(Held) = 0 /\ Cardinality(Lent) = 0
    BY <2>1, FS_EmptySet
  <2>3. Reserved = 0
    BY <2>2, Finites DEF Reserved
  <2>4. Spare(0)
    BY <2>3, LedgerAssumption DEF Init, Spare
  <2>5. /\ \A r \in Runs : pc[r] \notin {"credits", "mcp"}
        /\ \A c \in Calls : call[c] # "reserving"
    BY DEF Init
  <2> QED BY <2>4, <2>5 DEF HoldInv
<1>2. TInv /\ LockInv /\ (TInv /\ LockInv)' /\ HoldInv /\ [Next]_vars => HoldInv'
  BY HoldStep
<1>3. TInv /\ HoldInv => HoldsCovered
  BY ReservedNat DEF HoldInv, Spare, HoldsCovered, TInv
<1> QED BY <1>1, <1>2, <1>3, LockInvariant, PTL DEF Spec

-----------------------------------------------------------------------------
(* What the coroutine of a run, its row and its books know of each other.  *)

Life(r) ==
    /\ pc[r] \in Requesting => row[r] = "none"
    /\ pc[r] \in Executing => row[r] \in {"running", "gated", "ended"}
    /\ row[r] = "gated" => gates[r] > 0

\* A run whose task no shutdown cancelled is settled after its end only, when no coroutine
\* will act for it, and is debited once: a debit closes its reservation for good.
Charge(r) ==
    /\ brain[r] + worker[r] + writing[r] <= spent[r]
    /\ settle[r] # "no" \/ debited[r] > 0 => row[r] = "ended" /\ pc[r] = "idle"
    /\ debited[r] > 0 => hold[r] = "none"
    /\ debited[r] <= spent[r]

Track(r) == Life(r) /\ (r \notin drained => Charge(r))

TrackInv == \A r \in Runs : Track(r)

Same(s) ==
    /\ pc'[s] = pc[s] /\ row'[s] = row[s] /\ gates'[s] = gates[s] /\ settle'[s] = settle[s]
    /\ hold'[s] = hold[s] /\ brain'[s] = brain[s] /\ worker'[s] = worker[s]
    /\ writing'[s] = writing[s] /\ spent'[s] = spent[s] /\ debited'[s] = debited[s]

\* One run changes.
LEMMA OneTrack ==
    ASSUME TrackInv, drained' = drained, NEW r \in Runs, \A s \in Runs \ {r} : Same(s),
           Track(r)'
    PROVE  TrackInv'
<1>1. ASSUME NEW s \in Runs, s # r PROVE Track(s)'
  BY <1>1 DEF TrackInv, Track, Life, Charge, Same
<1> QED BY <1>1 DEF TrackInv

LEMMA AdmissionTrack ==
    ASSUME TInv, TInv', TrackInv, NEW r \in Runs, Admission(r)
    PROVE  TrackInv'
<1> USE DEF Become, TInv, bookVars, extVars, histVars
<1>1. drained' = drained /\ \A s \in Runs \ {r} : Same(s)
  BY DEF Same, Admission, CheckBudget, CountInFlight, InsertRow, InsertReserving, CommitReserved
<1>2. pc[r] \in Requesting /\ row[r] = "none"
  BY DEF Admission, CheckBudget, CountInFlight, InsertRow, InsertReserving, CommitReserved,
         TrackInv, Track, Life, Charge, Requesting
<1>3. Life(r)'
  <2>1. Life(r)
    BY DEF TrackInv, Track
  <2>2. CASE InsertRow(r) \/ CommitReserved(r)
    BY <2>1, <2>2 DEF InsertRow, CommitReserved, Life, Requesting, Executing
  <2>3. CASE CheckBudget(r) \/ CountInFlight(r) \/ InsertReserving(r)
    BY <2>1, <2>3 DEF CheckBudget, CountInFlight, InsertReserving, Life, Requesting, Executing
  <2> QED BY <2>2, <2>3 DEF Admission
<1>4. ASSUME r \notin drained PROVE Charge(r)'
  <2>1. Charge(r)
    BY <1>4 DEF TrackInv, Track
  <2>2. settle[r] = "no" /\ ~(debited[r] > 0)
    BY <1>2, <1>4, <2>1 DEF Charge, Requesting
  <2>3. /\ settle' = settle /\ debited' = debited /\ spent' = spent
        /\ brain' = brain /\ worker' = worker /\ writing' = writing
    BY DEF Admission, CheckBudget, CountInFlight, InsertRow, InsertReserving, CommitReserved
  <2> QED BY <2>1, <2>2, <2>3 DEF Charge
<1> QED BY <1>1, <1>3, <1>4, OneTrack DEF Track

LEMMA ExecutionOthers ==
    ASSUME TInv, NEW r \in Runs, Execution(r)
    PROVE  drained' = drained /\ \A s \in Runs \ {r} : Same(s)
<1> USE DEF Become, Leave, End, TInv, Same, runVars, bookVars, extVars, histVars
<1>1. CASE Claim(r) \/ Reconcile(r)
  BY <1>1 DEF Claim, Reconcile
<1>2. CASE Recheck(r) \/ ReadWallet(r)
  BY <1>2 DEF Recheck, ReadWallet, Start
<1>3. CASE CommitHold(r)
  BY <1>3 DEF CommitHold, Start
<1>4. CASE Spend(r) \/ RecordCost(r)
  BY <1>4 DEF Spend, RecordCost
<1>5. CASE Park(r) \/ Resolve(r) \/ Finish(r) \/ Cancel(r)
  BY <1>5 DEF Park, Resolve, Finish, Cancel
<1> QED BY <1>1, <1>2, <1>3, <1>4, <1>5 DEF Execution

LEMMA ExecutionLife ==
    ASSUME TInv, NEW r \in Runs, Life(r), Execution(r)
    PROVE  Life(r)'
<1> USE DEF Become, Leave, End, Ended, TInv, Life, Requesting, Executing,
            runVars, bookVars, extVars, histVars
<1>1. CASE Claim(r)
  BY <1>1 DEF Claim
<1>2. CASE Reconcile(r)
  BY <1>2 DEF Reconcile
<1>3. CASE Recheck(r)
  BY <1>3 DEF Recheck, Start
<1>4. CASE ReadWallet(r)
  BY <1>4 DEF ReadWallet
<1>5. CASE CommitHold(r)
  BY <1>5 DEF CommitHold, Start
<1>6. CASE Spend(r) \/ RecordCost(r)
  BY <1>6 DEF Spend, RecordCost
<1>7. CASE Park(r)
  BY <1>7 DEF Park
<1>8. CASE Resolve(r) \/ Finish(r)
  BY <1>8 DEF Resolve, Finish
<1>9. CASE Cancel(r)
  BY <1>9 DEF Cancel
<1> QED BY <1>1, <1>2, <1>3, <1>4, <1>5, <1>6, <1>7, <1>8, <1>9 DEF Execution

\* A coroutine acts for a run that was never settled, and leaves it ended.
LEMMA ExecutionCharge ==
    ASSUME TInv, NEW r \in Runs, Life(r), Charge(r), Execution(r)
    PROVE  Charge(r)'
<1> USE DEF Become, Leave, End, Ended, TInv, Charge, runVars, bookVars, extVars, histVars
<1>1. CASE Claim(r)
  BY <1>1 DEF Claim
<1>2. CASE Reconcile(r)
  BY <1>2 DEF Reconcile
<1>3. CASE Recheck(r)
  BY <1>3 DEF Recheck, Start
<1>4. CASE ReadWallet(r)
  BY <1>4 DEF ReadWallet
<1>5. CASE CommitHold(r)
  BY <1>5 DEF CommitHold, Start
<1>6. CASE Spend(r)
  BY <1>6 DEF Spend
<1>7. CASE RecordCost(r)
  BY <1>7 DEF RecordCost
<1>8. CASE Park(r)
  BY <1>8 DEF Park
<1>9. CASE Resolve(r) \/ Finish(r)
  BY <1>9 DEF Resolve, Finish
<1>10. CASE Cancel(r)
  <2>1. row[r] = "queued" => pc[r] = "idle"
    BY DEF Life, PCs
  <2> QED BY <1>10, <2>1 DEF Cancel
<1> QED BY <1>1, <1>2, <1>3, <1>4, <1>5, <1>6, <1>7, <1>8, <1>9, <1>10 DEF Execution

LEMMA ExecutionTrack ==
    ASSUME TInv, TrackInv, NEW r \in Runs, Execution(r)
    PROVE  TrackInv'
<1>1. drained' = drained /\ \A s \in Runs \ {r} : Same(s)
  BY ExecutionOthers
<1>2. Track(r)
  BY DEF TrackInv
<1>3. Track(r)'
  BY <1>1, <1>2, ExecutionLife, ExecutionCharge DEF Track
<1> QED BY <1>1, <1>3, OneTrack

LEMMA SettlementTrack ==
    ASSUME TInv, TInv', TrackInv, NEW r \in Runs, Settlement(r)
    PROVE  TrackInv'
<1> USE DEF TInv, runVars, bookVars, extVars, histVars
<1>1. CASE SettleRun(r)
  <2>1. PICK a \in Nat :
            /\ a = Due(r)
            /\ \/ UNCHANGED debited
               \/ hold[r] # "none" /\ debited' = [debited EXCEPT ![r] = @ + a]
    BY <1>1, DueType DEF SettleRun, Debit
  <2>2. /\ drained' = drained /\ spent' = spent /\ UNCHANGED <<pc, row, gates, writing, brain, worker>>
        /\ settle' = [settle EXCEPT ![r] = "no"] /\ hold' = [hold EXCEPT ![r] = "none"]
        /\ settle[r] = "due"
    BY <1>1 DEF SettleRun
  <2>3. \A s \in Runs \ {r} : Same(s)
    BY <2>1, <2>2 DEF Same
  <2>4. Life(r)'
    BY <2>2 DEF TrackInv, Track, Life
  <2>5. ASSUME r \notin drained PROVE Charge(r)'
    <3>1. Charge(r)
      BY <2>5 DEF TrackInv, Track
    <3>2. a <= spent[r]
      BY <2>1, <3>1 DEF Charge, Due
    <3>3. debited'[r] = debited[r] \/ (debited[r] = 0 /\ debited'[r] = a)
      BY <2>1, <3>1 DEF Charge
    <3> QED BY <2>2, <3>1, <3>2, <3>3 DEF Charge
  <2> QED BY <2>2, <2>3, <2>4, <2>5, OneTrack DEF Track
<1>2. CASE SettleFails(r) \/ MarkDebitFailed(r) \/ Sweep(r)
  <2>1. /\ drained' = drained /\ UNCHANGED <<pc, row, gates, writing, brain, worker, spent, debited>>
        /\ \/ settle' = settle
           \/ settle[r] # "no" /\ settle' = [settle EXCEPT ![r] = settle'[r]]
        /\ hold' = hold \/ hold' = [hold EXCEPT ![r] = "none"]
    BY <1>2 DEF SettleFails, MarkDebitFailed, Sweep
  <2>2. \A s \in Runs \ {r} : Same(s)
    BY <2>1 DEF Same
  <2>3. Track(r)'
    BY <2>1 DEF TrackInv, Track, Life, Charge
  <2> QED BY <2>1, <2>2, <2>3, OneTrack
<1> QED BY <1>1, <1>2 DEF Settlement

\* A metered call leaves runs and payments alone.
LEMMA MeteredKeeps ==
    ASSUME NEW c \in Calls, Metered(c)
    PROVE  UNCHANGED <<key, alock, pc, row, gates, hold, swept, settle, writing, brain, worker, log,
                       paid, spent, debited, owed, late, drained>>
<1> USE DEF runVars, bookVars, histVars
<1>1. CASE CheckCall(c) \/ ReserveCall(c) \/ CommitCall(c)
  BY <1>1 DEF CheckCall, ReserveCall, CommitCall
<1>2. CASE SettleCall(c)
  BY <1>2 DEF SettleCall
<1>3. CASE MarkCall(c) \/ SweepCall(c)
  BY <1>3 DEF MarkCall, SweepCall
<1> QED BY <1>1, <1>2, <1>3 DEF Metered

LEMMA OutsideTrack ==
    ASSUME TInv, TInv', TrackInv,
           \/ \E c \in Calls : Metered(c)
           \/ \E p \in Payments : TopUp(p)
           \/ Crash \/ Drain
    PROVE  TrackInv'
<1> USE DEF TInv, runVars, bookVars, extVars, histVars
<1>1. CASE \/ \E c \in Calls : Metered(c)
           \/ \E p \in Payments : TopUp(p)
  <2>1. drained' = drained /\ \A s \in Runs : Same(s)
    BY <1>1, MeteredKeeps DEF TopUp, Same
  <2> QED BY <2>1 DEF TrackInv, Track, Life, Charge, Same
<1>2. CASE Crash
  <2> SUFFICES ASSUME NEW r \in Runs PROVE Track(r)'
    BY DEF TrackInv
  <2>1. /\ pc'[r] = "idle" \/ (pc'[r] = pc[r] /\ pc[r] = "new")
        /\ settle'[r] = "no" /\ writing'[r] = 0
    BY <1>2 DEF Crash, Zero
  <2>2. UNCHANGED <<row, gates, hold, brain, worker, spent, debited, drained>>
    BY <1>2 DEF Crash
  <2>3. Track(r)
    BY DEF TrackInv
  <2>4. Life(r)'
    BY <2>1, <2>2, <2>3 DEF Track, Life, Requesting, Executing
  <2>5. r \notin drained => Charge(r)'
    BY <2>1, <2>2, <2>3 DEF Track, Charge
  <2> QED BY <2>2, <2>4, <2>5 DEF Track
<1>3. CASE Drain
  <2> SUFFICES ASSUME NEW r \in Runs PROVE Track(r)'
    BY DEF TrackInv
  <2>1. UNCHANGED <<row, gates, hold, writing, brain, worker, spent, debited>>
    BY <1>3 DEF Drain
  <2>2. Track(r)
    BY DEF TrackInv
  <2>3. CASE pc[r] \in Executing
    <3>1. pc'[r] = "idle" /\ r \in drained'
      BY <1>3, <2>3 DEF Drain
    <3> QED BY <2>1, <2>2, <3>1 DEF Track, Life, Requesting, Executing
  <2>4. CASE pc[r] \notin Executing
    <3>1. pc'[r] = pc[r] /\ settle'[r] = settle[r] /\ (r \notin drained' => r \notin drained)
      BY <1>3, <2>4 DEF Drain
    <3> QED BY <2>1, <2>2, <3>1 DEF Track, Life, Charge
  <2> QED BY <2>3, <2>4
<1> QED BY <1>1, <1>2, <1>3

LEMMA TrackStep ==
    ASSUME TInv, TInv', TrackInv, [Next]_vars
    PROVE  TrackInv'
<1>1. CASE UNCHANGED vars
  BY <1>1 DEF vars, runVars, bookVars, histVars, TrackInv, Track, Life, Charge
<1>2. CASE Next
  BY <1>2, AdmissionTrack, ExecutionTrack, SettlementTrack, OutsideTrack DEF Next
<1> QED BY <1>1, <1>2

LEMMA TrackInvariant == Spec => []TrackInv
<1>1. Init => TrackInv
  BY DEF Init, Zero, TrackInv, Track, Life, Charge, Requesting, Executing
<1>2. TInv /\ TInv' /\ TrackInv /\ [Next]_vars => TrackInv'
  BY TrackStep
<1> QED BY <1>1, <1>2, TypeInvariant, PTL DEF Spec

\* A run whose task no shutdown cancelled is charged at most once, and at most what it spent,
\* whatever cancels, claims, sweeps, failures and deaths it goes through.
THEOREM ChargedOnce == Spec => []UndrainedChargedAtMostSpent
<1>1. TrackInv => UndrainedChargedAtMostSpent
  BY DEF TrackInv, Track, Charge, UndrainedChargedAtMostSpent
<1> QED BY <1>1, TrackInvariant, PTL

-----------------------------------------------------------------------------
(* Admission: the cap and the key, decided by the only one that counts.    *)

Ungated == {r \in InFlight : gates[r] = 0}
Rowed   == {r \in Runs : row[r] # "none"}

CapInv ==
    /\ Cardinality(Ungated) <= MaxRuns
    /\ \A r \in Runs : pc[r] \in {"counted", "mcp"} => Cardinality(Ungated) < MaxRuns

KeyInv ==
    /\ OneRunPerKey
    /\ \A r \in Runs : pc[r] = "mcp" => Existing(r) = {}

AdmitInv == CapInv /\ KeyInv

LEMMA InFlightFinite ==
    /\ IsFiniteSet(InFlight) /\ Cardinality(InFlight) \in Nat
    /\ IsFiniteSet(Ungated) /\ Cardinality(Ungated) \in Nat
    /\ Cardinality(Ungated) <= Cardinality(InFlight)
<1>1. IsFiniteSet(Runs) /\ InFlight \subseteq Runs /\ Ungated \subseteq InFlight
  BY LedgerAssumption DEF InFlight, Ungated
<1> QED BY <1>1, FS_Subset, FS_CardinalityType

\* Nobody is admitted, and nobody starts to count.
LEMMA AdmitKept ==
    ASSUME AdmitInv, Ungated' \subseteq Ungated, Rowed' = Rowed, key' = key,
           \A s \in Runs : /\ pc'[s] \in {"counted", "mcp"} => pc[s] \in {"counted", "mcp"}
                           /\ pc'[s] = "mcp" => pc[s] = "mcp"
    PROVE  AdmitInv'
<1>1. IsFiniteSet(Ungated) /\ Cardinality(Ungated) \in Nat
  BY InFlightFinite
<1>2. Cardinality(Ungated') \in Nat /\ Cardinality(Ungated') <= Cardinality(Ungated)
  BY <1>1, FS_Subset, FS_CardinalityType
<1>3. CapInv'
  BY <1>1, <1>2, LedgerAssumption DEF AdmitInv, CapInv
<1>4. OneRunPerKey'
  BY DEF AdmitInv, KeyInv, OneRunPerKey, Rowed
<1>5. \A r \in Runs : Existing(r)' = Existing(r)
  BY DEF Existing, Rowed
<1> QED BY <1>3, <1>4, <1>5 DEF AdmitInv, KeyInv

\* One run is admitted, by the holder of the advisory lock.
LEMMA AdmitOne ==
    ASSUME AdmitInv, LockInv', alock' = None, NEW r \in Runs,
           pc[r] \in {"counted", "mcp"}, Existing(r) = {}, key' = key,
           Ungated' \subseteq Ungated \cup {r}, Rowed' \subseteq Rowed \cup {r}
    PROVE  AdmitInv'
<1>1. IsFiniteSet(Ungated \cup {r}) /\ Cardinality(Ungated \cup {r}) \in Nat
      /\ Cardinality(Ungated \cup {r}) <= Cardinality(Ungated) + 1
  <2>1. /\ IsFiniteSet(Ungated \cup {r})
        /\ Cardinality(Ungated \cup {r}) =
               IF r \in Ungated THEN Cardinality(Ungated) ELSE Cardinality(Ungated) + 1
    BY InFlightFinite, FS_AddElement
  <2> QED BY <2>1, InFlightFinite
<1>2. Cardinality(Ungated') \in Nat /\ Cardinality(Ungated') <= Cardinality(Ungated \cup {r})
  BY <1>1, FS_Subset, FS_CardinalityType
<1>3. Cardinality(Ungated) < MaxRuns
  BY DEF AdmitInv, CapInv
<1>4. \A s \in Runs : pc'[s] \notin {"counted", "mcp"}
  BY LedgerAssumption DEF LockInv, SpaceLocked
<1>5. CapInv'
  BY <1>1, <1>2, <1>3, <1>4, InFlightFinite, LedgerAssumption DEF CapInv
<1>6. OneRunPerKey'
  <2> SUFFICES ASSUME NEW s \in Rowed', NEW u \in Rowed', key[s] = key[u] PROVE s = u
    BY DEF OneRunPerKey, Rowed
  <2>1. \A x \in Rowed : key[x] # key[r]
    BY DEF Existing, Rowed
  <2>2. CASE s \in Rowed /\ u \in Rowed
    BY <2>2 DEF AdmitInv, KeyInv, OneRunPerKey, Rowed
  <2> QED BY <2>1, <2>2
<1> QED BY <1>4, <1>5, <1>6 DEF AdmitInv, KeyInv

LEMMA AdmissionAdmits ==
    ASSUME TInv, TInv', LockInv, LockInv', AdmitInv, NEW r \in Runs, Admission(r)
    PROVE  AdmitInv'
<1> USE DEF Become, TInv
<1>1. CASE CheckBudget(r)
  <2>1. UNCHANGED <<row, gates, key>> /\ Ungated' = Ungated /\ Rowed' = Rowed
    BY <1>1 DEF CheckBudget, Ungated, InFlight, Rowed
  <2>2. \A s \in Runs : pc'[s] \in {"counted", "mcp"} => pc'[s] = pc[s]
    BY <1>1 DEF CheckBudget
  <2> QED BY <2>1, <2>2, AdmitKept
<1>2. CASE CountInFlight(r)
  <2>1. UNCHANGED <<row, gates, key>> /\ Ungated' = Ungated /\ Rowed' = Rowed
    BY <1>2 DEF CountInFlight, Ungated, InFlight, Rowed
  <2>2. CASE Cardinality(InFlight) >= MaxRuns
    <3>1. \A s \in Runs : pc'[s] \in {"counted", "mcp"} => pc'[s] = pc[s]
      BY <1>2, <2>2 DEF CountInFlight
    <3> QED BY <2>1, <3>1, AdmitKept
  <2>3. CASE ~(Cardinality(InFlight) >= MaxRuns)
    <3>1. \A s \in Runs : pc'[s] = "mcp" => pc[s] = "mcp"
      BY <1>2, <2>3 DEF CountInFlight
    <3>2. CapInv'
      BY <2>1, <2>3, InFlightFinite, LedgerAssumption DEF AdmitInv, CapInv
    <3>3. KeyInv'
      BY <2>1, <3>1 DEF AdmitInv, KeyInv, OneRunPerKey, Existing
    <3> QED BY <3>2, <3>3 DEF AdmitInv
  <2> QED BY <2>2, <2>3
<1>3. CASE InsertRow(r)
  <2>1. alock' = None /\ pc[r] = "counted" /\ UNCHANGED <<gates, key>>
    BY <1>3 DEF InsertRow
  <2>2. CASE Existing(r) = {}
    <3>1. Ungated' \subseteq Ungated \cup {r} /\ Rowed' \subseteq Rowed \cup {r}
      BY <1>3, <2>2 DEF InsertRow, Ungated, InFlight, Rowed
    <3> QED BY <2>1, <2>2, <3>1, AdmitOne
  <2>3. CASE Existing(r) # {}
    <3>1. row' = row
      BY <1>3, <2>3 DEF InsertRow
    <3>2. Ungated' = Ungated /\ Rowed' = Rowed
      BY <2>1, <3>1 DEF Ungated, InFlight, Rowed
    <3>3. \A s \in Runs : pc'[s] \in {"counted", "mcp"} => pc'[s] = pc[s]
      BY <1>3 DEF InsertRow
    <3> QED BY <2>1, <3>2, <3>3, AdmitKept
  <2> QED BY <2>2, <2>3
<1>4. CASE InsertReserving(r)
  <2>1. UNCHANGED <<row, gates, key>> /\ Ungated' = Ungated /\ Rowed' = Rowed
    BY <1>4 DEF InsertReserving, Ungated, InFlight, Rowed
  <2>2. pc[r] = "counted" /\ Existing(r) = {}
    BY <1>4 DEF InsertReserving
  <2>3. \A s \in Runs : pc'[s] \in {"counted", "mcp"} => s = r \/ pc'[s] = pc[s]
    BY <1>4 DEF InsertReserving
  <2>4. CapInv'
    BY <2>1, <2>2, <2>3 DEF AdmitInv, CapInv
  <2>5. \A s \in Runs : Existing(s)' = Existing(s)
    BY <2>1 DEF Existing
  <2>6. OneRunPerKey'
    BY <2>1 DEF AdmitInv, KeyInv, OneRunPerKey
  <2>7. KeyInv'
    BY <2>2, <2>3, <2>5, <2>6 DEF AdmitInv, KeyInv
  <2> QED BY <2>4, <2>7 DEF AdmitInv
<1>5. CASE CommitReserved(r)
  <2>1. alock' = None /\ pc[r] = "mcp" /\ UNCHANGED <<gates, key>>
    BY <1>5 DEF CommitReserved
  <2>2. Existing(r) = {}
    BY <2>1 DEF AdmitInv, KeyInv
  <2>3. Ungated' \subseteq Ungated \cup {r} /\ Rowed' \subseteq Rowed \cup {r}
    BY <1>5 DEF CommitReserved, Ungated, InFlight, Rowed
  <2> QED BY <2>1, <2>2, <2>3, AdmitOne
<1> QED BY <1>1, <1>2, <1>3, <1>4, <1>5 DEF Admission

\* An executor moves a row that exists, and brings one back from a gate only.
LEMMA ExecutionAdmits ==
    ASSUME TInv, TInv', TrackInv, AdmitInv, NEW r \in Runs, Execution(r)
    PROVE  AdmitInv'
<1> USE DEF Become, Leave, End, Ended, TInv, runVars
<1>1. row[r] # "none" \/ (row' = row /\ gates' = gates)
  BY DEF TrackInv, Track, Life, Executing, Execution, Claim, Reconcile, Recheck, Start, ReadWallet,
         CommitHold, Spend, RecordCost, Park, Resolve, Finish, Cancel
<1>2. key' = key
  BY DEF Execution, Claim, Reconcile, Recheck, ReadWallet, CommitHold, Spend, RecordCost, Park,
         Resolve, Finish, Cancel
<1>3. /\ \A s \in Runs \ {r} : row'[s] = row[s] /\ gates'[s] = gates[s] /\ pc'[s] = pc[s]
      /\ pc'[r] = pc[r] \/ pc'[r] \notin {"counted", "mcp"}
      /\ gates'[r] >= gates[r]
      /\ row[r] # "none" => row'[r] # "none"
      /\ row'[r] \in {"queued", "running"} /\ row[r] \notin {"queued", "running"} =>
             row[r] = "gated" /\ gates'[r] = gates[r]
  <2>1. CASE Claim(r) \/ Reconcile(r)
    BY <2>1 DEF Claim, Reconcile
  <2>2. CASE Recheck(r) \/ CommitHold(r)
    <3>1. row[r] \in {"running", "gated", "ended"}
      BY <2>2 DEF TrackInv, Track, Life, Executing, Recheck, CommitHold
    <3>2. CASE Recheck(r)
      BY <3>1, <3>2 DEF Recheck, Start
    <3>3. CASE CommitHold(r)
      <4>1. gates' = gates
        BY <3>3 DEF CommitHold
      <4>2. CASE Leave(r) /\ UNCHANGED row
        BY <3>1, <4>1, <4>2
      <4>3. CASE /\ Become(r, "work")
                 /\ UNCHANGED row \/ (~Ended(r) /\ row' = [row EXCEPT ![r] = "running"])
        BY <3>1, <4>1, <4>3
      <4> QED BY <3>3, <4>2, <4>3 DEF CommitHold, Start
    <3> QED BY <2>2, <3>2, <3>3
  <2>3. CASE ReadWallet(r)
    BY <2>3 DEF ReadWallet
  <2>4. CASE Spend(r) \/ RecordCost(r)
    BY <2>4 DEF Spend, RecordCost
  <2>5. CASE Park(r) \/ Resolve(r) \/ Finish(r) \/ Cancel(r)
    BY <2>5 DEF Park, Resolve, Finish, Cancel
  <2> QED BY <2>1, <2>2, <2>3, <2>4, <2>5 DEF Execution
<1>4. Rowed' = Rowed
  BY <1>1, <1>3 DEF Rowed
<1>5. Ungated' \subseteq Ungated
  <2>1. row[r] = "gated" => gates[r] > 0
    BY DEF TrackInv, Track, Life
  <2> QED BY <1>3, <2>1 DEF Ungated, InFlight
<1> QED BY <1>2, <1>3, <1>4, <1>5, AdmitKept

LEMMA RestAdmits ==
    ASSUME TInv, TInv', AdmitInv,
           \/ \E r \in Runs : Settlement(r)
           \/ \E c \in Calls : Metered(c)
           \/ \E p \in Payments : TopUp(p)
           \/ Crash \/ Drain
    PROVE  AdmitInv'
<1> USE DEF runVars
<1>1. UNCHANGED <<row, gates, key>>
  BY MeteredKeeps DEF Settlement, SettleRun, SettleFails, MarkDebitFailed, Sweep, TopUp,
         Crash, Drain
<1>2. \A s \in Runs : pc'[s] \in {"counted", "mcp"} => pc'[s] = pc[s]
  BY MeteredKeeps DEF Settlement, SettleRun, SettleFails, MarkDebitFailed, Sweep, TopUp,
         Crash, Drain, TInv
<1>3. Ungated' = Ungated /\ Rowed' = Rowed
  BY <1>1 DEF Ungated, InFlight, Rowed
<1> QED BY <1>1, <1>2, <1>3, AdmitKept

LEMMA AdmitStep ==
    ASSUME TInv, TInv', LockInv, LockInv', TrackInv, AdmitInv, [Next]_vars
    PROVE  AdmitInv'
<1>1. CASE UNCHANGED vars
  BY <1>1, AdmitKept DEF vars, runVars, Ungated, InFlight, Rowed
<1>2. CASE Next
  BY <1>2, AdmissionAdmits, ExecutionAdmits, RestAdmits DEF Next
<1> QED BY <1>1, <1>2

LEMMA AdmitInvariant == Spec => []AdmitInv
<1>1. Init => AdmitInv
  <2> SUFFICES ASSUME Init PROVE AdmitInv
    OBVIOUS
  <2>1. Ungated = {}
    BY DEF Init, Ungated, InFlight
  <2>2. Cardinality(Ungated) = 0
    BY <2>1, FS_EmptySet
  <2> QED BY <2>2, LedgerAssumption DEF Init, AdmitInv, CapInv, KeyInv, OneRunPerKey
<1>2. TInv /\ TInv' /\ LockInv /\ LockInv' /\ TrackInv /\ AdmitInv /\ [Next]_vars => AdmitInv'
  BY AdmitStep
<1> QED BY <1>1, <1>2, LockInvariant, TrackInvariant, PTL DEF Spec

\* However many requests are admitted at the same time, the in-flight cap holds for the runs
\* that have not waited at a gate: the count and the insert are under one advisory lock.
THEOREM AdmissionCapHolds == Spec => []CapHolds
<1>1. AdmitInv => CapHolds
  BY DEF AdmitInv, CapInv, Ungated, CapHolds
<1> QED BY <1>1, AdmitInvariant, PTL

\* Of all requests with one key, on either path, one creates a run.
THEOREM KeyAdmitsOnce == Spec => []OneRunPerKey
<1>1. AdmitInv => OneRunPerKey
  BY DEF AdmitInv, KeyInv
<1> QED BY <1>1, AdmitInvariant, PTL

-----------------------------------------------------------------------------
(* A reservation is closed by a debit of all that was recorded.            *)

\* Nobody reserved for, swept or drained a run that is not admitted yet.
Untouched(r) == pc[r] \in Requesting => hold[r] = "none" /\ ~swept[r] /\ r \notin drained

\* Of a run that is owed for, a reservation that is no longer open was settled after the
\* end, and no coroutine or record is left that could add to the spend.
Paid(r) ==
    r \in owed =>
        /\ r \notin drained /\ ~swept[r]
        /\ hold[r] = "none" =>
               /\ row[r] = "ended" /\ pc[r] = "idle"
               /\ r \in late \/ (writing[r] = 0 /\ debited[r] >= brain[r] + worker[r])

PaidInv == \A r \in Runs : Untouched(r) /\ Paid(r)

SameDues(s) ==
    /\ swept'[s] = swept[s]
    /\ s \in owed' <=> s \in owed
    /\ s \in late => s \in late'
    /\ s \in drained' <=> s \in drained

LEMMA OnePaid ==
    ASSUME PaidInv, NEW r \in Runs,
           \A s \in Runs \ {r} : Same(s) /\ SameDues(s),
           Untouched(r)', Paid(r)'
    PROVE  PaidInv'
<1>1. ASSUME NEW s \in Runs, s # r PROVE Untouched(s)' /\ Paid(s)'
  <2>1. Same(s) /\ SameDues(s) /\ Untouched(s) /\ Paid(s)
    BY <1>1 DEF PaidInv
  <2> QED BY <2>1 DEF Untouched, Paid, Same, SameDues
<1> QED BY <1>1 DEF PaidInv

LEMMA AdmissionPaid ==
    ASSUME TInv, PaidInv, NEW r \in Runs, Admission(r)
    PROVE  PaidInv'
<1> USE DEF Become, TInv, bookVars, extVars, histVars
<1>1. drained' = drained /\ swept' = swept
  BY DEF Admission, CheckBudget, CountInFlight, InsertRow, InsertReserving, CommitReserved
<1>0. \A s \in Runs \ {r} : Same(s) /\ SameDues(s)
  <2>1. \A s \in Runs \ {r} : Same(s)
    BY DEF Same, Admission, CheckBudget, CountInFlight, InsertRow, InsertReserving, CommitReserved
  <2>2. \A s \in Runs \ {r} : SameDues(s)
    BY DEF SameDues, Admission, CheckBudget, CountInFlight, InsertRow, InsertReserving,
           CommitReserved
  <2> QED BY <2>1, <2>2
<1>2. pc[r] \in Requesting /\ Untouched(r) /\ Paid(r)
  BY DEF Admission, CheckBudget, CountInFlight, InsertRow, InsertReserving, CommitReserved,
         PaidInv, Requesting
<1>3. CASE CommitReserved(r)
  <2>1. hold'[r] = "credits" /\ pc'[r] = "idle"
    BY <1>3 DEF CommitReserved
  <2>2. Untouched(r)' /\ Paid(r)'
    BY <1>1, <1>2, <2>1 DEF Untouched, Paid, Requesting
  <2> QED BY <1>0, <2>2, OnePaid
<1>4. CASE CheckBudget(r) \/ CountInFlight(r) \/ InsertRow(r) \/ InsertReserving(r)
  <2>1. UNCHANGED <<hold, owed, writing, brain, worker, debited>>
    BY <1>4 DEF CheckBudget, CountInFlight, InsertRow, InsertReserving
  <2>2. r \notin owed
    BY <1>2 DEF Untouched, Paid, Requesting
  <2>3. Untouched(r)' /\ Paid(r)'
    BY <1>1, <1>2, <2>1, <2>2 DEF Untouched, Paid
  <2> QED BY <1>0, <2>3, OnePaid
<1> QED BY <1>3, <1>4 DEF Admission

LEMMA ExecutionPaid ==
    ASSUME TInv, TrackInv, PaidInv, NEW r \in Runs, Execution(r)
    PROVE  PaidInv'
<1> USE DEF TInv, runVars, bookVars, extVars, histVars
<1>1. late' = late /\ drained' = drained /\ swept' = swept
  BY DEF Execution, Claim, Reconcile, Recheck, ReadWallet, CommitHold, Spend, RecordCost, Park,
         Resolve, Finish, Cancel
<1>0. \A s \in Runs \ {r} : Same(s) /\ SameDues(s)
  <2>1. \A s \in Runs \ {r} : Same(s)
    BY ExecutionOthers
  <2>2. owed' \in {owed, owed \cup {r}}
    BY DEF Execution, Claim, Reconcile, Recheck, ReadWallet, CommitHold, Spend, RecordCost, Park,
           Resolve, Finish, Cancel
  <2> QED BY <1>1, <2>1, <2>2 DEF SameDues
<1>2. Untouched(r) /\ Paid(r) /\ Life(r)
  BY DEF PaidInv, TrackInv, Track
<1>3. CASE RecordCost(r) \/ Cancel(r)
  <2>1. /\ UNCHANGED <<pc, hold, owed, debited, worker>>
        /\ row'[r] = row[r] \/ row'[r] = "ended"
        /\ \/ UNCHANGED <<writing, brain>>
           \/ writing[r] > 0
    BY <1>3 DEF RecordCost, Cancel, End
  <2>2. Untouched(r)'
    BY <1>1, <1>2, <2>1 DEF Untouched
  <2>3. Paid(r)'
    BY <1>1, <1>2, <2>1 DEF Paid
  <2> QED BY <1>0, <2>2, <2>3, OnePaid
<1>4. CASE CommitHold(r)
  <2>1. /\ hold'[r] # "none" /\ pc'[r] \notin Requesting
        /\ r \in owed' => ~swept[r] /\ r \notin drained
    <3>1. hold'[r] # "none"
      BY <1>4 DEF CommitHold
    <3>2. pc'[r] \notin Requesting
      BY <1>4 DEF CommitHold, Start, Leave, Become, Requesting
    <3>3. r \in owed' => ~swept[r] /\ r \notin drained
      BY <1>2, <1>4 DEF CommitHold, Paid
    <3> QED BY <3>1, <3>2, <3>3
  <2>2. Untouched(r)' /\ Paid(r)'
    BY <1>1, <2>1 DEF Untouched, Paid
  <2> QED BY <1>0, <2>2, OnePaid
<1>5. CASE \/ Claim(r) \/ Reconcile(r) \/ Recheck(r) \/ ReadWallet(r) \/ Spend(r) \/ Park(r)
           \/ Resolve(r) \/ Finish(r)
  <2>1. hold' = hold /\ owed' = owed
    BY <1>5 DEF Claim, Reconcile, Recheck, ReadWallet, Spend, Park, Resolve, Finish
  <2>2. \/ pc[r] \in Executing
        \/ pc[r] = "idle" /\ row[r] # "ended"
    BY <1>5 DEF Claim, Reconcile, Recheck, ReadWallet, Spend, Park, Resolve, Finish, Executing
  <2>3. pc[r] \in Executing => pc[r] # "idle"
    BY DEF Executing
  <2>4. r \in owed => hold[r] # "none"
    BY <1>2, <2>2, <2>3 DEF Paid
  <2>5. pc'[r] \notin Requesting
    <3>1. CASE Claim(r) \/ Reconcile(r)
      BY <3>1 DEF Claim, Reconcile, Leave, Become, Requesting
    <3>2. CASE Recheck(r) \/ ReadWallet(r)
      BY <3>2 DEF Recheck, ReadWallet, Start, Leave, Become, Requesting
    <3>3. CASE Spend(r) \/ Park(r) \/ Resolve(r) \/ Finish(r)
      BY <3>3 DEF Spend, Park, Resolve, Finish, Leave, Become, Requesting
    <3> QED BY <1>5, <3>1, <3>2, <3>3
  <2>6. Untouched(r)' /\ Paid(r)'
    BY <1>1, <1>2, <2>1, <2>4, <2>5 DEF Untouched, Paid
  <2> QED BY <1>0, <2>6, OnePaid
<1> QED BY <1>3, <1>4, <1>5 DEF Execution

LEMMA SettlementPaid ==
    ASSUME TInv, TrackInv, PaidInv, NEW r \in Runs, Settlement(r)
    PROVE  PaidInv'
<1> USE DEF TInv, runVars, bookVars, extVars, histVars
<1>1. Untouched(r) /\ Paid(r) /\ Track(r)
  BY DEF PaidInv, TrackInv
<1>2. CASE SettleRun(r)
  <2>1. PICK a \in Nat :
            /\ a = Due(r)
            /\ \/ UNCHANGED debited /\ (hold[r] = "none" \/ swept[r])
               \/ debited' = [debited EXCEPT ![r] = @ + a]
    BY <1>2, DueType DEF SettleRun, Debit
  <2>2. /\ UNCHANGED <<pc, row, gates, writing, brain, worker, spent, owed, drained>>
        /\ settle' = [settle EXCEPT ![r] = "no"] /\ hold' = [hold EXCEPT ![r] = "none"]
        /\ swept' = [swept EXCEPT ![r] = FALSE] /\ settle[r] = "due"
        /\ late' = IF writing[r] > 0 THEN late \cup {r} ELSE late
    BY <1>2 DEF SettleRun
  <2>3. \A s \in Runs \ {r} : Same(s) /\ SameDues(s)
    BY <2>1, <2>2 DEF Same, SameDues
  <2>4. Untouched(r)'
    BY <1>1, <2>2 DEF Untouched
  <2>5. Paid(r)'
    <3> SUFFICES ASSUME r \in owed PROVE Paid(r)'
      BY <2>2 DEF Paid
    <3>1. r \notin drained /\ ~swept[r] /\ row[r] = "ended" /\ pc[r] = "idle"
      BY <1>1, <2>2 DEF Paid, Track, Charge
    <3>2. CASE hold[r] = "none"
      <4>1. debited'[r] \in Nat /\ debited'[r] >= debited[r]
        BY <2>1
      <4>2. r \in late \/ (writing[r] = 0 /\ debited[r] >= brain[r] + worker[r])
        BY <1>1, <3>2 DEF Paid
      <4>3. r \in late' \/ (writing[r] = 0 /\ debited'[r] >= brain[r] + worker[r])
        BY <2>2, <4>1, <4>2
      <4> QED BY <2>2, <3>1, <4>3 DEF Paid
    <3>3. CASE hold[r] # "none"
      <4>1. debited'[r] >= brain[r] + worker[r]
        BY <2>1, <3>1, <3>3 DEF Due
      <4>2. writing[r] = 0 \/ r \in late'
        BY <2>2
      <4> QED BY <2>2, <3>1, <4>1, <4>2 DEF Paid
    <3> QED BY <3>2, <3>3
  <2> QED BY <2>3, <2>4, <2>5, OnePaid
<1>3. CASE SettleFails(r) \/ MarkDebitFailed(r)
  <2>1. /\ UNCHANGED <<pc, row, gates, hold, swept, writing, brain, worker>>
        /\ UNCHANGED <<spent, debited, owed, late, drained>>
        /\ \A s \in Runs \ {r} : settle'[s] = settle[s]
    BY <1>3 DEF SettleFails, MarkDebitFailed
  <2>2. \A s \in Runs \ {r} : Same(s) /\ SameDues(s)
    BY <2>1 DEF Same, SameDues
  <2>3. Untouched(r)' /\ Paid(r)'
    BY <1>1, <2>1 DEF Untouched, Paid
  <2> QED BY <2>2, <2>3, OnePaid
<1>4. CASE Sweep(r)
  <2>1. /\ hold[r] # "none" /\ owed' = owed \ {r}
        /\ hold' = [hold EXCEPT ![r] = "none"] /\ swept' = [swept EXCEPT ![r] = TRUE]
        /\ UNCHANGED <<pc, row, gates, settle, writing, brain, worker>>
        /\ UNCHANGED <<spent, debited, late, drained>>
    BY <1>4 DEF Sweep
  <2>2. \A s \in Runs \ {r} : Same(s) /\ SameDues(s)
    BY <2>1 DEF Same, SameDues
  <2>3. Untouched(r)' /\ Paid(r)'
    BY <1>1, <2>1 DEF Untouched, Paid
  <2> QED BY <2>2, <2>3, OnePaid
<1> QED BY <1>2, <1>3, <1>4 DEF Settlement

LEMMA OutsidePaid ==
    ASSUME TInv, PaidInv,
           \/ \E c \in Calls : Metered(c)
           \/ \E p \in Payments : TopUp(p)
           \/ Crash \/ Drain
    PROVE  PaidInv'
<1> USE DEF TInv, runVars, bookVars, extVars, histVars
<1> SUFFICES ASSUME NEW r \in Runs PROVE Untouched(r)' /\ Paid(r)'
  BY DEF PaidInv
<1>1. Untouched(r) /\ Paid(r)
  BY DEF PaidInv
<1>2. UNCHANGED <<row, hold, swept, brain, worker, debited, late>>
  BY MeteredKeeps DEF TopUp, Crash, Drain
<1>3. CASE \/ \E c \in Calls : Metered(c)
           \/ \E p \in Payments : TopUp(p)
  <2>1. UNCHANGED <<pc, writing, owed, drained>>
    BY <1>3, MeteredKeeps DEF TopUp
  <2> QED BY <1>1, <1>2, <2>1 DEF Untouched, Paid
<1>4. CASE Crash
  <2>1. /\ pc'[r] = "idle" \/ (pc'[r] = pc[r] /\ pc[r] = "new")
        /\ writing'[r] = 0 /\ UNCHANGED <<owed, drained>>
    BY <1>4 DEF Crash, Zero
  <2> QED BY <1>1, <1>2, <2>1 DEF Untouched, Paid, Requesting
<1>5. CASE Drain
  <2>1. /\ writing' = writing
        /\ pc'[r] = IF pc[r] \in Executing THEN "idle" ELSE pc[r]
        /\ r \in owed' => r \in owed /\ pc[r] \notin Executing
        /\ r \in drained' => r \in drained \/ pc[r] \in Executing
    BY <1>5 DEF Drain
  <2> QED BY <1>1, <1>2, <2>1 DEF Untouched, Paid, Requesting, Executing
<1> QED BY <1>3, <1>4, <1>5

LEMMA PaidStep ==
    ASSUME TInv, TrackInv, PaidInv, [Next]_vars
    PROVE  PaidInv'
<1>1. CASE UNCHANGED vars
  BY <1>1 DEF vars, runVars, bookVars, histVars, PaidInv, Untouched, Paid
<1>2. CASE Next
  BY <1>2, AdmissionPaid, ExecutionPaid, SettlementPaid, OutsidePaid DEF Next
<1> QED BY <1>1, <1>2

\* Whatever crashes, claims and failures a run goes through, an open reservation that no
\* sweep, shutdown or late record disturbed is closed only by a debit of all its spend.
THEOREM SpendIsDebited == Spec => []SpendNeverVanishes
<1>1. Init => PaidInv
  BY DEF Init, PaidInv, Untouched, Paid
<1>2. TInv /\ TrackInv /\ PaidInv /\ [Next]_vars => PaidInv'
  BY PaidStep
<1>3. TInv /\ PaidInv => SpendNeverVanishes
  BY DEF TInv, PaidInv, Paid, SpendNeverVanishes, Closed, Due
<1> QED BY <1>1, <1>2, <1>3, TypeInvariant, TrackInvariant, PTL DEF Spec

-----------------------------------------------------------------------------
(* The sum of a function over a finite set, which the library computes by  *)
(* taking one element after the other.                                     *)

First(s) == CHOOSE x \in s : TRUE
Rest(s)  == s \ {First(s)}

\* g sums f over every subset of its domain.
SumsUp(g, f) == \A s \in SUBSET (DOMAIN f) : g[s] = IF s = {} THEN 0 ELSE f[First(s)] + g[Rest(s)]

PartSums(f) == CHOOSE g : g = [s \in SUBSET (DOMAIN f) |->
                                   IF s = {} THEN 0 ELSE f[First(s)] + g[Rest(s)]]

LEMMA SumIsPartSum == ASSUME NEW f PROVE SumFunction(f) = PartSums(f)[DOMAIN f]
  BY DEF SumFunction, SumFunctionOnSet, FoldFunctionOnSet, MapThenFoldSet, PartSums, First, Rest

\* Induction over the natural numbers, for a set of them.
LEMMA AllNaturals ==
    ASSUME NEW P, P \subseteq Nat, 0 \in P, \A n \in P : n + 1 \in P
    PROVE  P = Nat
<1> DEFINE R == {ss \in Nat \X Nat : ss[1] < ss[2]}
<1>1. IsWellFoundedOn(R, Nat)
  BY NatLessThanWellFounded, Zenon DEF OpToRel
<1>2. SUFFICES ASSUME Nat \ P # {} PROVE FALSE
  OBVIOUS
<1>3. PICK m \in Nat \ P : \A n \in Nat \ P : ~(<<n, m>> \in R)
  <2> HIDE DEF R
  <2>1. Nat \ P \subseteq Nat
    OBVIOUS
  <2> QED BY <1>1, <1>2, <2>1, WFMin, Zenon
<1>4. \A n \in Nat \ P : ~(n < m)
  <2>1. \A n \in Nat : n < m => <<n, m>> \in R
    OBVIOUS
  <2> HIDE DEF R
  <2> QED BY <1>3, <2>1
<1> HIDE DEF R
<1>5. m \in Nat /\ m # 0
  BY <1>3
<1>6. m - 1 \in Nat /\ m - 1 < m /\ (m - 1) + 1 = m
  BY <1>5
<1>7. m - 1 \in P
  BY <1>4, <1>6
<1>8. m \in P
  BY <1>6, <1>7
<1> QED BY <1>3, <1>8

LEMMA RestSmaller ==
    ASSUME NEW S, IsFiniteSet(S), NEW s \in SUBSET S, s # {}
    PROVE  /\ First(s) \in s /\ Rest(s) \in SUBSET S
           /\ Cardinality(s) \in Nat /\ Cardinality(Rest(s)) \in Nat
           /\ Cardinality(Rest(s)) = Cardinality(s) - 1
<1>1. First(s) \in s
  BY DEF First
<1>2. IsFiniteSet(s) /\ Cardinality(s) \in Nat
  BY FS_Subset, FS_CardinalityType
<1>3. IsFiniteSet(Rest(s)) /\ Cardinality(Rest(s)) = Cardinality(s) - 1
  BY <1>1, <1>2, FS_RemoveElement DEF Rest
<1> QED BY <1>1, <1>2, <1>3, FS_CardinalityType DEF Rest

\* Induction over the subsets of a finite set, for a set of them.
LEMMA AllSubsets ==
    ASSUME NEW S, IsFiniteSet(S), NEW Q, {} \in Q,
           \A s \in SUBSET S : s # {} /\ Rest(s) \in Q => s \in Q
    PROVE  SUBSET S \subseteq Q
<1> DEFINE Upto(n) == \A s \in SUBSET S : Cardinality(s) <= n => s \in Q
           P == {n \in Nat : Upto(n)}
<1>1. \A s \in SUBSET S : Cardinality(s) \in Nat /\ (Cardinality(s) = 0 => s = {})
  BY FS_Subset, FS_CardinalityType, FS_EmptySet
<1>2. 0 \in P
  <2> SUFFICES ASSUME NEW s \in SUBSET S, Cardinality(s) <= 0 PROVE s \in Q
    OBVIOUS
  <2>1. Cardinality(s) = 0
    BY <1>1
  <2> QED BY <1>1, <2>1
<1>3. ASSUME NEW n \in P PROVE n + 1 \in P
  <2> SUFFICES ASSUME NEW s \in SUBSET S, Cardinality(s) <= n + 1, s # {} PROVE s \in Q
    OBVIOUS
  <2>1. Rest(s) \in SUBSET S /\ Cardinality(Rest(s)) <= n
    BY <1>3, RestSmaller
  <2> QED BY <1>3, <2>1
<1>4. P = Nat
  <2> HIDE DEF P
  <2>1. P \subseteq Nat
    BY DEF P
  <2> QED BY <1>2, <1>3, <2>1, AllNaturals
<1>5. ASSUME NEW s \in SUBSET S PROVE s \in Q
  <2>1. Cardinality(s) \in P
    BY <1>1, <1>4
  <2> QED BY <1>1, <2>1
<1> QED BY <1>5

\* Such sums exist: they are built up from the small subsets to the large ones.
LEMMA PartSumsExist ==
    ASSUME NEW S, IsFiniteSet(S), NEW f \in [S -> Int]
    PROVE  /\ PartSums(f) \in [SUBSET S -> Int]
           /\ SumsUp(PartSums(f), f)
<1> DEFINE Step(g, s) == IF s = {} THEN 0 ELSE f[First(s)] + g[Rest(s)]
           Upto(g, n) == \A s \in SUBSET S : Cardinality(s) <= n => g[s] = Step(g, s)
           P == {n \in Nat : \E g \in [SUBSET S -> Int] : Upto(g, n)}
<1>1. 0 \in P
  <2> DEFINE g == [s \in SUBSET S |-> 0]
  <2>1. \A s \in SUBSET S : Cardinality(s) <= 0 => s = {}
    <3> SUFFICES ASSUME NEW s \in SUBSET S, Cardinality(s) <= 0 PROVE s = {}
      OBVIOUS
    <3>1. IsFiniteSet(s) /\ Cardinality(s) \in Nat
      BY FS_Subset, FS_CardinalityType
    <3> QED BY <3>1, FS_EmptySet
  <2>2. g \in [SUBSET S -> Int] /\ Upto(g, 0)
    BY <2>1
  <2> QED BY <2>2
<1>2. ASSUME NEW n \in P PROVE n + 1 \in P
  <2>1. PICK g \in [SUBSET S -> Int] : Upto(g, n)
    BY <1>2
  <2> DEFINE h == [s \in SUBSET S |-> IF Cardinality(s) <= n THEN g[s] ELSE Step(g, s)]
  <2>2. \A s \in SUBSET S : s # {} => f[First(s)] \in Int /\ g[Rest(s)] \in Int
    BY RestSmaller
  <2>3. h \in [SUBSET S -> Int]
    BY <2>2
  <2>4. ASSUME NEW s \in SUBSET S, Cardinality(s) <= n + 1 PROVE h[s] = Step(h, s)
    <3>1. h[s] = Step(g, s)
      BY <2>1
    <3>2. CASE s = {}
      BY <3>1, <3>2
    <3>3. CASE s # {}
      <4>1. Cardinality(Rest(s)) <= n /\ Rest(s) \in SUBSET S
        BY <1>2, <2>4, <3>3, RestSmaller
      <4>2. h[Rest(s)] = g[Rest(s)]
        BY <4>1
      <4> HIDE DEF h
      <4> QED BY <3>1, <3>3, <4>2
    <3> QED BY <3>2, <3>3
  <2> HIDE DEF h, Step
  <2>5. Upto(h, n + 1)
    BY <2>4
  <2> QED BY <1>2, <2>3, <2>5
<1>3. P = Nat
  <2> HIDE DEF P
  <2>1. P \subseteq Nat
    BY DEF P
  <2> QED BY <1>1, <1>2, <2>1, AllNaturals
<1>4. PICK g \in [SUBSET S -> Int] : Upto(g, Cardinality(S))
  BY <1>3, FS_CardinalityType
<1>5. \A s \in SUBSET S : g[s] = Step(g, s)
  <2> SUFFICES ASSUME NEW s \in SUBSET S PROVE g[s] = Step(g, s)
    OBVIOUS
  <2>1. Cardinality(s) <= Cardinality(S)
    BY FS_Subset
  <2> HIDE DEF Step
  <2> QED BY <1>4, <2>1
<1>6. DOMAIN f = S /\ g = [s \in SUBSET S |-> Step(g, s)]
  <2> HIDE DEF Step
  <2> QED BY <1>5
<1>7. PartSums(f) = [s \in SUBSET S |-> Step(PartSums(f), s)]
  BY <1>6 DEF PartSums
<1> DEFINE h == PartSums(f)
<1>8. \A s \in SUBSET S : h[s] = Step(h, s)
  <2> HIDE DEF Step
  <2> QED BY <1>7
<1>9. h \in [SUBSET S -> Int]
  <2> DEFINE Q == {s \in SUBSET S : h[s] \in Int}
  <2> HIDE DEF h, Step
  <2>1. {} \in Q
    BY <1>8 DEF Step
  <2>2. ASSUME NEW s \in SUBSET S, s # {}, Rest(s) \in Q PROVE s \in Q
    <3>1. f[First(s)] \in Int /\ h[Rest(s)] \in Int
      BY <2>2, RestSmaller
    <3> QED BY <1>8, <2>2, <3>1 DEF Step
  <2>3. SUBSET S \subseteq Q
    <3> HIDE DEF Q
    <3> QED BY <2>1, <2>2, AllSubsets
  <2>4. \A s \in SUBSET S : h[s] \in Int
    BY <2>3
  <2>5. h = [s \in SUBSET S |-> h[s]]
    BY <1>7 DEF h
  <2> QED BY <2>4, <2>5
<1> QED BY <1>6, <1>8, <1>9 DEF SumsUp

\* One value changes, and the sum with it.
LEMMA SumChange ==
    ASSUME NEW S, IsFiniteSet(S), NEW f \in [S -> Int], NEW r \in S, NEW v \in Int
    PROVE  /\ SumFunction(f) \in Int
           /\ SumFunction([f EXCEPT ![r] = v]) = SumFunction(f) + (v - f[r])
<1> DEFINE g == [f EXCEPT ![r] = v]
           a == PartSums(f)
           b == PartSums(g)
<1>1. g \in [S -> Int] /\ g[r] = v /\ \A s \in S \ {r} : g[s] = f[s]
  OBVIOUS
<1>2. DOMAIN f = S /\ DOMAIN g = S
  OBVIOUS
<1> HIDE DEF g
<1>3. /\ a \in [SUBSET S -> Int] /\ b \in [SUBSET S -> Int]
      /\ SumsUp(a, f) /\ SumsUp(b, g)
  BY <1>1, PartSumsExist
<1>4. \A s \in SUBSET S : s # {} => /\ a[s] = f[First(s)] + a[Rest(s)]
                                    /\ b[s] = g[First(s)] + b[Rest(s)]
  BY <1>1, <1>3 DEF SumsUp
<1>5. a[{}] = 0 /\ b[{}] = 0
  BY <1>1, <1>3 DEF SumsUp
<1>6. SumFunction(f) = a[S] /\ SumFunction(g) = b[S]
  BY <1>2, SumIsPartSum
<1> HIDE DEF a, b
<1> DEFINE More(s) == b[s] = a[s] + IF r \in s THEN v - f[r] ELSE 0
           Q == {s \in SUBSET S : More(s)}
<1>7. {} \in Q
  BY <1>5
<1>8. ASSUME NEW s \in SUBSET S, s # {}, Rest(s) \in Q PROVE s \in Q
  <2>1. PICK x \in S, y \in SUBSET S : x = First(s) /\ y = Rest(s) /\ x \in s /\ y = s \ {x}
    BY <1>8, RestSmaller DEF Rest
  <2>2. a[s] = f[x] + a[y] /\ b[s] = g[x] + b[y]
    BY <1>4, <1>8, <2>1
  <2>3. f[x] \in Int /\ f[r] \in Int /\ a[y] \in Int /\ b[y] \in Int
    BY <1>3, <2>1
  <2>4. b[y] = a[y] + IF r \in y THEN v - f[r] ELSE 0
    BY <1>8, <2>1
  <2>5. CASE x = r
    <3>1. g[x] = v /\ b[y] = a[y]
      BY <1>1, <2>1, <2>3, <2>4, <2>5
    <3> QED BY <2>1, <2>2, <2>3, <2>5, <3>1
  <2>6. CASE x # r
    <3>1. g[x] = f[x] /\ (r \in s <=> r \in y)
      BY <1>1, <2>1, <2>6
    <3> QED BY <2>2, <2>3, <2>4, <3>1
  <2> QED BY <2>5, <2>6
<1>9. SUBSET S \subseteq Q
  <2> HIDE DEF Q
  <2> QED BY <1>7, <1>8, AllSubsets
<1>10. More(S)
  BY <1>9
<1>11. SumFunction(g) = SumFunction(f) + (v - f[r]) /\ SumFunction(f) \in Int
  BY <1>3, <1>10, <1>6
<1> QED BY <1>11 DEF g

LEMMA SumOfZeros == ASSUME NEW S, IsFiniteSet(S) PROVE SumFunction([x \in S |-> 0]) = 0
<1> DEFINE f == [x \in S |-> 0]
           a == PartSums(f)
<1>1. f \in [S -> Int] /\ DOMAIN f = S /\ \A x \in S : f[x] = 0
  OBVIOUS
<1> HIDE DEF f
<1>2. SumsUp(a, f)
  BY <1>1, PartSumsExist
<1>3. \A s \in SUBSET S : a[s] = IF s = {} THEN 0 ELSE f[First(s)] + a[Rest(s)]
  BY <1>1, <1>2 DEF SumsUp
<1> HIDE DEF a
<1> DEFINE Q == {s \in SUBSET S : a[s] = 0}
<1>4. {} \in Q
  BY <1>3
<1>5. ASSUME NEW s \in SUBSET S, s # {}, Rest(s) \in Q PROVE s \in Q
  <2>1. f[First(s)] = 0 /\ a[Rest(s)] = 0
    BY <1>1, <1>5, RestSmaller
  <2> QED BY <1>3, <1>5, <2>1
<1>6. SUBSET S \subseteq Q
  <2> HIDE DEF Q
  <2> QED BY <1>4, <1>5, AllSubsets
<1>7. SumFunction(f) = a[S]
  BY <1>1, SumIsPartSum DEF a
<1> QED BY <1>6, <1>7 DEF f

-----------------------------------------------------------------------------
(* The wallet is what was paid in, less what was debited. Every debit of a *)
(* run is in its log, which a claim deletes: of runs that were never       *)
(* debited, unless a shutdown settled them.                                *)

Charged == {c \in Calls : call[c] = "debited"}
Income  == Opening + Deposit * Cardinality(paid)
Billed  == CallPrice * Cardinality(Charged)
Total   == Income - SumFunction(debited) - Billed

Counted == IsFiniteSet(paid) /\ IsFiniteSet(Charged)
Logged  == drained = {} => log = debited

AgreeInv == Counted /\ Logged /\ wallet.balance = Total

\* Through every shutdown too, the balance is the opening one and every top-up, less what
\* each run was charged and every metered call.
BalanceExplained ==
    wallet.balance = Opening + Deposit * Cardinality(paid) - SumFunction(debited)
                        - CallPrice * Cardinality(Charged)

LEMMA SumTyped == TInv => SumFunction(debited) \in Int
<1> SUFFICES ASSUME TInv PROVE SumFunction(debited) \in Int
  OBVIOUS
<1>1. debited \in [Runs -> Int] /\ IsFiniteSet(Runs)
  BY LedgerAssumption DEF TInv
<1>2. SumFunction(debited) = PartSums(debited)[Runs]
  BY <1>1, SumIsPartSum
<1>3. PartSums(debited) \in [SUBSET Runs -> Int]
  BY <1>1, PartSumsExist
<1> QED BY <1>2, <1>3

LEMMA IncomeTyped == AgreeInv => Income \in Int
<1> SUFFICES ASSUME AgreeInv PROVE Income \in Int
  OBVIOUS
<1>1. Cardinality(paid) \in Nat
  BY FS_CardinalityType DEF AgreeInv, Counted
<1>2. Deposit * Cardinality(paid) \in Int
  BY <1>1, LedgerAssumption
<1> QED BY <1>2, LedgerAssumption DEF Income

LEMMA BilledTyped == AgreeInv => Billed \in Nat
<1> SUFFICES ASSUME AgreeInv PROVE Billed \in Nat
  OBVIOUS
<1>1. Cardinality(Charged) \in Nat /\ CallPrice \in Nat
  BY FS_CardinalityType, LedgerAssumption DEF AgreeInv, Counted
<1> QED BY <1>1, Product DEF Billed

\* A step that moves no credits.
LEMMA AgreeKept ==
    ASSUME AgreeInv, drained' = {} => drained = {}, wallet'.balance = wallet.balance,
           paid' = paid, Charged' = Charged, log' = log, debited' = debited
    PROVE  AgreeInv'
  BY DEF AgreeInv, Counted, Logged, Total, Income, Billed

LEMMA DebitAgrees ==
    ASSUME TInv, AgreeInv, NEW r \in Runs, NEW a \in Nat, Debit(r, a),
           drained' = drained, paid' = paid, call' = call
    PROVE  AgreeInv'
<1>1. /\ wallet' = [wallet EXCEPT !.balance = @ - a]
      /\ log' = [log EXCEPT ![r] = @ + a]
      /\ debited' = [debited EXCEPT ![r] = @ + a]
  BY DEF Debit
<1>2. wallet'.balance = wallet.balance - a /\ wallet.balance \in Int
  BY <1>1 DEF TInv
<1>3. Charged' = Charged
  BY DEF Charged
<1>4. Logged'
  BY <1>1 DEF AgreeInv, Logged, TInv
<1>5. SumFunction(debited') = SumFunction(debited) + a
  <2> DEFINE v == debited[r] + a
  <2>1. debited \in [Runs -> Int] /\ IsFiniteSet(Runs) /\ v \in Int /\ debited[r] \in Int
    BY LedgerAssumption DEF TInv
  <2>2. debited' = [debited EXCEPT ![r] = v]
    BY <1>1
  <2>3. SumFunction(debited) \in Int
    BY SumTyped
  <2>4. v - debited[r] = a
    BY <2>1
  <2> HIDE DEF v
  <2>5. SumFunction([debited EXCEPT ![r] = v]) = SumFunction(debited) + (v - debited[r])
    BY <2>1, SumChange, Zenon
  <2> QED BY <2>2, <2>4, <2>5
<1>6. PICK b \in Int, s \in Int, t \in Int : b = wallet.balance /\ s = SumFunction(debited) /\ t = Income
  BY <1>2, SumTyped, IncomeTyped
<1>7. PICK c \in Nat : c = Billed
  BY BilledTyped
<1>8. wallet'.balance = Total'
  <2>1. b = t - s - c
    BY <1>6, <1>7 DEF AgreeInv, Total
  <2>2. Income' = t /\ wallet'.balance = b - a
    BY <1>2, <1>6 DEF Income
  <2>3. Total' = t - (s + a) - c
    BY <1>3, <1>5, <1>6, <1>7, <2>2 DEF Total, Billed
  <2> QED BY <2>1, <2>2, <2>3
<1> QED BY <1>3, <1>4, <1>8 DEF AgreeInv, Counted

\* A claim deletes nothing of a run that a settlement has debited.
LEMMA ExecutionAgrees ==
    ASSUME TInv, TrackInv, AgreeInv, NEW r \in Runs, Admission(r) \/ Execution(r)
    PROVE  AgreeInv'
<1>1. drained' = drained /\ wallet' = wallet /\ paid' = paid /\ call' = call /\ debited' = debited
  BY Zenon DEF Admission, CheckBudget, CountInFlight, InsertRow, InsertReserving, CommitReserved,
         Execution, Claim, Reconcile, Recheck, ReadWallet, CommitHold, Spend, RecordCost,
         Park, Resolve, Finish, Cancel, extVars, histVars
<1>2. Charged' = Charged
  BY <1>1 DEF Charged
<1>3. CASE Claim(r)
  <2>1. log' = [log EXCEPT ![r] = 0] /\ row[r] # "ended"
    BY <1>3 DEF Claim
  <2>2. drained = {} => log[r] = 0
    BY <2>1 DEF TrackInv, Track, Charge, AgreeInv, Logged, TInv
  <2>3. drained = {} => log' = log
    BY <2>1, <2>2 DEF TInv
  <2> QED BY <1>1, <1>2, <2>3 DEF AgreeInv, Counted, Logged, Total, Income, Billed
<1>4. CASE ~Claim(r)
  <2>1. log' = log
    BY <1>4, Zenon DEF Admission, CheckBudget, CountInFlight, InsertRow, InsertReserving, CommitReserved,
         Execution, Reconcile, Recheck, ReadWallet, CommitHold, Spend, RecordCost,
         Park, Resolve, Finish, Cancel, bookVars
  <2> QED BY <1>1, <1>2, <2>1, AgreeKept
<1> QED BY <1>3, <1>4

LEMMA SettlementAgrees ==
    ASSUME TInv, AgreeInv, NEW r \in Runs, Settlement(r)
    PROVE  AgreeInv'
<1>1. drained' = drained /\ paid' = paid /\ call' = call
  BY Zenon DEF Settlement, SettleRun, SettleFails, MarkDebitFailed, Sweep, extVars, histVars
<1>2. Charged' = Charged
  BY <1>1 DEF Charged
<1>3. CASE SettleRun(r)
  <2>1. CASE Debit(r, Due(r))
    <3>1. PICK a \in Nat : a = Due(r)
      BY DueType
    <3>2. Debit(r, a)
      BY <2>1, <3>1
    <3> QED BY <1>1, <3>2, DebitAgrees
  <2>2. CASE UNCHANGED <<wallet, log, debited, debt>>
    BY <1>1, <1>2, <2>2, AgreeKept
  <2> QED BY <1>3, <2>1, <2>2 DEF SettleRun
<1>4. CASE SettleFails(r) \/ MarkDebitFailed(r) \/ Sweep(r)
  <2>1. log' = log /\ debited' = debited
    BY <1>4, Zenon DEF SettleFails, MarkDebitFailed, Sweep, bookVars, histVars
  <2>2. wallet'.balance = wallet.balance
    BY <1>4 DEF SettleFails, MarkDebitFailed, Sweep, TInv
  <2> QED BY <1>1, <1>2, <2>1, <2>2, AgreeKept
<1> QED BY <1>3, <1>4 DEF Settlement

LEMMA CountOneMore ==
    ASSUME NEW S, IsFiniteSet(S), NEW x, x \notin S
    PROVE  /\ IsFiniteSet(S \cup {x}) /\ Cardinality(S) \in Nat
           /\ Cardinality(S \cup {x}) = Cardinality(S) + 1
  BY FS_AddElement, FS_CardinalityType

LEMMA TopUpAgrees ==
    ASSUME TInv, AgreeInv, NEW p \in Payments, TopUp(p)
    PROVE  AgreeInv'
<1>1. /\ paid' = paid \cup {p} /\ p \notin paid /\ call' = call /\ log' = log
      /\ debited' = debited /\ drained' = drained
      /\ wallet' = [wallet EXCEPT !.balance = @ + Deposit]
  BY DEF TopUp, bookVars, histVars
<1>2. wallet'.balance = wallet.balance + Deposit /\ wallet.balance \in Int
  BY <1>1 DEF TInv
<1>3. PICK n \in Nat : n = Cardinality(paid) /\ Cardinality(paid') = n + 1 /\ IsFiniteSet(paid')
  BY <1>1, CountOneMore DEF AgreeInv, Counted
<1>4. Charged' = Charged
  BY <1>1 DEF Charged
<1>5. PICK x \in Int : x = Deposit * n /\ Deposit * (n + 1) = x + Deposit
  BY LedgerAssumption
<1>6. PICK s \in Int, c \in Nat, d \in Nat, o \in Int :
          s = SumFunction(debited) /\ c = Billed /\ d = Deposit /\ o = Opening
  BY SumTyped, BilledTyped, LedgerAssumption
<1>7. Total = o + x - s - c /\ Total' = o + (x + d) - s - c
  BY <1>1, <1>3, <1>4, <1>5, <1>6 DEF Total, Income, Billed
<1>8. wallet'.balance = Total'
  BY <1>2, <1>6, <1>7 DEF AgreeInv
<1> QED BY <1>1, <1>3, <1>4, <1>8 DEF AgreeInv, Counted, Logged

LEMMA MeterAgrees ==
    ASSUME TInv, AgreeInv, NEW c \in Calls, Metered(c)
    PROVE  AgreeInv'
<1>1. paid' = paid /\ log' = log /\ debited' = debited /\ drained' = drained
  BY MeteredKeeps
<1>2. CASE Charged' = Charged /\ wallet'.balance = wallet.balance
  BY <1>1, <1>2, AgreeKept
<1>3. CASE CheckCall(c) \/ ReserveCall(c) \/ CommitCall(c) \/ MarkCall(c) \/ SweepCall(c)
  <2>1. Charged' = Charged /\ wallet'.balance = wallet.balance
    BY <1>3 DEF CheckCall, ReserveCall, CommitCall, MarkCall, SweepCall, Calling, Charged, TInv
  <2> QED BY <1>2, <2>1
<1>4. CASE SettleCall(c)
  <2>1. call[c] = "running"
    BY <1>4 DEF SettleCall
  <2>2. CASE UNCHANGED <<wallet, debt>> /\ (Calling(c, "over") \/ Calling(c, "failed"))
    <3>1. Charged' = Charged
      BY <2>1, <2>2 DEF Charged, Calling, TInv
    <3> QED BY <1>2, <2>2, <3>1
  <2>3. CASE Calling(c, "debited") /\ wallet' = [wallet EXCEPT !.balance = @ - CallPrice]
    <3>1. Charged' = Charged \cup {c} /\ c \notin Charged
      BY <2>1, <2>3 DEF Charged, Calling, TInv
    <3>2. PICK p \in Nat : p = CallPrice /\ wallet'.balance = wallet.balance - p /\ wallet.balance \in Int
      BY <2>3, LedgerAssumption DEF TInv
    <3>3. PICK n \in Nat : n = Cardinality(Charged) /\ Cardinality(Charged') = n + 1 /\ IsFiniteSet(Charged')
      BY <3>1, CountOneMore DEF AgreeInv, Counted
    <3>4. PICK b \in Nat : b = Billed /\ Billed' = b + p
      BY <3>2, <3>3, BilledTyped, Product DEF Billed
    <3>5. PICK t \in Int, s \in Int : t = Income /\ s = SumFunction(debited) /\ Income' = t
      BY <1>1, SumTyped, IncomeTyped DEF Income
    <3>6. Total = t - s - b /\ Total' = t - s - (b + p)
      BY <1>1, <3>4, <3>5 DEF Total
    <3>7. wallet'.balance = Total'
      BY <3>2, <3>6 DEF AgreeInv
    <3> QED BY <1>1, <3>3, <3>7 DEF AgreeInv, Counted, Logged
  <2> QED BY <1>4, <2>2, <2>3 DEF SettleCall
<1> QED BY <1>3, <1>4 DEF Metered

LEMMA CrashAgrees == ASSUME TInv, AgreeInv, Crash \/ Drain \/ UNCHANGED vars PROVE AgreeInv'
<1>1. /\ wallet' = wallet /\ paid' = paid /\ log' = log /\ debited' = debited
      /\ drained' = {} => drained = {}
  BY DEF Crash, Drain, vars, bookVars, extVars, histVars
<1>2. Charged' = Charged
  BY DEF Crash, Drain, vars, extVars, Charged
<1> QED BY <1>1, <1>2, AgreeKept

LEMMA AgreeStep ==
    ASSUME TInv, TrackInv, AgreeInv, [Next]_vars
    PROVE  AgreeInv'
<1>1. CASE UNCHANGED vars
  BY <1>1, CrashAgrees
<1>2. CASE Next
  BY <1>2, ExecutionAgrees, SettlementAgrees, MeterAgrees, TopUpAgrees, CrashAgrees DEF Next
<1> QED BY <1>1, <1>2

LEMMA AgreeInvariant == Spec => [](TInv /\ AgreeInv)
<1>1. Init => AgreeInv
  <2> SUFFICES ASSUME Init PROVE AgreeInv
    OBVIOUS
  <2>1. paid = {} /\ Charged = {} /\ log = [r \in Runs |-> 0] /\ debited = log
    BY DEF Init, Charged, Zero
  <2>2. SumFunction(debited) = 0
    BY <2>1, LedgerAssumption, SumOfZeros
  <2>3. wallet.balance = Opening
    BY DEF Init
  <2>4. Total = Opening
    BY <2>1, <2>2, FS_EmptySet, LedgerAssumption DEF Total, Income, Billed
  <2> QED BY <2>1, <2>3, <2>4, FS_EmptySet DEF AgreeInv, Counted, Logged
<1>2. TInv /\ TrackInv /\ AgreeInv /\ [Next]_vars => AgreeInv'
  BY AgreeStep
<1> QED BY <1>1, <1>2, TypeInvariant, TrackInvariant, PTL DEF Spec

LEMMA Explained == TInv /\ AgreeInv => BalanceExplained
<1> SUFFICES ASSUME TInv, AgreeInv PROVE BalanceExplained
  OBVIOUS
<1>1. PICK n \in Nat, c \in Nat, s \in Int :
          n = Cardinality(paid) /\ c = Billed /\ s = SumFunction(debited)
  BY SumTyped, BilledTyped, FS_CardinalityType DEF AgreeInv, Counted
<1>2. PICK x \in Int, o \in Int : x = Deposit * n /\ o = Opening
  BY LedgerAssumption
<1>3. wallet.balance = (o + x) - s - c
  BY <1>1, <1>2 DEF AgreeInv, Total, Income
<1>4. wallet.balance = o + (x - s - c)
  BY <1>3
<1> QED BY <1>1, <1>2, <1>4 DEF BalanceExplained, Billed

\* Nothing moves the balance but a top-up that counts once, a metered call, and what a run
\* was charged: through failures, deaths, second claims and shutdowns.
THEOREM BalanceIsExplained == Spec => []BalanceExplained
  BY AgreeInvariant, Explained, PTL

\* "The wallet and the ledger never disagree": until a shutdown settles a run that goes on, the
\* balance is the opening one and every top-up, less every logged settlement and every
\* metered call, whatever fails, dies or is claimed again.
THEOREM WalletEqualsLedger == Spec => []LedgerAgrees
<1>1. TInv /\ AgreeInv => LedgerAgrees
  <2> SUFFICES ASSUME TInv, AgreeInv, drained = {} PROVE LedgerAgrees
    BY DEF LedgerAgrees
  <2>1. BalanceExplained /\ log = debited
    BY Explained DEF AgreeInv, Logged
  <2> QED BY <2>1 DEF LedgerAgrees, BalanceExplained, Charged
<1> QED BY <1>1, AgreeInvariant, PTL

-----------------------------------------------------------------------------
(* CreditLedger implements Account.                                        *)

\* Who is about to reserve has no reservation, and the credits that were read are still
\* there: the lock of the wallet keeps everybody else from spending them.
Unreserved == \A r \in Runs : pc[r] \in Requesting \cup {"credits", "usd"} => hold[r] = "none"
Promised ==
    /\ \A r \in Runs : pc[r] \in {"credits", "mcp"} => Affords(Estimate)
    /\ \A c \in Calls : call[c] = "reserving" => Affords(CallEstimate)

PromiseInv == Unreserved /\ Promised

\* Fewer reservations, and as much money: what could be afforded still can.
LEMMA AffordsKept ==
    ASSUME TInv, NEW n \in Nat, Affords(n), wallet'.balance = wallet.balance,
           Held' \subseteq Held, Lent' \subseteq Lent
    PROVE  Affords(n)'
<1>1. Reserved' <= Reserved /\ Reserved' \in Nat /\ Reserved \in Nat /\ wallet.balance \in Int
  BY ReservedSteps, ReservedNat DEF TInv
<1> QED BY <1>1 DEF Affords

\* Nobody comes to hold the lock, or the wallet stays as it is.
LEMMA PromiseKept ==
    ASSUME TInv, LockInv, PromiseInv, Quiet,
           \A s \in Runs : pc'[s] \in Requesting \cup {"credits", "usd"} =>
               pc[s] \in Requesting \cup {"credits", "usd"},
           \A s \in Runs : hold[s] = "none" => hold'[s] = "none",
           Held' \subseteq Held, Lent' \subseteq Lent,
           wallet'.balance = wallet.balance \/ WalletFree
    PROVE  PromiseInv'
<1>1. Unreserved'
  BY DEF PromiseInv, Unreserved
<1>2. ASSUME NEW s \in Runs, pc'[s] \in {"credits", "mcp"} PROVE Affords(Estimate)'
  <2>1. Affords(Estimate) /\ wlock = s
    BY <1>2 DEF Quiet, PromiseInv, Promised, LockInv, WalletLocked
  <2>2. wallet'.balance = wallet.balance
    BY <2>1, LedgerAssumption DEF WalletFree
  <2> QED BY <2>1, <2>2, AffordsKept, Finites
<1>3. ASSUME NEW c \in Calls, call'[c] = "reserving" PROVE Affords(CallEstimate)'
  <2>1. Affords(CallEstimate) /\ wlock = c
    BY <1>3 DEF Quiet, PromiseInv, Promised, LockInv, CallLocked
  <2>2. wallet'.balance = wallet.balance
    BY <2>1, LedgerAssumption DEF WalletFree
  <2> QED BY <2>1, <2>2, AffordsKept, Finites
<1> QED BY <1>1, <1>2, <1>3 DEF PromiseInv, Promised

\* A coroutine moves on. If it is to reserve, it read that the wallet affords it.
LEMMA PromiseMade ==
    ASSUME TInv, PromiseInv, NEW r \in Runs, NEW x \in PCs, pc' = [pc EXCEPT ![r] = x],
           x \in Requesting \cup {"credits", "usd"} => hold[r] = "none",
           x \in {"credits", "mcp"} => Affords(Estimate), UNCHANGED <<wallet, hold, call>>
    PROVE  PromiseInv'
<1>1. \A s \in Runs : pc'[s] = IF s = r THEN x ELSE pc[s]
  BY DEF TInv
<1>2. Unreserved'
  BY <1>1 DEF PromiseInv, Unreserved
<1>3. /\ Affords(Estimate)' <=> Affords(Estimate)
      /\ Affords(CallEstimate)' <=> Affords(CallEstimate)
  BY DEF Affords, Reserved, Held, Lent
<1> QED BY <1>1, <1>2, <1>3 DEF PromiseInv, Promised

\* A reservation is committed: nobody else was about to make one.
LEMMA PromiseDone ==
    ASSUME TInv, LockInv', PromiseInv, NEW r, wlock' = None,
           \A s \in Runs : pc'[s] \in Requesting => s # r /\ pc[s] \in Requesting,
           \A s \in Runs \ {r} : hold'[s] = hold[s]
    PROVE  PromiseInv'
<1>1. /\ \A s \in Runs : pc'[s] \notin {"credits", "usd", "mcp"}
      /\ \A c \in Calls : call'[c] # "reserving"
  BY LedgerAssumption DEF LockInv, WalletLocked, CallLocked
<1> QED BY <1>1 DEF PromiseInv, Unreserved, Promised

LEMMA AdmissionPromises ==
    ASSUME TInv, LockInv, LockInv', PromiseInv, NEW r \in Runs, Admission(r)
    PROVE  PromiseInv'
<1> USE DEF Become, Requesting, extVars
<1>1. CASE CheckBudget(r) \/ CountInFlight(r) \/ InsertRow(r) \/ InsertReserving(r)
  <2>1. hold' = hold /\ wallet' = wallet /\ call' = call /\ pc[r] \in Requesting
    BY <1>1 DEF CheckBudget, CountInFlight, InsertRow, InsertReserving
  <2>2. PICK x \in PCs : pc' = [pc EXCEPT ![r] = x] /\ (x \in {"credits", "mcp"} => Affords(Estimate))
    BY <1>1, Words DEF CheckBudget, CountInFlight, InsertRow, InsertReserving
  <2>3. hold[r] = "none"
    BY <2>1 DEF PromiseInv, Unreserved
  <2> QED BY <2>1, <2>2, <2>3, PromiseMade
<1>2. CASE CommitReserved(r)
  <2>1. wlock' = None /\ pc' = [pc EXCEPT ![r] = "idle"] /\ hold' = [hold EXCEPT ![r] = "credits"]
    BY <1>2 DEF CommitReserved
  <2> QED BY <2>1, PromiseDone DEF TInv
<1> QED BY <1>1, <1>2 DEF Admission

LEMMA ExecutionPromises ==
    ASSUME TInv, LockInv, LockInv', PromiseInv, NEW r \in Runs, Execution(r)
    PROVE  PromiseInv'
<1> USE DEF Become, Leave, runVars, extVars, Requesting
<1>1. CASE Claim(r) \/ Reconcile(r) \/ Recheck(r) \/ Park(r) \/ Resolve(r) \/ Finish(r)
  <2>1. hold' = hold /\ wallet' = wallet /\ call' = call
    BY <1>1 DEF Claim, Reconcile, Recheck, Park, Resolve, Finish
  <2>2. PICK x \in {"idle", "ask", "work", "gate"} : pc' = [pc EXCEPT ![r] = x]
    BY <1>1 DEF Claim, Reconcile, Recheck, Start, Park, Resolve, Finish
  <2> QED BY <2>1, <2>2, PromiseMade, Words
<1>2. CASE ReadWallet(r)
  <2>1. hold' = hold /\ wallet' = wallet /\ call' = call /\ hold[r] = "none"
    BY <1>2 DEF ReadWallet
  <2>2. PICK x \in PCs : pc' = [pc EXCEPT ![r] = x] /\ (x \in {"credits", "mcp"} => Affords(Estimate))
    BY <1>2, Words DEF ReadWallet
  <2> QED BY <2>1, <2>2, PromiseMade
<1>3. CASE CommitHold(r)
  <2>1. PICK x \in {"idle", "work"} : pc' = [pc EXCEPT ![r] = x]
    BY <1>3 DEF CommitHold, Start
  <2>2. wlock' = None /\ hold' = [hold EXCEPT ![r] = pc[r]]
    BY <1>3 DEF CommitHold
  <2> QED BY <2>1, <2>2, PromiseDone DEF TInv
<1>4. CASE Spend(r) \/ RecordCost(r) \/ Cancel(r)
  <2>1. UNCHANGED <<pc, hold, wallet, call>>
    BY <1>4 DEF Spend, RecordCost, Cancel
  <2>2. Held' = Held /\ Lent' = Lent
    BY <2>1 DEF Held, Lent
  <2> QED BY <2>1, <2>2, PromiseKept DEF Quiet
<1> QED BY <1>1, <1>2, <1>3, <1>4 DEF Execution

LEMMA MeteredPromises ==
    ASSUME TInv, LockInv, LockInv', PromiseInv, NEW c \in Calls, Metered(c)
    PROVE  PromiseInv'
<1>0. pc' = pc /\ hold' = hold /\ Held' = Held
  BY MeteredKeeps DEF Held
<1> USE DEF Calling, TInv
<1>1. CASE CheckCall(c) \/ SettleCall(c) \/ MarkCall(c) \/ SweepCall(c)
  <2>1. Lent' \subseteq Lent
    BY <1>1 DEF CheckCall, SettleCall, MarkCall, SweepCall, Lent
  <2>2. \A d \in Calls : call'[d] = "reserving" => call[d] = "reserving"
    BY <1>1 DEF CheckCall, SettleCall, MarkCall, SweepCall
  <2>3. wallet'.balance = wallet.balance \/ WalletFree
    BY <1>1 DEF CheckCall, SettleCall, MarkCall, SweepCall
  <2> QED BY <1>0, <2>1, <2>2, <2>3, PromiseKept DEF Quiet
<1>2. CASE ReserveCall(c)
  <2>1. wallet' = wallet /\ Lent' = Lent
    BY <1>2 DEF ReserveCall, Lent
  <2>2. \A d \in Calls : call'[d] = "reserving" => call[d] = "reserving" \/ Affords(CallEstimate)
    BY <1>2 DEF ReserveCall
  <2>3. /\ Affords(Estimate)' <=> Affords(Estimate)
        /\ Affords(CallEstimate)' <=> Affords(CallEstimate)
    BY <1>0, <2>1 DEF Affords, Reserved
  <2> QED BY <1>0, <2>2, <2>3 DEF PromiseInv, Unreserved, Promised
<1>3. CASE CommitCall(c)
  <2>1. wlock' = None
    BY <1>3 DEF CommitCall
  <2>2. /\ \A s \in Runs : pc'[s] \notin {"credits", "usd", "mcp"}
        /\ \A d \in Calls : call'[d] # "reserving"
    BY <2>1, LedgerAssumption DEF LockInv, WalletLocked, CallLocked
  <2> QED BY <1>0, <2>2 DEF PromiseInv, Unreserved, Promised
<1> QED BY <1>1, <1>2, <1>3 DEF Metered

LEMMA RestPromises ==
    ASSUME TInv, LockInv, PromiseInv,
           \/ \E r \in Runs : Settlement(r)
           \/ \E p \in Payments : TopUp(p)
           \/ Crash \/ Drain
    PROVE  PromiseInv'
<1> USE DEF runVars, extVars, Quiet
<1>1. ASSUME NEW r \in Runs, Settlement(r) PROVE PromiseInv'
  <2>1. pc' = pc /\ call' = call
    BY <1>1 DEF Settlement, SettleRun, SettleFails, MarkDebitFailed, Sweep
  <2>2. wallet'.balance = wallet.balance \/ WalletFree
    BY <1>1 DEF Settlement, SettleRun, SettleFails, MarkDebitFailed, Sweep
  <2>3. hold' = hold \/ hold' = [hold EXCEPT ![r] = "none"]
    BY <1>1 DEF Settlement, SettleRun, SettleFails, MarkDebitFailed, Sweep
  <2>4. \A s \in Runs : hold'[s] = hold[s] \/ hold'[s] = "none"
    BY <2>3 DEF TInv
  <2>5. Held' \subseteq Held /\ Lent' = Lent
    BY <2>1, <2>4 DEF Held, Lent
  <2> QED BY <2>1, <2>2, <2>4, <2>5, PromiseKept
<1>2. ASSUME NEW p \in Payments, TopUp(p) PROVE PromiseInv'
  <2>1. pc' = pc /\ call' = call /\ hold' = hold /\ WalletFree
    BY <1>2 DEF TopUp
  <2>2. Held' = Held /\ Lent' = Lent
    BY <2>1 DEF Held, Lent
  <2> QED BY <2>1, <2>2, PromiseKept
<1>3. CASE Crash \/ Drain
  <2>1. hold' = hold /\ wallet' = wallet
    BY <1>3 DEF Crash, Drain
  <2>2. \A s \in Runs : pc'[s] = pc[s] \/ pc'[s] = "idle"
    BY <1>3 DEF Crash, Drain
  <2>3. \A c \in Calls : call'[c] = "reserving" => call[c] = "reserving"
    BY <1>3 DEF Crash, Drain
  <2>4. Held' = Held /\ Lent' \subseteq Lent
    BY <1>3, <2>1 DEF Held, Lent, Crash, Drain
  <2>5. "idle" \notin Requesting \cup {"credits", "usd", "mcp"}
    BY DEF Requesting
  <2> QED BY <2>1, <2>2, <2>3, <2>4, <2>5, PromiseKept
<1> QED BY <1>1, <1>2, <1>3

LEMMA PromiseStep ==
    ASSUME TInv, LockInv, LockInv', PromiseInv, [Next]_vars
    PROVE  PromiseInv'
<1>1. CASE UNCHANGED vars
  <2>1. UNCHANGED <<pc, hold, wallet, call>> /\ Held' = Held /\ Lent' = Lent
    BY <1>1 DEF vars, runVars, extVars, Held, Lent
  <2> QED BY <2>1, PromiseKept DEF Quiet
<1>2. CASE Next
  BY <1>2, AdmissionPromises, ExecutionPromises, MeteredPromises, RestPromises DEF Next
<1> QED BY <1>1, <1>2

-----------------------------------------------------------------------------
(* An account is closed for good.                                          *)

LEMMA ClosedByRun ==
    ASSUME TInv, NEW r \in Runs, Admission(r) \/ Execution(r), NEW s \in Runs, Closed(s)
    PROVE  Closed(s)'
<1> USE DEF Become, Leave, End, TInv, runVars, bookVars, extVars, histVars
<1>1. CASE Spend(r) \/ RecordCost(r)
  BY <1>1 DEF Spend, RecordCost, Closed, Ended
<1>2. CASE Admission(r)
  <2>1. r # s
    BY <1>2 DEF Closed, Admission, CheckBudget, CountInFlight, InsertRow, InsertReserving,
                CommitReserved
  <2>2. pc'[s] = pc[s] /\ row'[s] = row[s] /\ settle'[s] = settle[s] /\ hold'[s] = hold[s]
    BY <1>2, <2>1 DEF Admission, CheckBudget, CountInFlight, InsertRow, InsertReserving,
                      CommitReserved
  <2> QED BY <2>2 DEF Closed, Ended
<1>3. CASE Claim(r) \/ Reconcile(r) \/ Cancel(r)
  <2>1. r # s
    BY <1>3 DEF Closed, Ended, Claim, Reconcile, Cancel
  <2>2. pc'[s] = pc[s] /\ row'[s] = row[s] /\ settle'[s] = settle[s] /\ hold'[s] = hold[s]
    BY <1>3, <2>1 DEF Claim, Reconcile, Cancel
  <2> QED BY <2>2 DEF Closed, Ended
<1>4. CASE Recheck(r) \/ ReadWallet(r) \/ CommitHold(r) \/ Park(r) \/ Resolve(r) \/ Finish(r)
  <2>1. r # s
    BY <1>4 DEF Closed, Recheck, ReadWallet, CommitHold, Park, Resolve, Finish
  <2>2. hold'[s] = hold[s]
    BY <1>4, <2>1 DEF Recheck, ReadWallet, CommitHold, Park, Resolve, Finish
  <2>3. pc'[s] = pc[s] /\ row'[s] = row[s] /\ settle'[s] = settle[s]
    BY <1>4, <2>1 DEF Recheck, ReadWallet, CommitHold, Start, Park, Resolve, Finish
  <2> QED BY <2>2, <2>3 DEF Closed, Ended
<1> QED BY <1>1, <1>2, <1>3, <1>4 DEF Execution

LEMMA ClosedByRest ==
    ASSUME TInv,
           \/ \E r \in Runs : Settlement(r)
           \/ \E c \in Calls : Metered(c)
           \/ \E p \in Payments : TopUp(p)
           \/ Crash \/ Drain,
           NEW s \in Runs, Closed(s)
    PROVE  Closed(s)'
<1> USE DEF TInv, runVars
<1>1. ASSUME NEW r \in Runs, Settlement(r) PROVE Closed(s)'
  <2>1. pc' = pc /\ row' = row
    BY <1>1 DEF Settlement, SettleRun, SettleFails, MarkDebitFailed, Sweep
  <2>2. settle'[s] = settle[s] /\ hold'[s] = hold[s]
    BY <1>1 DEF Closed, Settlement, SettleRun, SettleFails, MarkDebitFailed, Sweep
  <2> QED BY <2>1, <2>2 DEF Closed, Ended
<1>2. CASE \/ \E c \in Calls : Metered(c)
           \/ \E p \in Payments : TopUp(p)
  <2>1. UNCHANGED <<pc, row, settle, hold>>
    BY <1>2, MeteredKeeps DEF TopUp
  <2> QED BY <2>1 DEF Closed, Ended
<1>3. CASE Crash
  <2>1. pc'[s] = "idle" /\ row' = row /\ settle'[s] = "no" /\ hold' = hold
    BY <1>3 DEF Crash, Closed
  <2> QED BY <2>1 DEF Closed, Ended
<1>4. CASE Drain
  <2>1. pc[s] \notin Executing
    BY DEF Closed, Executing
  <2>2. pc'[s] = pc[s] /\ row' = row /\ settle'[s] = settle[s] /\ hold' = hold
    BY <1>4, <2>1 DEF Drain
  <2> QED BY <2>2 DEF Closed, Ended
<1> QED BY <1>1, <1>2, <1>3, <1>4

\* Runs close for good, and without a reservation.
LEMMA ClosedForGood ==
    ASSUME TInv, [Next]_vars
    PROVE  closed \subseteq closed' /\ \A r \in closed' : hold'[r] = "none"
<1>1. ASSUME NEW s \in Runs, Closed(s) PROVE Closed(s)'
  <2>1. CASE UNCHANGED vars
    BY <1>1, <2>1 DEF vars, runVars, Closed, Ended
  <2>2. CASE Next
    BY <1>1, <2>2, ClosedByRun, ClosedByRest DEF Next
  <2> QED BY <2>1, <2>2
<1> QED BY <1>1 DEF closed, Closed

-----------------------------------------------------------------------------
(* Every step is one of the account.                                       *)

\* The account counts as the ledger does (each module has its instance of FiniteSets).
LEMMA SameCount == \A S : Books!Cardinality(S) = Cardinality(S)
  BY DEF Cardinality, Books!Cardinality

LEMMA SameAffords ==
    ASSUME TInv, NEW n \in Nat
    PROVE  Affords(n) <=> Books!Affords(n)
<1>1. Books!InCredits = Held
  BY DEF Held, Books!InCredits
<1>2. Books!Available = wallet.balance - Reserved
  BY <1>1, SameCount DEF Books!Available, Reserved
<1>3. Reserved \in Nat /\ wallet.balance \in Int
  BY ReservedNat DEF TInv
<1> QED BY <1>2, <1>3 DEF Affords, Books!Affords

LEMMA CloseStep ==
    ASSUME UNCHANGED <<wallet, hold, spent, debited, drained, paid, call>>
    PROVE  Books!Step
  BY DEF Books!Step, Books!Close, metered, Lent

\* A reservation is made against the wallet that is locked.
LEMMA ReserveStep ==
    ASSUME TInv, LockInv, PromiseInv, NEW r \in Runs, pc[r] \in {"credits", "usd", "mcp"},
           NEW kind \in {"credits", "usd"}, pc[r] = "usd" => kind = "usd",
           hold' = [hold EXCEPT ![r] = kind],
           UNCHANGED <<wallet, spent, debited, drained, paid, call>>
    PROVE  Books!Step
<1>1. ~wallet.marked
  BY DEF LockInv, Unmarked
<1>2. hold[r] = "none"
  BY DEF PromiseInv, Unreserved, Requesting
<1>3. kind = "credits" => Books!Affords(Estimate)
  BY SameAffords, Finites DEF PromiseInv, Promised
<1>4. metered' = metered /\ Lent' = Lent
  BY DEF metered, Lent
<1>5. Books!Reserve(r, kind)
  BY <1>1, <1>2, <1>3, <1>4 DEF Books!Reserve
<1> QED BY <1>5 DEF Books!Step

LEMMA AdmissionBooks ==
    ASSUME TInv, LockInv, PromiseInv, NEW r \in Runs, Admission(r)
    PROVE  Books!Step
<1> USE DEF bookVars, extVars, histVars
<1>1. CASE CheckBudget(r) \/ CountInFlight(r) \/ InsertRow(r) \/ InsertReserving(r)
  BY <1>1, CloseStep DEF CheckBudget, CountInFlight, InsertRow, InsertReserving
<1>2. CASE CommitReserved(r)
  BY <1>2, ReserveStep DEF CommitReserved
<1> QED BY <1>1, <1>2 DEF Admission

LEMMA ExecutionBooks ==
    ASSUME TInv, LockInv, PromiseInv, NEW r \in Runs, Execution(r)
    PROVE  Books!Step
<1> USE DEF runVars, bookVars, extVars, histVars
<1>1. CASE \/ Claim(r) \/ Reconcile(r) \/ Recheck(r) \/ ReadWallet(r) \/ RecordCost(r)
           \/ Park(r) \/ Resolve(r) \/ Finish(r) \/ Cancel(r)
  BY <1>1, CloseStep
     DEF Claim, Reconcile, Recheck, ReadWallet, RecordCost, Park, Resolve, Finish, Cancel
<1>2. CASE CommitHold(r)
  <2>1. PICK kind \in {"credits", "usd"} : kind = pc[r] /\ hold' = [hold EXCEPT ![r] = kind]
    BY <1>2 DEF CommitHold
  <2> QED BY <1>2, <2>1, ReserveStep DEF CommitHold
<1>3. CASE Spend(r)
  <2>1. r \notin closed
    BY <1>3 DEF Spend, closed, Closed
  <2>2. metered' = metered /\ Lent' = Lent
    BY <1>3 DEF Spend, metered, Lent
  <2>3. Books!Spend(r)
    BY <1>3, <2>1, <2>2 DEF Spend, Books!Spend
  <2> QED BY <2>3 DEF Books!Step
<1> QED BY <1>1, <1>2, <1>3 DEF Execution

\* The bill of a run: a run whose task no shutdown cancelled was never billed before, and
\* is at its end.
LEMMA ChargeStep ==
    ASSUME TInv, TrackInv, NEW r \in Runs, SettleRun(r), hold[r] # "none", Debit(r, Due(r))
    PROVE  Books!Step
<1>1. PICK a \in Nat : a = Due(r)
  BY DueType
<1>2. /\ wallet' = [wallet EXCEPT !.balance = @ - a]
      /\ debited' = [debited EXCEPT ![r] = @ + a]
  BY <1>1 DEF Debit
<1>3. /\ settle[r] = "due" /\ settle' = [settle EXCEPT ![r] = "no"]
      /\ hold' = [hold EXCEPT ![r] = "none"]
      /\ UNCHANGED <<pc, row, spent, drained, paid, call>>
  BY DEF SettleRun, runVars, extVars
<1>4. /\ wallet'.balance = wallet.balance - a /\ wallet'.marked = wallet.marked
      /\ wallet.balance \in Int
  BY <1>2 DEF TInv
<1>5. wallet'.balance <= wallet.balance /\ wallet.balance - wallet'.balance = a
  BY <1>4
<1>6. ASSUME r \notin drained PROVE debited'[r] <= spent[r] /\ r \in closed'
  <2>1. Charge(r)
    BY <1>6 DEF TrackInv, Track
  <2>2. row[r] = "ended" /\ pc[r] = "idle"
    BY <1>3, <2>1 DEF Charge
  <2>3. debited[r] = 0 /\ a <= spent[r]
    BY <1>1, <2>1 DEF Charge, Due, TInv
  <2>4. debited'[r] <= spent[r]
    BY <1>2, <2>3 DEF TInv
  <2>5. row'[r] = "ended" /\ pc'[r] = "idle" /\ settle'[r] = "no" /\ hold'[r] = "none"
    BY <1>3, <2>2 DEF TInv
  <2> QED BY <2>4, <2>5 DEF closed, Closed, Ended
<1>7. r \notin closed /\ metered' = metered /\ Lent' = Lent
  BY <1>3 DEF closed, Closed, metered, Lent
<1>8. Books!Charge(r)
  BY <1>2, <1>3, <1>4, <1>5, <1>6, <1>7 DEF Books!Charge
<1> QED BY <1>8 DEF Books!Step

LEMMA SettlementBooks ==
    ASSUME TInv, TrackInv, NEW r \in Runs, Settlement(r)
    PROVE  Books!Step
<1> USE DEF runVars, bookVars, extVars, histVars
<1>1. ASSUME hold' = [hold EXCEPT ![r] = "none"],
             UNCHANGED <<wallet, spent, debited, drained, paid, call>>
      PROVE  Books!Step
  <2>1. metered' = metered /\ Lent' = Lent
    BY <1>1 DEF metered, Lent
  <2>2. Books!Release(r)
    BY <1>1, <2>1 DEF Books!Release
  <2> QED BY <2>2 DEF Books!Step
<1>2. CASE SettleRun(r)
  <2>1. CASE UNCHANGED <<wallet, log, debited, debt>>
    BY <1>1, <1>2, <2>1 DEF SettleRun
  <2>2. CASE hold[r] # "none" /\ Debit(r, Due(r))
    BY <1>2, <2>2, ChargeStep
  <2> QED BY <1>2, <2>1, <2>2 DEF SettleRun
<1>3. CASE SettleFails(r)
  BY <1>3, CloseStep DEF SettleFails
<1>4. CASE MarkDebitFailed(r)
  <2>1. CASE UNCHANGED wallet
    BY <1>4, <2>1, CloseStep DEF MarkDebitFailed
  <2>2. CASE wallet' = [wallet EXCEPT !.marked = TRUE]
    <3>1. wallet'.balance = wallet.balance /\ wallet'.marked = TRUE
      BY <2>2 DEF TInv
    <3>2. UNCHANGED <<hold, spent, debited, drained, paid>> /\ metered' = metered /\ Lent' = Lent
      BY <1>4 DEF MarkDebitFailed, metered, Lent
    <3>3. Books!Mark
      BY <3>1, <3>2 DEF Books!Mark
    <3> QED BY <3>3 DEF Books!Step
  <2> QED BY <1>4, <2>1, <2>2 DEF MarkDebitFailed
<1>5. CASE Sweep(r)
  BY <1>1, <1>5 DEF Sweep
<1> QED BY <1>2, <1>3, <1>4, <1>5 DEF Settlement

\* A call's reservation, its bill, the mark, and its end.
LEMMA MeteredBooks ==
    ASSUME TInv, LockInv, PromiseInv, NEW c \in Calls, Metered(c)
    PROVE  Books!Step
<1>1. UNCHANGED <<hold, spent, debited, drained, paid>>
  BY MeteredKeeps
<1> USE DEF Calling, TInv
<1>2. ASSUME wallet' = wallet, metered' = metered, Lent' = Lent PROVE Books!Step
  BY <1>1, <1>2 DEF Books!Step, Books!Close
<1>3. ASSUME wallet' = wallet, metered' = metered, Lent' = Lent \ {c} PROVE Books!Step
  <2>1. Books!Return(c)
    BY <1>1, <1>3 DEF Books!Return
  <2> QED BY <2>1 DEF Books!Step
<1>4. CASE CheckCall(c) \/ ReserveCall(c)
  <2>1. wallet' = wallet /\ metered' = metered /\ Lent' = Lent
    BY <1>4 DEF CheckCall, ReserveCall, metered, Lent
  <2> QED BY <1>2, <2>1
<1>5. CASE CommitCall(c)
  <2>1. Affords(CallEstimate) /\ ~wallet.marked /\ call[c] = "reserving" /\ wallet' = wallet
    BY <1>5 DEF CommitCall, PromiseInv, Promised, LockInv, CallLocked
  <2>2. Books!Affords(CallEstimate)
    BY <2>1, SameAffords, Finites
  <2>3. /\ metered' = metered /\ Lent' = Lent \cup {c} /\ c \notin Lent \cup metered
    BY <1>5 DEF CommitCall, metered, Lent
  <2>4. Books!Lend(c)
    BY <1>1, <2>1, <2>2, <2>3 DEF Books!Lend
  <2> QED BY <2>4 DEF Books!Step
<1>6. CASE SettleCall(c)
  <2>1. CASE Calling(c, "debited") /\ wallet' = [wallet EXCEPT !.balance = @ - CallPrice]
    <3>1. call[c] = "running"
      BY <1>6 DEF SettleCall
    <3>2. c \in Lent /\ Lent' = Lent \ {c} /\ metered' = metered \cup {c}
      BY <2>1, <3>1 DEF Lent, metered
    <3>3. wallet'.balance = wallet.balance - CallPrice /\ wallet'.marked = wallet.marked
      BY <2>1
    <3>4. Books!Bill(c)
      BY <1>1, <3>2, <3>3 DEF Books!Bill
    <3> QED BY <3>4 DEF Books!Step
  <2>2. CASE Calling(c, "over") /\ wallet' = wallet
    <3>1. metered' = metered /\ Lent' = Lent \ {c}
      BY <1>6, <2>2 DEF SettleCall, metered, Lent
    <3> QED BY <1>3, <2>2, <3>1
  <2>3. CASE Calling(c, "failed") /\ wallet' = wallet
    <3>1. metered' = metered /\ Lent' = Lent
      BY <1>6, <2>3 DEF SettleCall, metered, Lent
    <3> QED BY <1>2, <2>3, <3>1
  <2> QED BY <1>6, <2>1, <2>2, <2>3 DEF SettleCall
<1>7. CASE MarkCall(c)
  <2>1. metered' = metered /\ Lent' = Lent
    BY <1>7 DEF MarkCall, metered, Lent
  <2>2. CASE wallet' = [wallet EXCEPT !.marked = TRUE]
    <3>1. wallet'.balance = wallet.balance /\ wallet'.marked = TRUE
      BY <2>2
    <3>2. Books!Mark
      BY <1>1, <2>1, <3>1 DEF Books!Mark
    <3> QED BY <3>2 DEF Books!Step
  <2> QED BY <1>2, <1>7, <2>1, <2>2 DEF MarkCall
<1>8. CASE SweepCall(c)
  <2>1. wallet' = wallet /\ metered' = metered /\ Lent' = Lent \ {c}
    BY <1>8 DEF SweepCall, metered, Lent
  <2> QED BY <1>3, <2>1
<1> QED BY <1>4, <1>5, <1>6, <1>7, <1>8 DEF Metered

LEMMA OutsideBooks ==
    ASSUME TInv,
           \/ \E p \in Payments : TopUp(p)
           \/ Crash \/ Drain
    PROVE  Books!Step
<1> USE DEF runVars, bookVars, extVars, histVars
<1>1. ASSUME NEW p \in Payments, TopUp(p) PROVE Books!Step
  <2>1. wallet'.balance = wallet.balance + Deposit /\ wallet'.marked = wallet.marked
    BY <1>1 DEF TopUp, TInv
  <2>2. metered' = metered /\ Lent' = Lent
    BY <1>1 DEF TopUp, metered, Lent
  <2>3. Books!Pay(p)
    BY <1>1, <2>1, <2>2 DEF TopUp, Books!Pay
  <2> QED BY <2>3 DEF Books!Step
<1>2. CASE Crash
  <2>1. metered' = metered /\ Lent' = Lent
    BY <1>2 DEF Crash, metered, Lent
  <2>2. Books!Close
    BY <1>2, <2>1 DEF Crash, Books!Close
  <2> QED BY <2>2 DEF Books!Step
<1>3. CASE Drain
  <2>1. drained \subseteq drained' /\ drained' \ drained \subseteq {r \in Runs : pc[r] \in Executing}
    BY <1>3 DEF Drain
  <2>2. (drained' \ drained) \cap closed = {}
    BY <2>1 DEF closed, Closed, Executing
  <2>3. UNCHANGED <<wallet, hold, spent, debited, paid>> /\ metered' = metered /\ Lent' = Lent
    BY <1>3 DEF Drain, metered, Lent
  <2>4. Books!Interrupt
    BY <2>1, <2>2, <2>3 DEF Books!Interrupt
  <2> QED BY <2>4 DEF Books!Step
<1> QED BY <1>1, <1>2, <1>3

LEMMA StepBooks ==
    ASSUME TInv, LockInv, TrackInv, PromiseInv, [Next]_vars
    PROVE  Books!Next
<1>1. CASE UNCHANGED vars
  <2>1. Books!Step
    BY <1>1, CloseStep DEF vars, extVars, histVars
  <2> QED BY <2>1, ClosedForGood DEF Books!Next
<1>2. CASE Next
  <2>1. Books!Step
    BY <1>2, AdmissionBooks, ExecutionBooks, SettlementBooks, MeteredBooks, OutsideBooks
     DEF Next
  <2> QED BY <2>1, ClosedForGood DEF Books!Next
<1> QED BY <1>1, <1>2

LEMMA InitBooks == Init => Books!Init
<1> SUFFICES ASSUME Init PROVE Books!Init
  OBVIOUS
<1>1. closed = {} /\ metered = {} /\ Lent = {}
  BY DEF Init, closed, Closed, Ended, metered, Lent
<1> QED BY <1>1 DEF Init, Zero, Books!Init

\* The credits keep the books that Account promises, for any runs, calls and payments:
\* a reservation takes effect at once although the wallet is read and the reservation
\* written in two statements, and a run that no shutdown interrupted is billed once, at its
\* end, against a reservation of its own, for at most what it spent.
THEOREM LedgerKeepsTheBooks == Spec => KeepsTheBooks
<1>1. Spec => []PromiseInv
  <2>1. Init => PromiseInv
    BY DEF Init, PromiseInv, Unreserved, Promised
  <2>2. TInv /\ LockInv /\ (TInv /\ LockInv)' /\ PromiseInv /\ [Next]_vars => PromiseInv'
    BY PromiseStep
  <2> QED BY <2>1, <2>2, LockInvariant, PTL DEF Spec
<1>2. TInv /\ LockInv /\ TrackInv /\ PromiseInv /\ [Next]_vars => [Books!Next]_(Books!vars)
  BY StepBooks
<1> QED BY <1>1, <1>2, InitBooks, LockInvariant, TrackInvariant, PTL DEF Spec, KeepsTheBooks, Books!Spec
=============================================================================
