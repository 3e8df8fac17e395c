-------------------------- MODULE AccountRefinement --------------------------
(***************************************************************************)
(* CreditLedger implements Account: row locks, reservations in two         *)
(* statements, settlements that are scheduled, lost, failed or repeated,   *)
(* sweeps and shutdowns keep the books that Account promises.              *)
(***************************************************************************)
EXTENDS CreditLedger

closed  == {r \in Runs : Closed(r)}
metered == {c \in Calls : call[c] = "debited"}

Books == INSTANCE Account WITH
    balance <- wallet.balance, marked <- wallet.marked, reserved <- hold,
    charged <- debited, closed <- closed, shutdown <- drained, lent <- Lent,
    metered <- metered

\* "it cannot race the reservation it gates" (metering.py:813), "a reservation can never
\* leak" (budget.py:118): a reservation takes effect at once although it is read and written
\* in two statements; the account changes by payments and bills only; a bill is one per run or
\* metered call, against a reservation it closes, and final.
KeepsTheBooks == Books!Spec
=============================================================================
