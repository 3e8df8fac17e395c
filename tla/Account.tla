------------------------------- MODULE Account -------------------------------
(***************************************************************************)
(* What the billing of a workspace promises, without locks, coroutines,    *)
(* transactions, metering logs or sweeps: one account from which runs and  *)
(* metered calls reserve at once or not at all, to which each is charged   *)
(* once, a run at most what it spent, and only against a reservation of    *)
(* its own, and whose balance changes in no other way but by a payment.    *)
(***************************************************************************)
EXTENDS Integers, FiniteSets

CONSTANTS
    Runs,
    Calls,      \* metered calls
    Payments,
    Estimate,   \* what a reservation sets aside
    CallEstimate,  \* what a call sets aside
    CallPrice,  \* what it costs
    Deposit,    \* what a payment brings
    Opening

VARIABLES
    balance,
    marked,     \* a debit failed: nothing is reserved any more
    reserved,   \* [Runs -> the reservation of a run: none, in credits, in dollars]
    spent,      \* [Runs -> what the run has spent]
    charged,    \* [Runs -> what it was charged]
    closed,     \* the runs whose account is closed
    shutdown,   \* the runs that a shutdown interrupted, which are charged in parts
    lent,       \* the calls with a reservation
    paid,       \* the payments that were credited
    metered     \* the calls that were debited

vars == <<balance, marked, reserved, spent, charged, closed, shutdown, lent, paid, metered>>

Init ==
    /\ balance = Opening
    /\ marked = FALSE
    /\ reserved = [r \in Runs |-> "none"]
    /\ spent = [r \in Runs |-> 0]
    /\ charged = [r \in Runs |-> 0]
    /\ closed = {}
    /\ shutdown = {}
    /\ lent = {}
    /\ paid = {}
    /\ metered = {}

InCredits == {r \in Runs : reserved[r] = "credits"}
Available == balance - (Estimate * Cardinality(InCredits) + CallEstimate * Cardinality(lent))
Affords(estimate) == Available > 0 /\ Available >= estimate

\* A reservation in credits is covered, with all that are open, when it is made; one in
\* dollars is left to the monthly cap.
Reserve(r, kind) ==
    /\ ~marked
    /\ reserved[r] = "none"
    /\ kind = "credits" => Affords(Estimate)
    /\ reserved' = [reserved EXCEPT ![r] = kind]
    /\ UNCHANGED <<balance, marked, spent, charged, shutdown, lent, paid, metered>>

Spend(r) ==
    /\ r \notin closed
    /\ spent' = [spent EXCEPT ![r] = @ + 1]
    /\ UNCHANGED <<balance, marked, reserved, charged, shutdown, lent, paid, metered>>

\* The bill of a run takes the place of its reservation, and closes its account.
Charge(r) ==
    /\ r \notin closed
    /\ reserved[r] # "none"
    /\ balance' <= balance
    /\ charged' = [charged EXCEPT ![r] = @ + (balance - balance')]
    /\ r \notin shutdown => charged'[r] <= spent[r] /\ r \in closed'
    /\ reserved' = [reserved EXCEPT ![r] = "none"]
    /\ UNCHANGED <<marked, spent, shutdown, lent, paid, metered>>

\* A reservation expires.
Release(r) ==
    /\ reserved' = [reserved EXCEPT ![r] = "none"]
    /\ UNCHANGED <<balance, marked, spent, charged, shutdown, lent, paid, metered>>

Pay(p) ==
    /\ p \notin paid
    /\ paid' = paid \cup {p}
    /\ balance' = balance + Deposit
    /\ UNCHANGED <<marked, reserved, spent, charged, shutdown, lent, metered>>

\* A call reserves; its bill, or its end without one, takes the place of the reservation.
Lend(c) ==
    /\ ~marked
    /\ c \notin lent \cup metered
    /\ Affords(CallEstimate)
    /\ lent' = lent \cup {c}
    /\ UNCHANGED <<balance, marked, reserved, spent, charged, shutdown, paid, metered>>

Bill(c) ==
    /\ c \in lent
    /\ lent' = lent \ {c}
    /\ metered' = metered \cup {c}
    /\ balance' = balance - CallPrice
    /\ UNCHANGED <<marked, reserved, spent, charged, shutdown, paid>>

Return(c) ==
    /\ lent' = lent \ {c}
    /\ UNCHANGED <<balance, marked, reserved, spent, charged, shutdown, paid, metered>>

Mark ==
    /\ marked' = TRUE
    /\ UNCHANGED <<balance, reserved, spent, charged, shutdown, lent, paid, metered>>

Interrupt ==
    /\ shutdown \subseteq shutdown'
    /\ (shutdown' \ shutdown) \cap closed = {}
    /\ UNCHANGED <<balance, marked, reserved, spent, charged, lent, paid, metered>>

\* Runs come to their end without a bill.
Close == UNCHANGED <<balance, marked, reserved, spent, charged, shutdown, lent, paid, metered>>

Step ==
    \/ Close
    \/ \E r \in Runs :
          \/ \E kind \in {"credits", "usd"} : Reserve(r, kind)
          \/ Spend(r)
          \/ Charge(r)
          \/ Release(r)
    \/ \E p \in Payments : Pay(p)
    \/ \E c \in Calls : Lend(c) \/ Bill(c) \/ Return(c)
    \/ Mark
    \/ Interrupt

\* In any step runs may close, those without a reservation, and for good.
Next ==
    /\ Step
    /\ closed \subseteq closed'
    /\ \A r \in closed' : reserved'[r] = "none"

Spec == Init /\ [][Next]_vars
=============================================================================
