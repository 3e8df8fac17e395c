----------------------------- MODULE FileIntents -----------------------------
(***************************************************************************)
(* The dispatch-intent ledger of the single-operator deployment:           *)
(* content/<profile>/dispatch-intents.jsonl, append-only.  Replay folds    *)
(* its rows from the left, so appending a row is one step of the fold:     *)
(* led is the fold of the file, and every append below is that step.       *)
(* Appends exclude each other by flock; a claim checks and appends under   *)
(* one lock.                                                               *)
(***************************************************************************)
EXTENDS Dispatch

CONSTANT Restores   \* TRUE: the file may be restored from a backup

ASSUME RestoresAssumption == Restores \in BOOLEAN

VARIABLES
    led,   \* Replay(rows): state and owner of each recipient, the batches, the hold
    saved  \* the backup

vars == <<callVars, led, saved>>

States   == {"none", "intent", "dispatched", "unknown", "released"}
Blocking == {"intent", "dispatched", "unknown"}
Ledger   == [state: [Keys -> States], owner: [Keys -> Batches \cup {None}],
             recipients: [Batches -> SUBSET Keys], hold: BOOLEAN]
Empty    == [state |-> [k \in Keys |-> "none"], owner |-> [k \in Keys |-> None],
             recipients |-> [b \in Batches |-> {}], hold |-> FALSE]

Init == CallInit /\ led = Empty /\ saved = Empty

-----------------------------------------------------------------------------
\* Row "claim".
Claimed(b, S) ==
    led' = [led EXCEPT !.state = [k \in Keys |-> IF k \in S THEN "intent" ELSE @[k]],
                       !.owner = [k \in Keys |-> IF k \in S THEN b ELSE @[k]],
                       !.recipients[b] = S]

Mark(S, state) == [k \in Keys |-> IF k \in S THEN state ELSE led.state[k]]

\* Fault: an answer reaches every recipient the batch named, settled or not.
OwnAll(b) == led.recipients[b]

\* What an outcome or a resolution of batch b may still change.
Own(b) ==
    {k \in led.recipients[b] : led.owner[k] = b /\ led.state[k] \in {"intent", "unknown"}}

\* Fault: the word of the provider's verdict is taken for a state.
OutcomeRaw(result) == result

\* Row "outcome".
Outcome(result) ==
    CASE result = "dispatched" -> "dispatched" [] result = "failed" -> "released" [] OTHER -> "unknown"

\* decide: the whole batch is refused if one of its recipients blocks.
Decide(S) == \A k \in S : led.state[k] \in {"none", "released"}

\* FileIntentStore.claim, for a batch of one scope that is not empty.
Claim(b, S) ==
    /\ call[b].pc = "idle"
    /\ S # {}
    /\ ~led.hold
    /\ Decide(S)
    /\ Claimed(b, S)
    /\ call' = [call EXCEPT ![b] = [NoCall EXCEPT !.pc = "claimed", !.keys = S]]
    /\ UNCHANGED <<wire, landed, excused, saved>>

\* record_outcome; the write may fail, and then the intent stays open. A reconciliation
\* goes on to lift the hold, unless the write failed.
Record(b) ==
    /\ call[b].pc = "answered"
    /\ \/ /\ led' = [led EXCEPT !.state = Mark(Own(b), Outcome(call[b].result))]
          /\ IF call[b].reconciles THEN call' = [call EXCEPT ![b].pc = "lifting"] ELSE Over(b)
       \/ /\ UNCHANGED led
          /\ Over(b)
    /\ UNCHANGED <<wire, landed, excused, saved>>

\* resolve: an operator says which recipients of an open batch were sent (all: "sent",
\* none: "not_sent", or the listed ones); the others are released.
Resolve(b) ==
    /\ Own(b) # {}
    /\ \E S \in SUBSET Own(b) :
        /\ led' = [led EXCEPT !.state = [k \in Keys |->
                      IF k \in S THEN "dispatched" ELSE IF k \in Own(b) THEN "released" ELSE @[k]]]
        /\ Excuse(Own(b) \ S)
    /\ UNCHANGED <<call, wire, landed, saved>>

\* mark_removed: recipients taken out of the sequence may be enrolled again.
MarkRemoved(S) ==
    /\ S # {}
    /\ led' = [led EXCEPT !.state = Mark(S, "released")]
    /\ Excuse(S)
    /\ UNCHANGED <<call, wire, landed, saved>>

-----------------------------------------------------------------------------
(* Backup and restore (dispatch_intents_cli.py).                           *)

Backup ==
    /\ Restores
    /\ saved' = led
    /\ UNCHANGED <<callVars, led>>

\* Fault: the restore does not put dispatch on hold.
RestoreUnheld ==
    /\ Restores
    /\ \A b \in Batches : call[b].pc \in {"idle", "over"}
    /\ wire = {}
    /\ led' = saved
    /\ UNCHANGED <<callVars, saved>>

\* The operator restores the file while the service is down and no request is left at
\* the provider, and runs --restored.
Restore ==
    /\ Restores
    /\ \A b \in Batches : call[b].pc \in {"idle", "over"}
    /\ wire = {}
    /\ led' = [saved EXCEPT !.hold = TRUE]
    /\ UNCHANGED <<callVars, saved>>

\* The sequencer has them, the ledger does not block them.
Forgotten(s) == {k \in InScope(s) : led.state[k] \notin Blocking /\ \E b \in Batches : <<b, k>> \in landed}

\* --reconcile --record: what the sequencer has and the ledger forgot is claimed in
\* spite of the hold and recorded as dispatched, and then the hold is lifted. (The
\* export, the read of the ledger and the claim are one step: one operator at one console.)
Reconcile(b, s) ==
    /\ Restores
    /\ call[b].pc = "idle"
    /\ Forgotten(s) # {}
    /\ Claimed(b, Forgotten(s))
    /\ call' = [call EXCEPT ![b] = [pc |-> "answered", keys |-> Forgotten(s),
                                    result |-> "dispatched", reconciles |-> TRUE]]
    /\ UNCHANGED <<wire, landed, excused, saved>>

\* clear_hold, at once when nothing was forgotten.
ClearHold(b, s) ==
    /\ Restores
    /\ \/ call[b].pc = "lifting" /\ Over(b)
       \/ Forgotten(s) = {} /\ UNCHANGED call
    /\ led' = [led EXCEPT !.hold = FALSE]
    /\ UNCHANGED <<wire, landed, excused, saved>>

-----------------------------------------------------------------------------
Next ==
    \/ CallStep /\ UNCHANGED <<led, saved>>
    \/ \E b \in Batches : Record(b) \/ Resolve(b)
    \/ \E b \in Batches, s \in Scopes :
          \/ \E S \in SUBSET InScope(s) : Claim(b, S)
          \/ Reconcile(b, s) \/ ClearHold(b, s)
    \/ \E s \in Scopes : \E S \in SUBSET InScope(s) : MarkRemoved(S)
    \/ Backup
    \/ Restore

Spec == Init /\ [][Next]_vars
-----------------------------------------------------------------------------
TypeOK == CallType /\ led \in Ledger /\ saved \in Ledger

\* A recipient recorded as sent stays so, whatever outcomes and answers arrive late, in
\* whatever order, about whichever batch; only a removal or a restore lets it go.
SentStands ==
    [][\A k \in Keys : led.state[k] = "dispatched" /\ led'.state[k] # "dispatched"
        => Restore \/ \E S \in SUBSET Keys : k \in S /\ MarkRemoved(S)]_vars
=============================================================================
