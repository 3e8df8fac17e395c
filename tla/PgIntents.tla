------------------------------ MODULE PgIntents ------------------------------
(***************************************************************************)
(* The dispatch-intent store of the hosted backend: the append-only table  *)
(* dispatch_intents of one workspace.  The state of a recipient is its     *)
(* latest row.  Every method is a transaction of two statements, a SELECT  *)
(* and an INSERT, at read committed: other transactions may insert between *)
(* the two.  Only claims exclude each other, by an advisory lock per       *)
(* scope.  (The unique index behind that lock never fires: a claim is      *)
(* granted only after a release of the recipient, which raises its         *)
(* generation.)                                                            *)
(***************************************************************************)
EXTENDS Dispatch

CONSTANT Answers   \* bound: calls of POST /dispatch-intents/{batch}/resolve

VARIABLES
    latest,  \* the latest row of each recipient; kind "none": it has no row
    owned,   \* what the SELECT of a dispatcher's record_outcome returned
    answer   \* the resolve requests

pgVars == <<latest, owned, answer>>
vars   == <<callVars, pgVars>>

\* _STATE: the kinds that let a recipient be claimed again.
Released == {"failed", "not_sent"}

Init ==
    /\ CallInit
    /\ latest = [k \in Keys |-> [kind |-> "none", batch |-> None]]
    /\ owned = [b \in Batches |-> {}]
    /\ answer = [a \in Answers |-> [pc |-> "idle", batch |-> None, sent |-> {}, others |-> {}]]

\* _OWNED: the recipients whose latest row is batch b's own, of one of these kinds.
Owned(b, kinds) == {k \in Keys : latest[k].batch = b /\ latest[k].kind \in kinds}

\* _INSERT_EVENTS.
Append(b, S, kind) ==
    latest' = [k \in Keys |-> IF k \in S THEN [kind |-> kind, batch |-> b] ELSE latest[k]]

\* The advisory lock of the scope is held by a claim from its SELECT to its INSERT.
Locked(s) == \E b \in Batches : call[b].pc = "claiming" /\ call[b].keys \subseteq InScope(s)

ClaimRead(b, s, S) ==
    /\ call[b].pc = "idle"
    /\ S # {}
    /\ ~Locked(s)
    /\ \A k \in S : latest[k].kind \in Released \cup {"none"}
    /\ call' = [call EXCEPT ![b] = [NoCall EXCEPT !.pc = "claiming", !.keys = S]]
    /\ UNCHANGED <<wire, landed, excused, pgVars>>

ClaimInsert(b) ==
    /\ call[b].pc = "claiming"
    /\ Append(b, call[b].keys, "claim")
    /\ call' = [call EXCEPT ![b].pc = "claimed"]
    /\ UNCHANGED <<wire, landed, excused, owned, answer>>

\* record_outcome: the write may fail, and then the claim stays the latest row.
RecordRead(b) ==
    /\ call[b].pc = "answered"
    /\ \/ /\ owned' = [owned EXCEPT ![b] = Owned(b, {"claim"})]
          /\ call' = [call EXCEPT ![b].pc = "recording"]
       \/ Over(b) /\ UNCHANGED owned
    /\ UNCHANGED <<wire, landed, excused, latest, answer>>

RecordInsert(b) ==
    /\ call[b].pc = "recording"
    /\ Append(b, owned[b], call[b].result)
    /\ owned' = [owned EXCEPT ![b] = {}]
    /\ Over(b)
    /\ UNCHANGED <<wire, landed, excused, answer>>

\* resolve: an operator says which recipients of an open batch went out.
ResolveRead(a, b) ==
    /\ answer[a].pc = "idle"
    /\ LET open == Owned(b, {"claim", "unknown"}) IN
        /\ open # {}
        /\ \E S \in SUBSET open :
              answer' = [answer EXCEPT ![a] = [pc |-> "inserting", batch |-> b,
                                               sent |-> S, others |-> open \ S]]
    /\ UNCHANGED <<callVars, latest, owned>>

ResolveInsert(a) ==
    LET x == answer[a] IN
    /\ x.pc = "inserting"
    /\ latest' = [k \in Keys |->
          IF k \in x.sent THEN [kind |-> "sent", batch |-> x.batch]
          ELSE IF k \in x.others THEN [kind |-> "not_sent", batch |-> x.batch]
          ELSE latest[k]]
    /\ Excuse(x.others)
    /\ answer' = [answer EXCEPT ![a].pc = "done"]
    /\ UNCHANGED <<call, wire, landed, owned>>

Next ==
    \/ CallStep /\ UNCHANGED pgVars
    \/ \E b \in Batches, s \in Scopes : \E S \in SUBSET InScope(s) : ClaimRead(b, s, S)
    \/ \E b \in Batches : ClaimInsert(b) \/ RecordRead(b) \/ RecordInsert(b)
    \/ \E a \in Answers, b \in Batches : ResolveRead(a, b)
    \/ \E a \in Answers : ResolveInsert(a)

Spec == Init /\ [][Next]_vars
=============================================================================
