------------------------------- MODULE Dispatch -------------------------------
(***************************************************************************)
(* The dispatchers of approved emails and posts, and the provider they     *)
(* call: dispatch_approved_enrollment, dispatch_approved_publish.  The     *)
(* record of what was sent is kept by FileIntents or by PgIntents.         *)
(***************************************************************************)
EXTENDS Naturals, FiniteSets

CONSTANTS
    Scopes,      \* sequences, and publish:<platform>
    Recipients,  \* recipient keys inside a scope
    Batches,     \* bound: batch ids, one is minted by every claim
    None

ASSUME NoneAssumption == None \notin Batches

\* The identity of a recipient is per scope.
Keys == Scopes \X Recipients
InScope(s) == {k \in Keys : k[1] = s}

VARIABLES
    call,     \* the dispatcher that holds each batch id: where it is, its recipients, its verdict
    wire,     \* batches whose request is at the provider and not yet processed
    landed,   \* the provider sent: pairs of a batch and a recipient
    excused   \* history: sends about which an operator said "it did not go out" or "take it out"

callVars == <<call, wire, landed, excused>>

PCs     == {"idle", "claiming", "claimed", "calling", "answered", "recording", "lifting", "over"}
Results == {"none", "dispatched", "failed", "unknown"}
Call    == [pc: PCs, keys: SUBSET Keys, result: Results, reconciles: BOOLEAN]
NoCall  == [pc |-> "idle", keys |-> {}, result |-> "none", reconciles |-> FALSE]

CallInit ==
    /\ call = [b \in Batches |-> NoCall]
    /\ wire = {}
    /\ landed = {}
    /\ excused = {}

Verdict(b, result) == call' = [call EXCEPT ![b].pc = "answered", ![b].result = result]

\* The dispatcher is gone, and its locals with it: what it asked for may still land.
Over(b) == call' = [call EXCEPT ![b] = [NoCall EXCEPT !.pc = "over",
                                        !.keys = IF b \in wire THEN call[b].keys ELSE {}]]

\* Everything that went out to these recipients until now was said not to have.
Excuse(S) ==
    excused' = excused \cup {b \in Batches : call[b].pc \notin {"idle", "claiming"}} \X S

\* The outbound request leaves, or our own wrapper refuses before it does.
Send(b) ==
    /\ call[b].pc = "claimed"
    /\ \/ call' = [call EXCEPT ![b].pc = "calling"] /\ wire' = wire \cup {b}
       \/ Verdict(b, "failed") /\ UNCHANGED wire
    /\ UNCHANGED <<landed, excused>>

\* 2xx: the provider took the whole batch.
Accepted(b) ==
    /\ call[b].pc = "calling"
    /\ b \in wire
    /\ landed' = landed \cup {b} \X call[b].keys
    /\ wire' = wire \ {b}
    /\ Verdict(b, "dispatched")
    /\ UNCHANGED excused

\* 4xx: nothing was accepted.
Rejected(b) ==
    /\ call[b].pc = "calling"
    /\ b \in wire
    /\ wire' = wire \ {b}
    /\ Verdict(b, "failed")
    /\ UNCHANGED <<landed, excused>>

\* Fault: a timeout is recorded as a plain failure.
UnansweredFailed(b) ==
    /\ call[b].pc = "calling"
    /\ Verdict(b, "failed")
    /\ UNCHANGED <<wire, landed, excused>>

\* Timeout, connection error, 5xx or a body nobody can parse.
Unanswered(b) ==
    /\ call[b].pc = "calling"
    /\ Verdict(b, "unknown")
    /\ UNCHANGED <<wire, landed, excused>>

\* The provider processes, all or in part, a request whose answer is lost, however late.
Lands(b) ==
    /\ b \in wire
    /\ \E S \in SUBSET call[b].keys : landed' = landed \cup {b} \X S
    /\ wire' = wire \ {b}
    /\ UNCHANGED <<call, excused>>

\* The process of the dispatcher dies, or its task is cancelled.
Die(b) ==
    /\ call[b].pc \notin {"idle", "over"}
    /\ Over(b)
    /\ UNCHANGED <<wire, landed, excused>>

CallStep ==
    \E b \in Batches : Send(b) \/ Accepted(b) \/ Rejected(b) \/ Unanswered(b) \/ Lands(b) \/ Die(b)

CallType ==
    /\ call \in [Batches -> Call]
    /\ wire \subseteq Batches
    /\ landed \subseteq Batches \X Keys
    /\ excused \subseteq Batches \X Keys

\* "A send that cannot prove it is not a duplicate must not guess": of two batches that
\* reached the same recipient of a sequence, one had been disowned by an operator.
NoDoubleSend ==
    \A b, c \in Batches, k \in Keys :
        /\ <<b, k>> \in landed \ excused
        /\ <<c, k>> \in landed \ excused
        => b = c
=============================================================================
