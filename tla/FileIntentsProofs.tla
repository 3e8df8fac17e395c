-------------------------- MODULE FileIntentsProofs --------------------------
(***************************************************************************)
(* Theorems about FileIntents for every set of scopes, recipients and      *)
(* batches.                                                                *)
(***************************************************************************)
EXTENDS FileIntents, TLAPS

-----------------------------------------------------------------------------
(* Types.                                                                  *)

LEMMA KeysOfScope == \A s \in Scopes : InScope(s) \subseteq Keys
  BY DEF InScope

LEMMA OverTyped ==
  ASSUME CallType, NEW b \in Batches, Over(b)
  PROVE  call' \in [Batches -> Call]
  BY DEF CallType, Over, Call, NoCall, PCs, Results

LEMMA VerdictTyped ==
  ASSUME CallType, NEW b \in Batches, NEW r \in Results, Verdict(b, r)
  PROVE  call' \in [Batches -> Call]
  BY ZenonT(60) DEF CallType, Verdict, Call, PCs

LEMMA ExcuseTyped ==
  ASSUME CallType, NEW S \in SUBSET Keys, Excuse(S)
  PROVE  excused' \subseteq Batches \X Keys
  BY DEF CallType, Excuse

LEMMA MarkTyped ==
  ASSUME led \in Ledger, NEW S, NEW s \in States
  PROVE  /\ [led EXCEPT !.state = Mark(S, s)] \in Ledger
         /\ [led EXCEPT !.state = Mark(S, s)].owner = led.owner
         /\ [led EXCEPT !.state = Mark(S, s)].hold = led.hold
         /\ [led EXCEPT !.state = Mark(S, s)].state = Mark(S, s)
  BY DEF Ledger, Mark

LEMMA ClaimedTyped ==
  ASSUME led \in Ledger, NEW b \in Batches, NEW S \in SUBSET Keys, Claimed(b, S)
  PROVE  /\ led' \in Ledger
         /\ led'.state = [k \in Keys |-> IF k \in S THEN "intent" ELSE led.state[k]]
         /\ led'.owner = [k \in Keys |-> IF k \in S THEN b ELSE led.owner[k]]
         /\ led'.hold = led.hold
  BY DEF Ledger, Claimed, States

LEMMA ForgottenKeys == \A s \in Scopes : Forgotten(s) \in SUBSET Keys
  BY DEF Forgotten, InScope

LEMMA OutcomeTyped == \A r \in Results : Outcome(r) \in {"dispatched", "released", "unknown"}
  BY DEF Outcome, Results

LEMMA CallStepTyped == CallType /\ CallStep => CallType'
  <1> SUFFICES ASSUME CallType,
                      NEW b \in Batches,
                      Send(b) \/ Accepted(b) \/ Rejected(b) \/ Unanswered(b) \/ Lands(b) \/ Die(b)
               PROVE  CallType'
    BY DEF CallStep
  <1> USE DEF CallType
  <1>1. CASE Send(b)
    <2>1. CASE Verdict(b, "failed") /\ UNCHANGED wire
      BY <1>1, <2>1, VerdictTyped DEF Send, Results
    <2>2. CASE call' = [call EXCEPT ![b].pc = "calling"] /\ wire' = wire \cup {b}
      BY <1>1, <2>2 DEF Send, Call, PCs
    <2> QED BY <1>1, <2>1, <2>2 DEF Send
  <1>2. CASE Accepted(b)
    <2>1. call[b].keys \subseteq Keys
      BY DEF Call
    <2> QED BY <1>2, <2>1, VerdictTyped DEF Accepted, Results
  <1>3. CASE Rejected(b)
    BY <1>3, VerdictTyped DEF Rejected, Results
  <1>4. CASE Unanswered(b)
    BY <1>4, VerdictTyped DEF Unanswered, Results
  <1>5. CASE Lands(b)
    <2>1. call[b].keys \subseteq Keys
      BY DEF Call
    <2> QED BY <1>5, <2>1 DEF Lands
  <1>6. CASE Die(b)
    BY <1>6, OverTyped DEF Die
  <1> QED BY <1>1, <1>2, <1>3, <1>4, <1>5, <1>6

LEMMA ClaimTyped ==
  ASSUME TypeOK, NEW b \in Batches, NEW S \in SUBSET Keys, Claim(b, S)
  PROVE  TypeOK'
  <1>1. call' \in [Batches -> Call]
    BY DEF TypeOK, CallType, Claim, Call, NoCall, PCs, Results
  <1> QED BY <1>1, ClaimedTyped DEF TypeOK, CallType, Claim

LEMMA RecordTyped ==
  ASSUME TypeOK, NEW b \in Batches, Record(b)
  PROVE  TypeOK'
  <1>1. call' \in [Batches -> Call]
    <2>1. CASE Over(b)
      BY <2>1, OverTyped DEF TypeOK
    <2>2. CASE call' = [call EXCEPT ![b].pc = "lifting"]
      BY <2>2 DEF TypeOK, CallType, Call, PCs
    <2> QED BY <2>1, <2>2 DEF Record
  <1>2. led' \in Ledger
    <2>1. Outcome(call[b].result) \in States
      BY OutcomeTyped DEF TypeOK, CallType, Call, States
    <2>2. CASE UNCHANGED led
      BY <2>2 DEF TypeOK
    <2>3. CASE led' = [led EXCEPT !.state = Mark(Own(b), Outcome(call[b].result))]
      BY <2>1, <2>3, MarkTyped DEF TypeOK
    <2> QED BY <2>2, <2>3 DEF Record
  <1> QED BY <1>1, <1>2 DEF TypeOK, CallType, Record

LEMMA ResolveTyped ==
  ASSUME TypeOK, NEW b \in Batches, Resolve(b)
  PROVE  TypeOK'
  <1>1. Own(b) \subseteq Keys
    BY DEF TypeOK, Ledger, Own
  <1>2. led' \in Ledger
    BY DEF Resolve, TypeOK, Ledger, States
  <1>3. excused' \subseteq Batches \X Keys
    BY <1>1, ExcuseTyped DEF Resolve, TypeOK
  <1> QED BY <1>2, <1>3 DEF Resolve, TypeOK, CallType

LEMMA MarkRemovedTyped ==
  ASSUME TypeOK, NEW S \in SUBSET Keys, MarkRemoved(S)
  PROVE  TypeOK'
  BY MarkTyped, ExcuseTyped DEF MarkRemoved, TypeOK, CallType, States

LEMMA ReconcileTyped ==
  ASSUME TypeOK, NEW b \in Batches, NEW s \in Scopes, Reconcile(b, s)
  PROVE  TypeOK'
  <1>1. call' \in [Batches -> Call]
    BY ForgottenKeys DEF TypeOK, CallType, Reconcile, Call, PCs, Results
  <1> QED BY <1>1, ClaimedTyped, ForgottenKeys DEF TypeOK, CallType, Reconcile

LEMMA ClearHoldTyped ==
  ASSUME TypeOK, NEW b \in Batches, NEW s \in Scopes, ClearHold(b, s)
  PROVE  TypeOK'
  <1>1. call' \in [Batches -> Call]
    BY OverTyped DEF TypeOK, CallType, ClearHold
  <1>2. led' \in Ledger
    BY DEF ClearHold, TypeOK, Ledger
  <1> QED BY <1>1, <1>2 DEF ClearHold, TypeOK, CallType

LEMMA InitTyped == Init => TypeOK
  BY DEF Init, CallInit, TypeOK, CallType, Call, NoCall, PCs, Results, Ledger, Empty, States

LEMMA NextTyped == TypeOK /\ [Next]_vars => TypeOK'
  <1> SUFFICES ASSUME TypeOK, [Next]_vars
               PROVE  TypeOK'
    OBVIOUS
  <1>1. CASE CallStep /\ UNCHANGED <<led, saved>>
    BY <1>1, CallStepTyped DEF TypeOK
  <1>2. ASSUME NEW b \in Batches, Record(b) \/ Resolve(b)
        PROVE  TypeOK'
    BY <1>2, RecordTyped, ResolveTyped
  <1>3. ASSUME NEW b \in Batches, NEW s \in Scopes, NEW S \in SUBSET InScope(s), Claim(b, S)
        PROVE  TypeOK'
    BY <1>3, ClaimTyped, KeysOfScope
  <1>4. ASSUME NEW b \in Batches, NEW s \in Scopes, Reconcile(b, s) \/ ClearHold(b, s)
        PROVE  TypeOK'
    BY <1>4, ReconcileTyped, ClearHoldTyped
  <1>5. ASSUME NEW s \in Scopes, NEW S \in SUBSET InScope(s), MarkRemoved(S)
        PROVE  TypeOK'
    BY <1>5, MarkRemovedTyped, KeysOfScope
  <1>6. CASE Backup
    BY <1>6 DEF Backup, TypeOK, CallType, callVars
  <1>7. CASE Restore
    BY <1>7 DEF Restore, TypeOK, CallType, callVars, Ledger
  <1>8. CASE UNCHANGED vars
    BY <1>8 DEF vars, callVars, TypeOK, CallType
  <1> QED BY <1>1, <1>2, <1>3, <1>4, <1>5, <1>6, <1>7, <1>8 DEF Next

\* Every dispatcher, row of the ledger and backup keeps its shape.
THEOREM TypeCorrect == Spec => []TypeOK
  <1>1. Init => TypeOK BY InitTyped
  <1>2. TypeOK /\ [Next]_vars => TypeOK' BY NextTyped
  <1> QED BY <1>1, <1>2, PTL DEF Spec

-----------------------------------------------------------------------------
(* What is recorded as sent: the statements that change the state of a     *)
(* recipient pass over it.                                                 *)

LetGo(k) == led.state[k] = "dispatched" /\ led'.state[k] # "dispatched"

NoneLetGo == \A k \in Keys : ~LetGo(k)

LEMMA NextStands ==
  TypeOK /\ [Next]_vars =>
      \A k \in Keys : LetGo(k) => Restore \/ \E S \in SUBSET Keys : k \in S /\ MarkRemoved(S)
  <1> SUFFICES ASSUME TypeOK, [Next]_vars, ~Restore
               PROVE  \A k \in Keys : LetGo(k) => \E S \in SUBSET Keys : k \in S /\ MarkRemoved(S)
    OBVIOUS
  <1>1. CASE UNCHANGED led
    BY <1>1 DEF LetGo
  <1>2. ASSUME NEW b \in Batches, Record(b)
        PROVE  NoneLetGo
    <2>1. CASE UNCHANGED led
      BY <2>1 DEF NoneLetGo, LetGo
    <2>2. CASE led' = [led EXCEPT !.state = Mark(Own(b), Outcome(call[b].result))]
      <3>1. led'.state = Mark(Own(b), Outcome(call[b].result))
        BY <2>2, OutcomeTyped DEF TypeOK, Ledger
      <3> QED BY <3>1 DEF NoneLetGo, LetGo, Mark, Own
    <2> QED BY <1>2, <2>1, <2>2 DEF Record
  <1>3. ASSUME NEW b \in Batches, Resolve(b)
        PROVE  NoneLetGo
    BY <1>3 DEF Resolve, NoneLetGo, LetGo, Own, TypeOK, Ledger
  <1>4. ASSUME NEW b \in Batches, NEW S \in SUBSET Keys, Claim(b, S)
        PROVE  NoneLetGo
    <2>1. Claimed(b, S) /\ led \in Ledger /\ Decide(S)
      BY <1>4 DEF Claim, TypeOK
    <2>2. led'.state = [k \in Keys |-> IF k \in S THEN "intent" ELSE led.state[k]]
      BY <2>1, ClaimedTyped
    <2> QED BY <2>1, <2>2 DEF Decide, NoneLetGo, LetGo
  <1>5. ASSUME NEW b \in Batches, NEW s \in Scopes, Reconcile(b, s)
        PROVE  NoneLetGo
    <2>1. Claimed(b, Forgotten(s)) /\ Forgotten(s) \in SUBSET Keys
      BY <1>5, ForgottenKeys DEF Reconcile
    <2>2. led \in Ledger
      BY DEF TypeOK
    <2>3. led'.state = [k \in Keys |-> IF k \in Forgotten(s) THEN "intent" ELSE led.state[k]]
      BY <2>1, <2>2, ClaimedTyped
    <2> QED BY <2>3 DEF NoneLetGo, LetGo, Forgotten, Blocking
  <1>6. ASSUME NEW b \in Batches, NEW s \in Scopes, ClearHold(b, s)
        PROVE  NoneLetGo
    BY <1>6 DEF ClearHold, NoneLetGo, LetGo, TypeOK, Ledger
  <1>7. ASSUME NEW s \in Scopes, NEW S \in SUBSET InScope(s), MarkRemoved(S)
        PROVE  \A k \in Keys : LetGo(k) => k \in S
    BY <1>7 DEF MarkRemoved, Mark, LetGo, TypeOK, Ledger
  <1>8. CASE Next
    <2>1. CASE \E s \in Scopes : \E S \in SUBSET InScope(s) : MarkRemoved(S)
      BY <2>1, <1>7, KeysOfScope
    <2>2. CASE UNCHANGED led
      BY <1>1, <2>2
    <2>3. CASE \E b \in Batches : Record(b) \/ Resolve(b)
      BY <2>3, <1>2, <1>3 DEF NoneLetGo
    <2>4. CASE \E b \in Batches, s \in Scopes :
                  \/ \E S \in SUBSET InScope(s) : Claim(b, S)
                  \/ Reconcile(b, s) \/ ClearHold(b, s)
      BY <2>4, <1>4, <1>5, <1>6, KeysOfScope DEF NoneLetGo
    <2> QED BY <1>8, <2>1, <2>2, <2>3, <2>4 DEF Next, Backup
  <1> QED BY <1>1, <1>8 DEF vars

\* No late outcome, no late answer and no second claim takes back a recorded send.
THEOREM SentIsKept == Spec => SentStands
  <1>1. TypeOK /\ [Next]_vars =>
            [\A k \in Keys : LetGo(k) => Restore \/ \E S \in SUBSET Keys : k \in S /\ MarkRemoved(S)]_vars
    BY NextStands
  <1> QED BY <1>1, TypeCorrect, PTL DEF Spec, SentStands, LetGo

-----------------------------------------------------------------------------
(* No double send. A send is outstanding while it was not disowned and it  *)
(* went out, or still may. The ledger blocks the recipient of an           *)
(* outstanding send, except after a restore, while sending is on hold.     *)

OneScope == \A s, t \in Scopes : s = t

MayLand(b, k) ==
    \/ <<b, k>> \in landed
    \/ b \in wire /\ k \in call[b].keys
    \/ call[b].pc = "claimed" /\ k \in call[b].keys

Outstanding(b, k) == MayLand(b, k) /\ <<b, k>> \notin excused
Blocked(k) == led.state[k] \in Blocking
Alive(b)   == call[b].pc \notin {"idle", "over"}

\* What the program counter of a dispatcher says of its batch.
Unborn(b)  == \A k \in Keys : led.owner[k] # b /\ saved.owner[k] # b /\ ~MayLand(b, k)
Tracked(b) ==
    /\ call[b].pc = "idle" => Unborn(b) /\ b \notin wire
    /\ call[b].pc # "claiming"
    /\ call[b].pc = "claimed" => b \notin wire
    /\ b \in wire \/ call[b].pc = "claimed" => \A k \in Keys : <<b, k>> \notin landed
    /\ call[b].pc = "answered" /\ call[b].result = "failed" => \A k \in Keys : ~MayLand(b, k)
    /\ call[b].reconciles => call[b].result = "dispatched" /\ Alive(b)
    /\ call[b].pc = "lifting" => call[b].reconciles

BlockedOrHeld ==
    \A b \in Batches, k \in Keys :
        Outstanding(b, k) => Blocked(k) \/ (led.hold /\ <<b, k>> \in landed)
AtMostOne ==
    \A b, c \in Batches, k \in Keys : Outstanding(b, k) /\ Outstanding(c, k) => b = c
\* Of the live dispatchers only the one whose send is outstanding, or a
\* reconciliation, may still speak for a recipient.
Spoken ==
    \A x, b \in Batches, k \in Keys :
        led.owner[k] = x /\ Alive(x) /\ Outstanding(b, k) => b = x \/ call[x].reconciles
Recovered ==
    (\E x \in Batches : call[x].reconciles)
        => \A b \in Batches, k \in Keys : Outstanding(b, k) => Blocked(k)

AllTracked == \A b \in Batches : Tracked(b)
SendInv    == AllTracked /\ BlockedOrHeld /\ AtMostOne /\ Spoken /\ Recovered

\* A step that starts no send, lets no recipient of an outstanding send go, and moves
\* neither the hold nor the owners.
Quiet ==
    /\ \A b \in Batches, k \in Keys : Outstanding(b, k)' => Outstanding(b, k)
    /\ landed \subseteq landed'
    /\ \A b \in Batches, k \in Keys : Outstanding(b, k)' /\ Blocked(k) => Blocked(k)'
    /\ led'.hold = led.hold
    /\ led'.owner = led.owner
    /\ \A x \in Batches : call'[x].reconciles => call[x].reconciles
    /\ \A x \in Batches : Alive(x)' => Alive(x) /\ call'[x].reconciles = call[x].reconciles

LEMMA QuietKeeps ==
  ASSUME BlockedOrHeld, AtMostOne, Spoken, Recovered, Quiet
  PROVE  BlockedOrHeld' /\ AtMostOne' /\ Spoken' /\ Recovered'
  <1>1. BlockedOrHeld'
    BY DEF BlockedOrHeld, Quiet
  <1>2. AtMostOne'
    BY DEF AtMostOne, Quiet
  <1>3. Spoken'
    BY DEF Spoken, Quiet
  <1>4. Recovered'
    BY DEF Recovered, Quiet
  <1> QED BY <1>1, <1>2, <1>3, <1>4

\* A step of the dispatcher or the provider of batch b.
LEMMA CallStepSends ==
  ASSUME TypeOK, SendInv, CallStep, UNCHANGED <<led, saved>>
  PROVE  SendInv'
  <1> PICK b \in Batches :
             Send(b) \/ Accepted(b) \/ Rejected(b) \/ Unanswered(b) \/ Lands(b) \/ Die(b)
    BY DEF CallStep
  <1>0. /\ Tracked(b)
        /\ call \in [Batches -> Call]
        /\ call[b] \in Call
    BY DEF SendInv, AllTracked, TypeOK, CallType
  <1>1. /\ call' \in [Batches -> Call]
        /\ \A x \in Batches \ {b} : /\ call'[x] = call[x]
                                    /\ x \in wire' <=> x \in wire
                                    /\ \A k \in Keys : <<x, k>> \in landed' <=> <<x, k>> \in landed
        /\ excused' = excused
        /\ landed \subseteq landed'
    BY <1>0, CallStepTyped DEF Send, Accepted, Rejected, Unanswered, Lands, Die, Verdict, Over, TypeOK, CallType
  <1>2. Tracked(b)' /\ \A k \in Keys : MayLand(b, k)' => MayLand(b, k)
    <2>1. CASE Send(b)
      BY <2>1, <1>0 DEF Send, Verdict, Tracked, MayLand, Call, Alive, Unborn
    <2>2. CASE Accepted(b)
      BY <2>2, <1>0 DEF Accepted, Verdict, Tracked, MayLand, Call, Alive, Unborn
    <2>3. CASE Rejected(b)
      BY <2>3, <1>0 DEF Rejected, Verdict, Tracked, MayLand, Call, Alive, Unborn
    <2>4. CASE Unanswered(b)
      BY <2>4, <1>0 DEF Unanswered, Verdict, Tracked, MayLand, Call, Alive, Unborn
    <2>5. CASE Lands(b)
      BY <2>5, <1>0 DEF Lands, Tracked, MayLand, Call, Alive, Unborn
    <2>6. CASE Die(b)
      BY <2>6, <1>0 DEF Die, Over, NoCall, Tracked, MayLand, Call, Alive, Unborn
    <2> QED BY <2>1, <2>2, <2>3, <2>4, <2>5, <2>6
  <1>3. \A x \in Batches \ {b} : Tracked(x)' /\ \A k \in Keys : MayLand(x, k)' <=> MayLand(x, k)
    BY <1>1 DEF Tracked, MayLand, Alive, Unborn, SendInv, AllTracked
  <1>4. AllTracked'
    BY <1>2, <1>3 DEF AllTracked
  <1>5. Alive(b)' => Alive(b) /\ call'[b].reconciles = call[b].reconciles
    <2>1. CASE Send(b) \/ Accepted(b) \/ Rejected(b) \/ Unanswered(b)
      <3>1. Alive(b)
        BY <2>1 DEF Send, Accepted, Rejected, Unanswered, Alive
      <3>2. call'[b].reconciles = call[b].reconciles
        BY <2>1, <1>0 DEF Send, Accepted, Rejected, Unanswered, Verdict, Call
      <3> QED BY <3>1, <3>2
    <2>2. CASE Lands(b)
      BY <2>2 DEF Lands, Alive
    <2>3. CASE Die(b)
      BY <2>3, <1>0 DEF Die, Over, NoCall, Alive
    <2> QED BY <2>1, <2>2, <2>3
  <1>6. call'[b].reconciles => call[b].reconciles
    <2>1. call'[b].reconciles => Alive(b)'
      BY <1>2 DEF Tracked
    <2> QED BY <1>5, <2>1
  <1>7. Quiet
    <2>1. \A x \in Batches, k \in Keys : Outstanding(x, k)' => Outstanding(x, k)
      BY <1>1, <1>2, <1>3 DEF Outstanding
    <2>2. \A x \in Batches : call'[x].reconciles => call[x].reconciles
      BY <1>1, <1>6
    <2>3. \A x \in Batches : Alive(x)' => Alive(x) /\ call'[x].reconciles = call[x].reconciles
      BY <1>1, <1>5 DEF Alive
    <2> QED BY <2>1, <2>2, <2>3, <1>1 DEF Quiet, Blocked
  <1> QED BY <1>4, <1>7, QuietKeeps DEF SendInv

\* An answer releases only recipients that this batch did not and will not reach.
LEMMA RecordSends ==
  ASSUME TypeOK, SendInv, NEW b \in Batches, Record(b)
  PROVE  SendInv'
  <1>0. /\ Tracked(b)
        /\ call \in [Batches -> Call]
        /\ call[b] \in Call
        /\ call[b].pc = "answered"
        /\ UNCHANGED <<wire, landed, excused, saved>>
    BY DEF SendInv, AllTracked, TypeOK, CallType, Record
  <1>1. /\ led'.owner = led.owner
        /\ led'.hold = led.hold
        /\ \/ led'.state = led.state
           \/ led'.state = Mark(Own(b), Outcome(call[b].result))
    <2>1. CASE UNCHANGED led
      BY <2>1
    <2>2. CASE led' = [led EXCEPT !.state = Mark(Own(b), Outcome(call[b].result))]
      BY <2>2, OutcomeTyped DEF TypeOK, Ledger
    <2> QED BY <2>1, <2>2 DEF Record
  <1>2. \/ call' = [call EXCEPT ![b].pc = "lifting"] /\ call[b].reconciles
        \/ Over(b)
    BY DEF Record
  <1>3. /\ \A x \in Batches \ {b} : call'[x] = call[x]
        /\ Tracked(b)'
        /\ Alive(b)' => Alive(b) /\ call'[b].reconciles = call[b].reconciles
        /\ call'[b].reconciles => call[b].reconciles
        /\ \A k \in Keys : MayLand(b, k)' => MayLand(b, k)
    <2>1. CASE Over(b)
      BY <2>1, <1>0 DEF Over, NoCall, Tracked, Alive, MayLand, Call
    <2>2. CASE call' = [call EXCEPT ![b].pc = "lifting"] /\ call[b].reconciles
      BY <2>2, <1>0 DEF Tracked, Alive, MayLand, Call
    <2> QED BY <1>2, <2>1, <2>2
  <1>4. \A x \in Batches \ {b} : Tracked(x)' /\ \A k \in Keys : MayLand(x, k)' <=> MayLand(x, k)
    BY <1>0, <1>1, <1>3 DEF Tracked, MayLand, Alive, Unborn, SendInv, AllTracked
  <1>5. \A x \in Batches, k \in Keys : Outstanding(x, k)' => Outstanding(x, k)
    BY <1>0, <1>3, <1>4 DEF Outstanding
  <1>6. ASSUME NEW x \in Batches, NEW k \in Keys, Outstanding(x, k), Blocked(k)
        PROVE  Blocked(k)'
    <2>1. CASE led'.state = led.state
      BY <2>1, <1>6 DEF Blocked
    <2>2. CASE led'.state = Mark(Own(b), Outcome(call[b].result))
      <3>1. led'.state[k] = IF k \in Own(b) THEN Outcome(call[b].result) ELSE led.state[k]
        BY <2>2 DEF Mark
      <3>2. CASE k \notin Own(b)
        BY <3>1, <3>2, <1>6 DEF Blocked
      <3>3. CASE k \in Own(b) /\ call[b].result # "failed"
        BY <3>1, <3>3, <1>0 DEF Blocked, Blocking, Outcome, Call, Results
      <3>4. CASE k \in Own(b) /\ call[b].result = "failed"
        <4>1. led.owner[k] = b /\ Alive(b)
          BY <3>4, <1>0 DEF Own, Alive
        <4>2. x = b \/ call[b].reconciles
          BY <4>1, <1>6 DEF SendInv, Spoken
        <4>3. x = b
          BY <4>2, <3>4, <1>0 DEF Tracked
        <4> QED BY <4>3, <3>4, <1>0, <1>6 DEF Tracked, Outstanding
      <3> QED BY <3>2, <3>3, <3>4
    <2> QED BY <1>1, <2>1, <2>2
  <1>7. Quiet
    <2>1. \A x \in Batches : call'[x].reconciles => call[x].reconciles
      BY <1>3
    <2>2. \A x \in Batches : Alive(x)' => Alive(x) /\ call'[x].reconciles = call[x].reconciles
      BY <1>3 DEF Alive
    <2> QED BY <2>1, <2>2, <1>0, <1>1, <1>5, <1>6 DEF Quiet
  <1> QED BY <1>3, <1>4, <1>7, QuietKeeps DEF SendInv, AllTracked

\* The operator's word: what it releases is disowned.
LEMMA ReleaseKeeps ==
  ASSUME TypeOK, SendInv, NEW S \in SUBSET Keys, Excuse(S), UNCHANGED <<call, wire, landed, saved>>,
         led'.owner = led.owner, led'.hold = led.hold,
         \A k \in Keys \ S : Blocked(k) => Blocked(k)'
  PROVE  SendInv'
  <1>1. \A x \in Batches, k \in Keys : MayLand(x, k)' <=> MayLand(x, k)
    BY DEF MayLand
  <1>2. AllTracked'
    BY <1>1 DEF SendInv, AllTracked, Tracked, Unborn, Alive
  <1>3. \A x \in Batches, k \in Keys : Outstanding(x, k)' => Outstanding(x, k) /\ k \notin S
    <2> SUFFICES ASSUME NEW x \in Batches, NEW k \in Keys, Outstanding(x, k)'
                 PROVE  Outstanding(x, k) /\ k \notin S
      OBVIOUS
    <2>1. MayLand(x, k) /\ <<x, k>> \notin excused
      BY <1>1 DEF Outstanding, Excuse
    <2>2. call[x].pc \notin {"idle", "claiming"}
      BY <2>1 DEF SendInv, AllTracked, Tracked, Unborn
    <2>3. k \notin S
      BY <2>2 DEF Excuse, Outstanding
    <2> QED BY <2>1, <2>3 DEF Outstanding
  <1>4. Quiet
    BY <1>3 DEF Quiet, Alive
  <1> QED BY <1>2, <1>4, QuietKeeps DEF SendInv

LEMMA ResolveSends ==
  ASSUME TypeOK, SendInv, NEW b \in Batches, Resolve(b)
  PROVE  SendInv'
  <1> PICK S \in SUBSET Own(b) :
        /\ led' = [led EXCEPT !.state = [k \in Keys |->
                      IF k \in S THEN "dispatched" ELSE IF k \in Own(b) THEN "released" ELSE @[k]]]
        /\ Excuse(Own(b) \ S)
    BY DEF Resolve
  <1>1. Own(b) \subseteq Keys
    BY DEF Own, TypeOK, Ledger
  <1>2. /\ led'.owner = led.owner
        /\ led'.hold = led.hold
        /\ led'.state = [k \in Keys |->
              IF k \in S THEN "dispatched" ELSE IF k \in Own(b) THEN "released" ELSE led.state[k]]
    BY DEF TypeOK, Ledger
  <1>3. \A k \in Keys \ (Own(b) \ S) : Blocked(k) => Blocked(k)'
    BY <1>2 DEF Blocked, Blocking
  <1> QED BY <1>1, <1>2, <1>3, ReleaseKeeps DEF Resolve

LEMMA MarkRemovedSends ==
  ASSUME TypeOK, SendInv, NEW S \in SUBSET Keys, MarkRemoved(S)
  PROVE  SendInv'
  <1>1. /\ led'.owner = led.owner
        /\ led'.hold = led.hold
        /\ led'.state = Mark(S, "released")
    BY MarkTyped DEF TypeOK, MarkRemoved, States
  <1>2. \A k \in Keys \ S : Blocked(k) => Blocked(k)'
    BY <1>1 DEF Blocked, Mark
  <1> QED BY <1>1, <1>2, ReleaseKeeps DEF MarkRemoved

LEMMA BackupSends ==
  ASSUME TypeOK, SendInv, Backup
  PROVE  SendInv'
  <1>1. \A x \in Batches, k \in Keys : /\ MayLand(x, k)' <=> MayLand(x, k)
                                       /\ Outstanding(x, k)' <=> Outstanding(x, k)
    BY DEF MayLand, Outstanding, Backup, callVars
  <1>2. AllTracked'
    BY <1>1 DEF SendInv, AllTracked, Tracked, Unborn, Alive, Backup, callVars
  <1>3. Quiet
    BY <1>1 DEF Quiet, Alive, Blocked, Backup, callVars
  <1> QED BY <1>2, <1>3, QuietKeeps DEF SendInv

\* A claim finds nothing outstanding on its recipients: the ledger would block them.
LEMMA ClaimSends ==
  ASSUME TypeOK, SendInv, NEW b \in Batches, NEW S \in SUBSET Keys, Claim(b, S)
  PROVE  SendInv'
  <1>0. /\ Tracked(b)
        /\ call \in [Batches -> Call]
        /\ led \in Ledger
        /\ UNCHANGED <<wire, landed, excused, saved>>
    BY DEF SendInv, AllTracked, TypeOK, CallType, Claim
  <1>1. /\ led'.state = [k \in Keys |-> IF k \in S THEN "intent" ELSE led.state[k]]
        /\ led'.owner = [k \in Keys |-> IF k \in S THEN b ELSE led.owner[k]]
    BY <1>0, ClaimedTyped DEF Claim
  <1>2. Unborn(b) /\ b \notin wire
    BY <1>0 DEF Tracked, Claim
  <1>3. \A x \in Batches, k \in S : ~Outstanding(x, k)
    BY DEF SendInv, BlockedOrHeld, Claim, Decide, Blocked, Blocking
  <1>4. /\ call'[b].pc = "claimed"
        /\ call'[b].keys = S
        /\ call'[b].reconciles = FALSE
        /\ \A x \in Batches \ {b} : call'[x] = call[x]
    BY <1>0 DEF Claim, NoCall
  <1>5. \A x \in Batches \ {b}, k \in Keys : MayLand(x, k)' <=> MayLand(x, k)
    BY <1>0, <1>4 DEF MayLand
  <1>6. \A k \in Keys : MayLand(b, k)' => k \in S
    BY <1>0, <1>2, <1>4 DEF MayLand, Unborn
  <1>7. AllTracked'
    <2>1. Tracked(b)'
      BY <1>0, <1>2, <1>4 DEF Tracked, Unborn, MayLand, Alive
    <2>2. ASSUME NEW x \in Batches \ {b}
          PROVE  Tracked(x)'
      <3>1. Tracked(x)
        BY DEF SendInv, AllTracked
      <3>2. Unborn(x) => Unborn(x)'
        BY <1>0, <1>1, <1>5 DEF Unborn
      <3> QED BY <3>1, <3>2, <1>0, <1>4, <1>5 DEF Tracked, Alive
    <2> QED BY <2>1, <2>2 DEF AllTracked
  <1>8. \A x \in Batches, k \in Keys :
            Outstanding(x, k)' => IF k \in S THEN x = b ELSE x # b /\ Outstanding(x, k)
    BY <1>0, <1>3, <1>5, <1>6 DEF Outstanding
  <1>9. BlockedOrHeld'
    BY <1>0, <1>1, <1>8 DEF SendInv, BlockedOrHeld, Blocked, Blocking, Claim
  <1>10. AtMostOne'
    BY <1>8 DEF SendInv, AtMostOne
  <1>11. Spoken'
    <2> SUFFICES ASSUME NEW x \in Batches, NEW c \in Batches, NEW k \in Keys,
                        led'.owner[k] = x, Alive(x)', Outstanding(c, k)'
                 PROVE  c = x \/ call'[x].reconciles
      BY DEF Spoken
    <2>1. CASE k \in S
      BY <2>1, <1>1, <1>8
    <2>2. CASE k \notin S
      <3>1. led.owner[k] = x /\ x # b /\ Outstanding(c, k)
        BY <2>2, <1>1, <1>2, <1>8 DEF Unborn
      <3> QED BY <3>1, <1>4 DEF SendInv, Spoken, Alive
    <2> QED BY <2>1, <2>2
  <1>12. Recovered'
    <2> SUFFICES ASSUME NEW x \in Batches, call'[x].reconciles,
                        NEW c \in Batches, NEW k \in Keys, Outstanding(c, k)'
                 PROVE  Blocked(k)'
      BY DEF Recovered
    <2>1. x # b /\ call[x].reconciles
      BY <1>4
    <2>2. k \notin S => Blocked(k)
      BY <2>1, <1>8 DEF SendInv, Recovered
    <2> QED BY <2>2, <1>1 DEF Blocked, Blocking
  <1> QED BY <1>7, <1>9, <1>10, <1>11, <1>12 DEF SendInv

-----------------------------------------------------------------------------
(* After a restore: the reconciliation knows one scope at a time.          *)

LEMMA OneScopeKeys ==
  ASSUME OneScope, NEW s \in Scopes
  PROVE  InScope(s) = Keys
  BY DEF OneScope, InScope, Keys

\* The backup may lack any send: none is on its way, and the hold refuses every claim.
LEMMA RestoreSends ==
  ASSUME TypeOK, SendInv, Restore
  PROVE  SendInv'
  <1>1. /\ led'.owner = saved.owner
        /\ led'.hold = TRUE
    BY DEF Restore, TypeOK, Ledger
  <1>2. /\ UNCHANGED <<call, wire, landed, excused, saved>>
        /\ wire = {}
        /\ \A x \in Batches : ~Alive(x)
    BY DEF Restore, callVars, Alive
  <1>3. \A x \in Batches, k \in Keys : /\ MayLand(x, k)' <=> MayLand(x, k)
                                       /\ Outstanding(x, k)' <=> Outstanding(x, k)
                                       /\ MayLand(x, k) <=> <<x, k>> \in landed
    BY <1>2 DEF MayLand, Outstanding, Alive
  <1>4. AllTracked'
    <2> SUFFICES ASSUME NEW x \in Batches
                 PROVE  Tracked(x)'
      BY DEF AllTracked
    <2>1. Tracked(x)
      BY DEF SendInv, AllTracked
    <2>2. Unborn(x) => Unborn(x)'
      BY <1>1, <1>2, <1>3 DEF Unborn
    <2> QED BY <2>1, <2>2, <1>2, <1>3 DEF Tracked, Alive
  <1>5. BlockedOrHeld'
    BY <1>1, <1>2, <1>3 DEF BlockedOrHeld, Outstanding
  <1>6. AtMostOne'
    BY <1>3 DEF SendInv, AtMostOne
  <1>7. Spoken'
    BY <1>2 DEF Spoken, Alive
  <1>8. Recovered'
    BY <1>2 DEF SendInv, AllTracked, Tracked, Recovered, Alive
  <1> QED BY <1>4, <1>5, <1>6, <1>7, <1>8 DEF SendInv

\* What was forgotten is claimed again by a batch that sends nothing.
LEMMA ReconcileSends ==
  ASSUME TypeOK, SendInv, OneScope, NEW b \in Batches, NEW s \in Scopes, Reconcile(b, s)
  PROVE  SendInv'
  <1> DEFINE S == Forgotten(s)
  <1>0. /\ Tracked(b)
        /\ call \in [Batches -> Call]
        /\ led \in Ledger
        /\ S \in SUBSET Keys
        /\ UNCHANGED <<wire, landed, excused, saved>>
    BY ForgottenKeys DEF SendInv, AllTracked, TypeOK, CallType, Reconcile
  <1>1. /\ led'.state = [k \in Keys |-> IF k \in S THEN "intent" ELSE led.state[k]]
        /\ led'.owner = [k \in Keys |-> IF k \in S THEN b ELSE led.owner[k]]
    BY <1>0, ClaimedTyped DEF Reconcile
  <1>2. Unborn(b) /\ b \notin wire
    BY <1>0 DEF Tracked, Reconcile
  <1>3. \A x \in Batches, k \in Keys : <<x, k>> \in landed => Blocked(k) \/ k \in S
    BY OneScopeKeys DEF Forgotten, Blocked
  <1>4. /\ call'[b].pc = "answered"
        /\ call'[b].result = "dispatched"
        /\ call'[b].reconciles = TRUE
        /\ \A x \in Batches \ {b} : call'[x] = call[x]
    BY <1>0 DEF Reconcile
  <1>5. \A x \in Batches, k \in Keys : MayLand(x, k)' <=> MayLand(x, k)
    BY <1>0, <1>2, <1>4 DEF MayLand, Reconcile
  <1>6. \A x \in Batches, k \in Keys : Outstanding(x, k)' <=> Outstanding(x, k)
    BY <1>0, <1>5 DEF Outstanding
  <1>7. AllTracked'
    <2>1. Tracked(b)'
      BY <1>0, <1>2, <1>4 DEF Tracked, Unborn, MayLand, Alive
    <2>2. ASSUME NEW x \in Batches \ {b}
          PROVE  Tracked(x)'
      <3>1. Tracked(x)
        BY DEF SendInv, AllTracked
      <3>2. Unborn(x) => Unborn(x)'
        BY <1>0, <1>1, <1>5 DEF Unborn
      <3> QED BY <3>1, <3>2, <1>0, <1>4, <1>5 DEF Tracked, Alive
    <2> QED BY <2>1, <2>2 DEF AllTracked
  <1>8. \A x \in Batches, k \in Keys : Outstanding(x, k) => Blocked(k)'
    <2> SUFFICES ASSUME NEW x \in Batches, NEW k \in Keys, Outstanding(x, k)
                 PROVE  Blocked(k)'
      OBVIOUS
    <2>1. Blocked(k) \/ k \in S
      BY <1>3 DEF SendInv, BlockedOrHeld
    <2> QED BY <2>1, <1>1 DEF Blocked, Blocking
  <1>9. BlockedOrHeld' /\ AtMostOne' /\ Recovered'
    BY <1>6, <1>8 DEF SendInv, BlockedOrHeld, AtMostOne, Recovered
  <1>10. Spoken'
    <2> SUFFICES ASSUME NEW x \in Batches, NEW c \in Batches, NEW k \in Keys,
                        led'.owner[k] = x, Alive(x)', Outstanding(c, k)', x # b
                 PROVE  c = x \/ call'[x].reconciles
      BY <1>4 DEF Spoken
    <2>1. led.owner[k] = x /\ Outstanding(c, k) /\ call'[x] = call[x]
      BY <1>1, <1>4, <1>6
    <2> QED BY <2>1 DEF SendInv, Spoken, Alive
  <1> QED BY <1>7, <1>9, <1>10 DEF SendInv

\* The hold is lifted when every outstanding send is blocked again.
LEMMA ClearHoldSends ==
  ASSUME TypeOK, SendInv, OneScope, NEW b \in Batches, NEW s \in Scopes, ClearHold(b, s)
  PROVE  SendInv'
  <1>0. /\ Tracked(b)
        /\ call \in [Batches -> Call]
        /\ UNCHANGED <<wire, landed, excused, saved>>
    BY DEF SendInv, AllTracked, TypeOK, CallType, ClearHold
  <1>1. led'.owner = led.owner /\ led'.state = led.state
    BY DEF ClearHold, TypeOK, Ledger
  <1>2. /\ \A x \in Batches \ {b} : call'[x] = call[x]
        /\ Tracked(b)'
        /\ Alive(b)' => Alive(b) /\ call'[b].reconciles = call[b].reconciles
        /\ call'[b].reconciles => call[b].reconciles
        /\ \A k \in Keys : MayLand(b, k)' => MayLand(b, k)
    <2>1. CASE call[b].pc = "lifting" /\ Over(b)
      BY <2>1, <1>0 DEF Over, NoCall, Tracked, Alive, MayLand, Call
    <2>2. CASE UNCHANGED call
      BY <2>2, <1>0, <1>1 DEF Tracked, Alive, MayLand, Unborn
    <2> QED BY <2>1, <2>2 DEF ClearHold
  <1>3. \A x \in Batches \ {b} : Tracked(x)' /\ \A k \in Keys : MayLand(x, k)' <=> MayLand(x, k)
    BY <1>0, <1>1, <1>2 DEF Tracked, MayLand, Alive, Unborn, SendInv, AllTracked
  <1>4. \A x \in Batches, k \in Keys : Outstanding(x, k)' => Outstanding(x, k)
    BY <1>0, <1>2, <1>3 DEF Outstanding
  <1>5. \A x \in Batches, k \in Keys : Outstanding(x, k) => Blocked(k)
    <2>1. CASE call[b].pc = "lifting"
      BY <2>1, <1>0 DEF Tracked, SendInv, Recovered
    <2>2. CASE Forgotten(s) = {}
      <3>1. \A x \in Batches, k \in Keys : <<x, k>> \in landed => Blocked(k)
        BY <2>2, OneScopeKeys DEF Forgotten, Blocked
      <3> QED BY <3>1 DEF SendInv, BlockedOrHeld
    <2> QED BY <2>1, <2>2 DEF ClearHold
  <1>6. \A x \in Batches, k \in Keys : Outstanding(x, k)' => Blocked(k)'
    BY <1>1, <1>4, <1>5 DEF Blocked
  <1>7. AllTracked'
    BY <1>2, <1>3 DEF AllTracked
  <1>8. BlockedOrHeld' /\ Recovered'
    BY <1>6 DEF BlockedOrHeld, Recovered
  <1>9. AtMostOne'
    BY <1>4 DEF SendInv, AtMostOne
  <1>10. Spoken'
    BY <1>1, <1>2, <1>4 DEF SendInv, Spoken, Alive
  <1> QED BY <1>7, <1>8, <1>9, <1>10 DEF SendInv

-----------------------------------------------------------------------------
LEMMA InitSends == Init => SendInv
  <1> SUFFICES ASSUME Init
               PROVE  SendInv
    OBVIOUS
  <1>1. /\ \A b \in Batches : call[b] = NoCall
        /\ wire = {} /\ landed = {}
        /\ \A k \in Keys : led.owner[k] = None /\ saved.owner[k] = None
    BY DEF Init, CallInit, Empty
  <1>2. \A b \in Batches, k \in Keys : ~MayLand(b, k)
    BY <1>1 DEF MayLand, NoCall
  <1>3. AllTracked
    BY <1>1, <1>2, NoneAssumption DEF AllTracked, Tracked, Unborn, NoCall
  <1> QED BY <1>2, <1>3 DEF SendInv, BlockedOrHeld, AtMostOne, Spoken, Recovered, Outstanding

LEMMA NextSends ==
  ASSUME Restores => OneScope
  PROVE  TypeOK /\ SendInv /\ [Next]_vars => SendInv'
  <1> SUFFICES ASSUME TypeOK, SendInv, [Next]_vars
               PROVE  SendInv'
    OBVIOUS
  <1>1. CASE CallStep /\ UNCHANGED <<led, saved>>
    BY <1>1, CallStepSends
  <1>2. ASSUME NEW b \in Batches, Record(b) \/ Resolve(b)
        PROVE  SendInv'
    BY <1>2, RecordSends, ResolveSends
  <1>3. ASSUME NEW b \in Batches, NEW s \in Scopes, NEW S \in SUBSET InScope(s), Claim(b, S)
        PROVE  SendInv'
    BY <1>3, ClaimSends, KeysOfScope
  <1>4. ASSUME NEW b \in Batches, NEW s \in Scopes, Reconcile(b, s) \/ ClearHold(b, s)
        PROVE  SendInv'
    <2>1. OneScope
      BY <1>4 DEF Reconcile, ClearHold
    <2> QED BY <2>1, <1>4, ReconcileSends, ClearHoldSends
  <1>5. ASSUME NEW s \in Scopes, NEW S \in SUBSET InScope(s), MarkRemoved(S)
        PROVE  SendInv'
    BY <1>5, MarkRemovedSends, KeysOfScope
  <1>6. CASE Backup
    BY <1>6, BackupSends
  <1>7. CASE Restore
    BY <1>7, RestoreSends
  <1>8. CASE UNCHANGED vars
    BY <1>8 DEF vars, callVars, SendInv, AllTracked, Tracked, Unborn, MayLand, Outstanding, Alive,
                Blocked, BlockedOrHeld, AtMostOne, Spoken, Recovered
  <1> QED BY <1>1, <1>2, <1>3, <1>4, <1>5, <1>6, <1>7, <1>8 DEF Next

LEMMA SendInvIsSafe == SendInv => NoDoubleSend
  BY DEF SendInv, AtMostOne, Outstanding, MayLand, NoDoubleSend

\* No recipient is reached by two batches that nobody disowned: for any number of
\* batches, deaths and late deliveries, and after any number of restores when there is
\* one sequence to reconcile (with two of them it is false: README, section 6).
THEOREM SendsOnce ==
  ASSUME Restores => OneScope
  PROVE  Spec => []NoDoubleSend
  <1>1. Init => SendInv BY InitSends
  <1>2. TypeOK /\ SendInv /\ [Next]_vars => SendInv' BY NextSends
  <1>3. SendInv => NoDoubleSend BY SendInvIsSafe
  <1> QED BY <1>1, <1>2, <1>3, TypeCorrect, PTL DEF Spec
=============================================================================
