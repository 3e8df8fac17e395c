--------------------------- MODULE PgIntentsProofs ---------------------------
(***************************************************************************)
(* Theorems about PgIntents for every set of scopes, recipients, batches   *)
(* and resolutions: the lock of the claims keeps two claims of a recipient *)
(* apart, and the one step that this lock does not cover, a resolution     *)
(* between the two statements of record_outcome, is the only way in which  *)
(* a recipient is reached twice.                                           *)
(***************************************************************************)
EXTENDS PgIntents, TLAPS

-----------------------------------------------------------------------------
(* Types.                                                                  *)

Kinds == {"none", "claim", "dispatched", "failed", "unknown", "sent", "not_sent"}
Row   == [kind: Kinds, batch: Batches \cup {None}]
Resolution == [pc: {"idle", "inserting", "done"}, batch: Batches \cup {None},
               sent: SUBSET Keys, others: SUBSET Keys]

TypeOK ==
    /\ CallType
    /\ latest \in [Keys -> Row]
    /\ owned \in [Batches -> SUBSET Keys]
    /\ answer \in [Answers -> Resolution]

LEMMA KeysOfScope == \A s \in Scopes : InScope(s) \subseteq Keys
  BY DEF InScope

LEMMA OverTyped ==
  ASSUME CallType, NEW b \in Batches, Over(b)
  PROVE  call' \in [Batches -> Call]
  BY DEF CallType, Over, Call, NoCall, PCs, Results

LEMMA VerdictTyped ==
  ASSUME CallType, NEW b \in Batches, NEW r \in Results, Verdict(b, r)
  PROVE  call' \in [Batches -> Call]
  BY ZenonT(60) DEF CallType, Verdict, Call, PCs

LEMMA VerdictActs ==
  ASSUME call \in [Batches -> Call], NEW b \in Batches, NEW r \in Results, Verdict(b, r)
  PROVE  call'[b].pc = "answered"
  <1>1. call[b] \in Call
    OBVIOUS
  <1> QED BY <1>1 DEF Verdict, Call

LEMMA CallStepTyped == CallType /\ CallStep => CallType'
  <1> SUFFICES ASSUME CallType,
                      NEW b \in Batches,
                      Send(b) \/ Accepted(b) \/ Rejected(b) \/ Unanswered(b) \/ Lands(b) \/ Die(b)
               PROVE  CallType'
    BY DEF CallStep
  <1> USE DEF CallType
  <1>0. call[b].keys \subseteq Keys
    BY DEF Call
  <1>1. CASE Send(b)
    <2>1. CASE Verdict(b, "failed") /\ UNCHANGED wire
      BY <1>1, <2>1, VerdictTyped DEF Send, Results
    <2>2. CASE call' = [call EXCEPT ![b].pc = "calling"] /\ wire' = wire \cup {b}
      BY <1>1, <2>2 DEF Send, Call, PCs
    <2> QED BY <1>1, <2>1, <2>2 DEF Send
  <1>2. CASE Accepted(b)
    BY <1>2, <1>0, VerdictTyped DEF Accepted, Results
  <1>3. CASE Rejected(b)
    BY <1>3, VerdictTyped DEF Rejected, Results
  <1>4. CASE Unanswered(b)
    BY <1>4, VerdictTyped DEF Unanswered, Results
  <1>5. CASE Lands(b)
    BY <1>5, <1>0 DEF Lands
  <1>6. CASE Die(b)
    BY <1>6, OverTyped DEF Die
  <1> QED BY <1>1, <1>2, <1>3, <1>4, <1>5, <1>6

LEMMA AppendTyped ==
  ASSUME latest \in [Keys -> Row], NEW b \in Batches, NEW S, NEW kind \in Kinds, Append(b, S, kind)
  PROVE  latest' \in [Keys -> Row]
  BY DEF Append, Row

LEMMA ClaimReadTyped ==
  ASSUME TypeOK, NEW b \in Batches, NEW s \in Scopes, NEW S \in SUBSET InScope(s), ClaimRead(b, s, S)
  PROVE  TypeOK'
  <1>1. S \in SUBSET Keys
    BY KeysOfScope
  <1>2. call' \in [Batches -> Call]
    BY <1>1 DEF TypeOK, CallType, ClaimRead, Call, NoCall, PCs, Results
  <1> QED BY <1>2 DEF TypeOK, CallType, ClaimRead, pgVars

LEMMA ClaimInsertTyped ==
  ASSUME TypeOK, NEW b \in Batches, ClaimInsert(b)
  PROVE  TypeOK'
  <1>1. call' \in [Batches -> Call]
    BY DEF TypeOK, CallType, ClaimInsert, Call, PCs
  <1>2. latest' \in [Keys -> Row]
    BY AppendTyped DEF TypeOK, ClaimInsert, Kinds
  <1> QED BY <1>1, <1>2 DEF TypeOK, CallType, ClaimInsert

LEMMA RecordReadTyped ==
  ASSUME TypeOK, NEW b \in Batches, RecordRead(b)
  PROVE  TypeOK'
  <1>1. call' \in [Batches -> Call] /\ owned' \in [Batches -> SUBSET Keys]
    <2>1. CASE owned' = [owned EXCEPT ![b] = Owned(b, {"claim"})]
               /\ call' = [call EXCEPT ![b].pc = "recording"]
      BY <2>1 DEF TypeOK, CallType, Call, PCs, Owned
    <2>2. CASE Over(b) /\ UNCHANGED owned
      BY <2>2, OverTyped DEF TypeOK
    <2> QED BY <2>1, <2>2 DEF RecordRead
  <1> QED BY <1>1 DEF TypeOK, CallType, RecordRead

LEMMA RecordInsertTyped ==
  ASSUME TypeOK, NEW b \in Batches, RecordInsert(b)
  PROVE  TypeOK'
  <1>1. call' \in [Batches -> Call]
    BY OverTyped DEF TypeOK, RecordInsert
  <1>2. call[b].result \in Kinds
    BY DEF TypeOK, CallType, Call, Results, Kinds
  <1>3. latest' \in [Keys -> Row]
    BY <1>2, AppendTyped DEF TypeOK, RecordInsert
  <1>4. owned' \in [Batches -> SUBSET Keys]
    BY DEF TypeOK, RecordInsert
  <1> QED BY <1>1, <1>3, <1>4 DEF TypeOK, CallType, RecordInsert

LEMMA ResolveReadTyped ==
  ASSUME TypeOK, NEW a \in Answers, NEW b \in Batches, ResolveRead(a, b)
  PROVE  TypeOK'
  <1> DEFINE open == Owned(b, {"claim", "unknown"})
  <1>1. PICK S \in SUBSET open :
            answer' = [answer EXCEPT ![a] = [pc |-> "inserting", batch |-> b,
                                             sent |-> S, others |-> open \ S]]
    BY DEF ResolveRead
  <1>2. open \in SUBSET Keys
    BY DEF Owned
  <1>3. answer' \in [Answers -> Resolution]
    BY <1>1, <1>2 DEF TypeOK, Resolution
  <1> QED BY <1>3 DEF TypeOK, CallType, ResolveRead, callVars

LEMMA ResolveInsertTyped ==
  ASSUME TypeOK, NEW a \in Answers, ResolveInsert(a)
  PROVE  TypeOK'
  <1>1. answer[a] \in Resolution
    BY DEF TypeOK
  <1>2. latest' \in [Keys -> Row]
    BY <1>1 DEF TypeOK, ResolveInsert, Row, Kinds, Resolution
  <1>3. excused' \subseteq Batches \X Keys
    BY <1>1 DEF TypeOK, CallType, ResolveInsert, Excuse, Resolution
  <1>4. answer' \in [Answers -> Resolution]
    BY DEF TypeOK, ResolveInsert, Resolution
  <1> QED BY <1>2, <1>3, <1>4 DEF TypeOK, CallType, ResolveInsert

LEMMA InitTyped == Init => TypeOK
  BY DEF Init, CallInit, TypeOK, CallType, Call, NoCall, PCs, Results, Row, Kinds, Resolution

LEMMA NextTyped == TypeOK /\ [Next]_vars => TypeOK'
  <1> SUFFICES ASSUME TypeOK, [Next]_vars
               PROVE  TypeOK'
    OBVIOUS
  <1>1. CASE CallStep /\ UNCHANGED pgVars
    BY <1>1, CallStepTyped DEF TypeOK, pgVars
  <1>2. CASE \E b \in Batches, s \in Scopes : \E S \in SUBSET InScope(s) : ClaimRead(b, s, S)
    BY <1>2, ClaimReadTyped
  <1>3. CASE \E b \in Batches : ClaimInsert(b) \/ RecordRead(b) \/ RecordInsert(b)
    BY <1>3, ClaimInsertTyped, RecordReadTyped, RecordInsertTyped
  <1>4. CASE \E a \in Answers, b \in Batches : ResolveRead(a, b)
    BY <1>4, ResolveReadTyped
  <1>5. CASE \E a \in Answers : ResolveInsert(a)
    BY <1>5, ResolveInsertTyped
  <1>6. CASE UNCHANGED vars
    BY <1>6 DEF vars, callVars, pgVars, TypeOK, CallType
  <1> QED BY <1>1, <1>2, <1>3, <1>4, <1>5, <1>6 DEF Next

\* Every dispatcher, row and resolution keeps its shape.
THEOREM TypeCorrect == Spec => []TypeOK
  <1>1. Init => TypeOK BY InitTyped
  <1>2. TypeOK /\ [Next]_vars => TypeOK' BY NextTyped
  <1> QED BY <1>1, <1>2, PTL DEF Spec

-----------------------------------------------------------------------------
(* The advisory lock: two claims that are between their statements share   *)
(* no recipient, and neither replaces an open claim.                       *)

Claims(b, k)   == latest[k].kind = "claim" /\ latest[k].batch = b
Claiming(b, k) == call[b].pc = "claiming" /\ k \in call[b].keys

ClaimsApart  == \A b, c \in Batches, k \in Keys : Claiming(b, k) /\ Claiming(c, k) => b = c
NoOpenClaim  == \A b \in Batches, k \in Keys : Claiming(b, k) => latest[k].kind # "claim"
OneSequence  == \A b \in Batches :
                    call[b].pc = "claiming" => \E s \in Scopes : call[b].keys \subseteq InScope(s)
ClaimsExclude == ClaimsApart /\ NoOpenClaim /\ OneSequence

\* A step that begins no claim and inserts none.
LEMMA OthersExclude ==
  ASSUME ClaimsExclude,
         \A b \in Batches : call'[b].pc = "claiming" => call'[b] = call[b],
         \A k \in Keys : latest'[k].kind = "claim" => latest[k].kind = "claim"
  PROVE  ClaimsExclude'
  BY DEF ClaimsExclude, ClaimsApart, NoOpenClaim, OneSequence, Claiming

LEMMA CallStepActs ==
  ASSUME CallType, NEW b \in Batches,
         Send(b) \/ Accepted(b) \/ Rejected(b) \/ Unanswered(b) \/ Lands(b) \/ Die(b)
  PROVE  \/ UNCHANGED call
         \/ /\ \A x \in Batches \ {b} : call'[x] = call[x]
            /\ \/ call'[b].pc = "over"
               \/ call[b].pc \in {"claimed", "calling"} /\ call'[b].pc \in {"calling", "answered"}
  <1>0. call \in [Batches -> Call] /\ call[b] \in Call
    BY DEF CallType
  <1>1. CASE Lands(b)
    BY <1>1 DEF Lands
  <1>2. CASE Die(b)
    BY <1>0, <1>2 DEF Die, Over, NoCall
  <1>3. CASE Send(b) \/ Accepted(b) \/ Rejected(b) \/ Unanswered(b)
    <2>1. call[b].pc \in {"claimed", "calling"}
      BY <1>3 DEF Send, Accepted, Rejected, Unanswered
    <2>2. CASE Verdict(b, "failed") \/ Verdict(b, "dispatched") \/ Verdict(b, "unknown")
      <3>1. call'[b].pc = "answered"
        BY <1>0, <2>2, VerdictActs DEF Results
      <3>2. \A x \in Batches \ {b} : call'[x] = call[x]
        BY <1>0, <2>2 DEF Verdict
      <3> QED BY <2>1, <3>1, <3>2
    <2>3. CASE call' = [call EXCEPT ![b].pc = "calling"]
      BY <1>0, <2>1, <2>3
    <2> QED BY <1>3, <2>2, <2>3 DEF Send, Accepted, Rejected, Unanswered
  <1> QED BY <1>1, <1>2, <1>3

LEMMA ClaimReadExcludes ==
  ASSUME TypeOK, ClaimsExclude, NEW b \in Batches, NEW s \in Scopes, NEW S \in SUBSET InScope(s),
         ClaimRead(b, s, S)
  PROVE  ClaimsExclude'
  <1>1. /\ call'[b].pc = "claiming" /\ call'[b].keys = S
        /\ \A x \in Batches \ {b} : call'[x] = call[x]
        /\ latest' = latest
    BY DEF TypeOK, CallType, ClaimRead, NoCall, pgVars
  <1>2. ASSUME NEW c \in Batches, NEW k \in S
        PROVE  ~Claiming(c, k)
    <2> SUFFICES ASSUME Claiming(c, k) PROVE FALSE
      OBVIOUS
    <2>1. PICK t \in Scopes : call[c].keys \subseteq InScope(t)
      BY DEF ClaimsExclude, OneSequence, Claiming
    <2>2. k[1] = s /\ k[1] = t
      BY <2>1 DEF InScope, Claiming
    <2>3. Locked(s)
      BY <2>1, <2>2 DEF Locked, Claiming
    <2> QED BY <2>3 DEF ClaimRead
  <1>3. ClaimsApart'
    BY <1>1, <1>2 DEF ClaimsExclude, ClaimsApart, Claiming
  <1>4. NoOpenClaim'
    BY <1>1 DEF ClaimsExclude, NoOpenClaim, Claiming, ClaimRead, Released
  <1>5. OneSequence'
    BY <1>1 DEF ClaimsExclude, OneSequence
  <1> QED BY <1>3, <1>4, <1>5 DEF ClaimsExclude

LEMMA ClaimInsertExcludes ==
  ASSUME TypeOK, ClaimsExclude, NEW b \in Batches, ClaimInsert(b)
  PROVE  ClaimsExclude'
  <1>1. /\ call'[b].pc = "claimed"
        /\ \A x \in Batches \ {b} : call'[x] = call[x]
    BY DEF TypeOK, CallType, Call, ClaimInsert
  <1>2. ASSUME NEW c \in Batches, NEW k \in Keys, Claiming(c, k)'
        PROVE  latest'[k].kind # "claim"
    <2>1. c # b /\ Claiming(c, k)
      BY <1>1, <1>2 DEF Claiming
    <2>2. ~Claiming(b, k)
      BY <2>1 DEF ClaimsExclude, ClaimsApart
    <2>3. latest'[k] = latest[k]
      BY <2>2 DEF ClaimInsert, Append, Claiming
    <2> QED BY <2>1, <2>3 DEF ClaimsExclude, NoOpenClaim
  <1> QED BY <1>1, <1>2 DEF ClaimsExclude, ClaimsApart, NoOpenClaim, OneSequence, Claiming

LEMMA RecordReadActs ==
  ASSUME TypeOK, NEW b \in Batches, RecordRead(b)
  PROVE  /\ call'[b].pc # "claiming"
         /\ \A x \in Batches \ {b} : call'[x] = call[x]
  BY DEF TypeOK, CallType, Call, RecordRead, Over, NoCall

LEMMA RecordInsertActs ==
  ASSUME TypeOK, NEW b \in Batches, RecordInsert(b)
  PROVE  /\ call'[b].pc = "over"
         /\ \A x \in Batches \ {b} : call'[x] = call[x]
         /\ \A k \in Keys : latest'[k].kind = "claim" => k \notin owned[b] /\ latest'[k] = latest[k]
  <1>1. call[b].result # "claim"
    BY DEF TypeOK, CallType, Call, Results
  <1> QED BY <1>1 DEF TypeOK, CallType, RecordInsert, Over, NoCall, Append

LEMMA ResolveInsertActs ==
  ASSUME NEW a \in Answers, ResolveInsert(a)
  PROVE  \A k \in Keys : latest'[k].kind = "claim"
             => k \notin answer[a].sent \cup answer[a].others /\ latest'[k] = latest[k]
  BY DEF ResolveInsert

LEMMA NextExcludes == TypeOK /\ ClaimsExclude /\ [Next]_vars => ClaimsExclude'
  <1> SUFFICES ASSUME TypeOK, ClaimsExclude, [Next]_vars
               PROVE  ClaimsExclude'
    OBVIOUS
  <1>1. CASE CallStep /\ UNCHANGED pgVars
    <2>1. \A b \in Batches : call'[b].pc = "claiming" => call'[b] = call[b]
      BY <1>1, CallStepActs DEF TypeOK, CallStep
    <2> QED BY <1>1, <2>1, OthersExclude DEF pgVars
  <1>2. CASE \E b \in Batches, s \in Scopes : \E S \in SUBSET InScope(s) : ClaimRead(b, s, S)
    BY <1>2, ClaimReadExcludes
  <1>3. ASSUME NEW b \in Batches, ClaimInsert(b)
        PROVE  ClaimsExclude'
    BY <1>3, ClaimInsertExcludes
  <1>4. ASSUME NEW b \in Batches, RecordRead(b)
        PROVE  ClaimsExclude'
    BY <1>4, RecordReadActs, OthersExclude DEF RecordRead
  <1>5. ASSUME NEW b \in Batches, RecordInsert(b)
        PROVE  ClaimsExclude'
    BY <1>5, RecordInsertActs, OthersExclude
  <1>6. CASE \E a \in Answers, b \in Batches : ResolveRead(a, b)
    BY <1>6, OthersExclude DEF ResolveRead, callVars
  <1>7. CASE \E a \in Answers : ResolveInsert(a)
    <2> PICK a \in Answers : ResolveInsert(a)
      BY <1>7
    <2>1. UNCHANGED call
      BY DEF ResolveInsert
    <2> QED BY <2>1, ResolveInsertActs, OthersExclude
  <1>8. CASE UNCHANGED vars
    BY <1>8, OthersExclude DEF vars, callVars, pgVars
  <1> QED BY <1>1, <1>2, <1>3, <1>4, <1>5, <1>6, <1>7, <1>8 DEF Next

\* Between the SELECT and the INSERT of a claim nobody else claims the same recipient, and
\* the INSERT never replaces an open claim: the unique index behind the lock never fires.
THEOREM ClaimsAreExclusive == Spec => []ClaimsExclude
  <1>1. Init => ClaimsExclude
    BY DEF Init, CallInit, NoCall, ClaimsExclude, ClaimsApart, NoOpenClaim, OneSequence, Claiming
  <1>2. TypeOK /\ ClaimsExclude /\ [Next]_vars => ClaimsExclude'
    BY NextExcludes
  <1> QED BY <1>1, <1>2, TypeCorrect, PTL DEF Spec

-----------------------------------------------------------------------------
(* No double send, but for one race. A send is outstanding while it was    *)
(* not disowned and it went out, or still may: the table blocks its        *)
(* recipient, whatever outcomes and answers arrive in whatever order, as   *)
(* long as what a record_outcome has read is still so when it inserts.     *)

\* The race that nothing excludes: an operator's answer about a recipient is inserted
\* between the two statements of the record_outcome that speaks for it.
ResolvesApart ==
    \A a \in Answers : ResolveInsert(a) =>
        \A b \in Batches : call[b].pc = "recording"
            => owned[b] \cap (answer[a].sent \cup answer[a].others) = {}

MayLand(b, k) ==
    \/ <<b, k>> \in landed
    \/ b \in wire /\ k \in call[b].keys
    \/ call[b].pc = "claimed" /\ k \in call[b].keys

Outstanding(b, k) == MayLand(b, k) /\ <<b, k>> \notin excused
Free(k)  == latest[k].kind \in Released \cup {"none"}
Alive(b) == call[b].pc \notin {"idle", "over"}

\* What the program counter of a dispatcher says of its batch.
Unborn(b)  == b \notin wire /\ \A k \in Keys : <<b, k>> \notin landed /\ ~Claims(b, k)
Judged(b)  == call[b].pc \in {"answered", "recording"}
Tracked(b) ==
    /\ call[b].pc \in {"idle", "claiming"} => Unborn(b)
    /\ call[b].pc = "claimed" => b \notin wire
    /\ b \in wire \/ call[b].pc = "claimed" => \A k \in Keys : <<b, k>> \notin landed
    /\ Judged(b) => call[b].result # "none"
    /\ Judged(b) /\ call[b].result = "failed" => \A k \in Keys : ~MayLand(b, k)

AllTracked == \A b \in Batches : Tracked(b)
StillOwned == \A b \in Batches : call[b].pc = "recording" => \A k \in owned[b] : Claims(b, k)
Blocked    == \A b \in Batches, k \in Keys : Outstanding(b, k) => ~Free(k)
AtMostOne  == \A b, c \in Batches, k \in Keys : Outstanding(b, k) /\ Outstanding(c, k) => b = c
\* A live dispatcher speaks for a recipient only if no other's send to it is outstanding.
Speaks(x, k) == Claims(x, k) /\ Alive(x)
Spoken == \A x, b \in Batches, k \in Keys : Speaks(x, k) /\ Outstanding(b, k) => b = x
Vacant == \A x, b \in Batches, k \in Keys : Claiming(x, k) => ~Outstanding(b, k)

SendInv == AllTracked /\ StillOwned /\ Blocked /\ AtMostOne /\ Spoken /\ Vacant

\* A step that starts no send, lets no recipient of an outstanding send go, and gives no
\* dispatcher a recipient.
Quiet ==
    \A b \in Batches, k \in Keys :
        /\ Outstanding(b, k)' => Outstanding(b, k)
        /\ Outstanding(b, k)' /\ ~Free(k) => ~Free(k)'
        /\ Speaks(b, k)' => Speaks(b, k)
        /\ Claiming(b, k)' => Claiming(b, k)

LEMMA QuietKeeps ==
  ASSUME Blocked, AtMostOne, Spoken, Vacant, Quiet
  PROVE  Blocked' /\ AtMostOne' /\ Spoken' /\ Vacant'
  <1>1. Blocked'
    BY DEF Blocked, Quiet
  <1>2. AtMostOne'
    BY DEF AtMostOne, Quiet
  <1>3. Spoken'
    BY DEF Spoken, Quiet
  <1>4. Vacant'
    BY DEF Vacant, Quiet
  <1> QED BY <1>1, <1>2, <1>3, <1>4

\* What a step of another dispatcher leaves alone.
LEMMA TrackedKept ==
  ASSUME NEW x \in Batches, Tracked(x), call'[x] = call[x], x \in wire' <=> x \in wire,
         \A k \in Keys : <<x, k>> \in landed' <=> <<x, k>> \in landed,
         \A k \in Keys : Claims(x, k)' => Claims(x, k)
  PROVE  /\ Tracked(x)'
         /\ \A k \in Keys : MayLand(x, k)' <=> MayLand(x, k)
         /\ \A k \in Keys : Speaks(x, k)' => Speaks(x, k)
         /\ \A k \in Keys : Claiming(x, k)' <=> Claiming(x, k)
  BY DEF Tracked, Unborn, Judged, MayLand, Speaks, Alive, Claiming

LEMMA KeysOfOwned == TypeOK => \A b \in Batches : owned[b] \subseteq Keys
  BY DEF TypeOK

\* A step of the dispatcher or the provider of batch b.
LEMMA CallStepSends ==
  ASSUME TypeOK, SendInv, CallStep, UNCHANGED pgVars
  PROVE  SendInv'
  <1> PICK b \in Batches :
             Send(b) \/ Accepted(b) \/ Rejected(b) \/ Unanswered(b) \/ Lands(b) \/ Die(b)
    BY DEF CallStep
  <1>0. /\ Tracked(b)
        /\ call \in [Batches -> Call]
        /\ call[b] \in Call
        /\ UNCHANGED <<latest, owned>>
        /\ \A x \in Batches, k \in Keys : Claims(x, k)' <=> Claims(x, k)
    BY DEF SendInv, AllTracked, TypeOK, CallType, pgVars, Claims
  <1>1. /\ \A x \in Batches \ {b} : /\ call'[x] = call[x]
                                    /\ x \in wire' <=> x \in wire
                                    /\ \A k \in Keys : <<x, k>> \in landed' <=> <<x, k>> \in landed
        /\ excused' = excused
    BY <1>0 DEF Send, Accepted, Rejected, Unanswered, Lands, Die, Verdict, Over
  <1>2. Tracked(b)' /\ \A k \in Keys : MayLand(b, k)' => MayLand(b, k)
    <2>1. CASE Send(b)
      BY <2>1, <1>0 DEF Send, Verdict, Tracked, Judged, MayLand, Call, Unborn
    <2>2. CASE Accepted(b)
      BY <2>2, <1>0 DEF Accepted, Verdict, Tracked, Judged, MayLand, Call, Unborn
    <2>3. CASE Rejected(b)
      BY <2>3, <1>0 DEF Rejected, Verdict, Tracked, Judged, MayLand, Call, Unborn
    <2>4. CASE Unanswered(b)
      BY <2>4, <1>0 DEF Unanswered, Verdict, Tracked, Judged, MayLand, Call, Unborn
    <2>5. CASE Lands(b)
      BY <2>5, <1>0 DEF Lands, Tracked, Judged, MayLand, Call, Unborn
    <2>6. CASE Die(b)
      BY <2>6, <1>0 DEF Die, Over, NoCall, Tracked, Judged, MayLand, Call, Unborn
    <2> QED BY <2>1, <2>2, <2>3, <2>4, <2>5, <2>6
  <1>3. \A x \in Batches \ {b} : /\ Tracked(x)'
                                 /\ \A k \in Keys : /\ MayLand(x, k)' <=> MayLand(x, k)
                                                    /\ Speaks(x, k)' => Speaks(x, k)
                                                    /\ Claiming(x, k)' <=> Claiming(x, k)
    BY <1>0, <1>1, TrackedKept DEF SendInv, AllTracked
  <1>4. /\ Alive(b)' => Alive(b)
        /\ call'[b].pc # "recording" \/ call'[b].pc = call[b].pc
        /\ \A k \in Keys : Claiming(b, k)' => Claiming(b, k)
    BY CallStepActs DEF TypeOK, Alive, Claiming
  <1>5. AllTracked'
    BY <1>2, <1>3 DEF AllTracked
  <1>6. StillOwned'
    BY <1>0, <1>1, <1>4, KeysOfOwned DEF SendInv, StillOwned
  <1>7. \A x \in Batches, k \in Keys : /\ Outstanding(x, k)' => Outstanding(x, k)
                                       /\ Speaks(x, k)' => Speaks(x, k)
                                       /\ Claiming(x, k)' => Claiming(x, k)
    <2>1. \A x \in Batches, k \in Keys : MayLand(x, k)' => MayLand(x, k)
      BY <1>2, <1>3
    <2>2. \A x \in Batches, k \in Keys : Outstanding(x, k)' => Outstanding(x, k)
      BY <2>1, <1>1 DEF Outstanding
    <2>3. \A k \in Keys : Speaks(b, k)' => Speaks(b, k)
      BY <1>0, <1>4 DEF Speaks
    <2> QED BY <2>2, <2>3, <1>3, <1>4
  <1>8. Quiet
    BY <1>0, <1>7 DEF Quiet, Free
  <1> QED BY <1>5, <1>6, <1>8, QuietKeeps DEF SendInv

\* A claim reads that its recipients are free: nothing is outstanding there.
LEMMA ClaimReadSends ==
  ASSUME TypeOK, SendInv, NEW b \in Batches, NEW s \in Scopes, NEW S \in SUBSET InScope(s),
         ClaimRead(b, s, S)
  PROVE  SendInv'
  <1>0. /\ Tracked(b)
        /\ call[b].pc = "idle"
        /\ call'[b].pc = "claiming" /\ call'[b].keys = S
        /\ \A x \in Batches \ {b} : call'[x] = call[x]
        /\ UNCHANGED <<wire, landed, excused, latest, owned>>
        /\ \A x \in Batches, k \in Keys : Claims(x, k)' <=> Claims(x, k)
    BY DEF SendInv, AllTracked, TypeOK, CallType, ClaimRead, NoCall, pgVars, Claims
  <1>1. Tracked(b)' /\ \A k \in Keys : ~MayLand(b, k)'
    BY <1>0 DEF Tracked, Unborn, Judged, MayLand
  <1>2. \A x \in Batches \ {b} : /\ Tracked(x)'
                                 /\ \A k \in Keys : /\ MayLand(x, k)' <=> MayLand(x, k)
                                                    /\ Speaks(x, k)' => Speaks(x, k)
                                                    /\ Claiming(x, k)' <=> Claiming(x, k)
    BY <1>0, TrackedKept DEF SendInv, AllTracked
  <1>3. \A x \in Batches, k \in Keys : Outstanding(x, k)' => Outstanding(x, k)
    BY <1>0, <1>1, <1>2 DEF Outstanding
  <1>4. \A x \in Batches, k \in Keys : Speaks(x, k)' => Speaks(x, k)
    BY <1>0, <1>2 DEF Speaks, Tracked, Unborn
  <1>5. AllTracked' /\ StillOwned'
    BY <1>0, <1>1, <1>2, KeysOfOwned DEF SendInv, AllTracked, StillOwned
  <1>6. Blocked' /\ AtMostOne' /\ Spoken'
    BY <1>0, <1>3, <1>4 DEF SendInv, Blocked, AtMostOne, Spoken, Free
  <1>7. Vacant'
    <2> SUFFICES ASSUME NEW x \in Batches, NEW c \in Batches, NEW k \in Keys,
                        Claiming(x, k)', Outstanding(c, k)
                 PROVE  FALSE
      BY <1>3 DEF Vacant
    <2>1. CASE x = b
      BY <2>1, <1>0 DEF Claiming, ClaimRead, SendInv, Blocked, Free
    <2>2. CASE x # b
      BY <2>2, <1>2 DEF SendInv, Vacant
    <2> QED BY <2>1, <2>2
  <1> QED BY <1>5, <1>6, <1>7 DEF SendInv

\* The claim is inserted: from here on its send is outstanding, and the only one.
LEMMA ClaimInsertSends ==
  ASSUME TypeOK, ClaimsExclude, SendInv, NEW b \in Batches, ClaimInsert(b)
  PROVE  SendInv'
  <1> DEFINE S == call[b].keys
  <1>0. /\ Tracked(b)
        /\ call[b].pc = "claiming"
        /\ call'[b].pc = "claimed" /\ call'[b].keys = S
        /\ \A x \in Batches \ {b} : call'[x] = call[x]
        /\ UNCHANGED <<wire, landed, excused, owned>>
        /\ S \subseteq Keys
        /\ \A k \in Keys : Claiming(b, k) <=> k \in S
    BY DEF SendInv, AllTracked, TypeOK, CallType, Call, ClaimInsert, Claiming
  <1>1. \A k \in Keys : latest'[k] = IF k \in S THEN [kind |-> "claim", batch |-> b] ELSE latest[k]
    BY DEF ClaimInsert, Append
  <1>2. \A x \in Batches, k \in Keys : Claims(x, k)' <=> IF k \in S THEN x = b ELSE Claims(x, k)
    BY <1>1 DEF Claims
  <1>3. Tracked(b)' /\ \A k \in Keys : MayLand(b, k)' <=> k \in S
    BY <1>0 DEF Tracked, Unborn, Judged, MayLand
  <1>4. \A x \in Batches \ {b} : /\ Tracked(x)'
                                 /\ \A k \in Keys : /\ MayLand(x, k)' <=> MayLand(x, k)
                                                    /\ Speaks(x, k)' => Speaks(x, k)
                                                    /\ Claiming(x, k)' <=> Claiming(x, k)
    BY <1>0, <1>2, TrackedKept DEF SendInv, AllTracked
  <1>5. \A x \in Batches, k \in Keys :
            Outstanding(x, k)' => IF k \in S THEN x = b ELSE x # b /\ Outstanding(x, k)
    BY <1>0, <1>3, <1>4 DEF Outstanding, SendInv, Vacant
  <1>6. StillOwned'
    <2> SUFFICES ASSUME NEW x \in Batches, call'[x].pc = "recording", NEW k \in owned[x]
                 PROVE  Claims(x, k)'
      BY <1>0 DEF StillOwned
    <2>1. k \in Keys /\ Claims(x, k)
      BY <1>0, KeysOfOwned DEF SendInv, StillOwned
    <2>2. k \notin S
      BY <2>1, <1>0 DEF ClaimsExclude, NoOpenClaim, Claims
    <2> QED BY <2>1, <2>2, <1>2
  <1>7. Blocked'
    BY <1>1, <1>5 DEF SendInv, Blocked, Free, Released
  <1>8. AtMostOne'
    BY <1>5 DEF SendInv, AtMostOne
  <1>9. Spoken'
    <2> SUFFICES ASSUME NEW x \in Batches, NEW c \in Batches, NEW k \in Keys,
                        Speaks(x, k)', Outstanding(c, k)'
                 PROVE  c = x
      BY DEF Spoken
    <2>1. CASE k \in S
      BY <2>1, <1>2, <1>5 DEF Speaks
    <2>2. CASE k \notin S
      <3>1. x # b
        BY <2>2, <1>0, <1>2 DEF Speaks, Tracked, Unborn
      <3> QED BY <3>1, <2>2, <1>4, <1>5 DEF SendInv, Spoken
    <2> QED BY <2>1, <2>2
  <1>10. Vacant'
    <2> SUFFICES ASSUME NEW x \in Batches, NEW c \in Batches, NEW k \in Keys,
                        Claiming(x, k)', Outstanding(c, k)'
                 PROVE  FALSE
      BY DEF Vacant
    <2>1. x # b /\ Claiming(x, k)
      BY <1>0, <1>4 DEF Claiming
    <2>2. k \notin S
      BY <2>1, <1>0 DEF ClaimsExclude, ClaimsApart
    <2> QED BY <2>1, <2>2, <1>5 DEF SendInv, Vacant
  <1> QED BY <1>3, <1>4, <1>6, <1>7, <1>8, <1>9, <1>10 DEF SendInv, AllTracked

\* record_outcome reads what is still the batch's own.
LEMMA RecordReadSends ==
  ASSUME TypeOK, SendInv, NEW b \in Batches, RecordRead(b)
  PROVE  SendInv'
  <1>0. /\ Tracked(b)
        /\ call[b] \in Call
        /\ call[b].pc = "answered"
        /\ UNCHANGED <<wire, landed, excused, latest>>
        /\ \A x \in Batches, k \in Keys : Claims(x, k)' <=> Claims(x, k)
    BY DEF SendInv, AllTracked, TypeOK, CallType, RecordRead, Claims
  <1>1. \A x \in Batches \ {b} : call'[x] = call[x] /\ owned'[x] = owned[x]
    BY DEF TypeOK, CallType, RecordRead, Over
  <1>2. /\ Tracked(b)'
        /\ \A k \in Keys : MayLand(b, k)' => MayLand(b, k)
        /\ call'[b].pc \in {"recording", "over"}
        /\ call'[b].pc = "recording" => \A k \in owned'[b] : Claims(b, k)
    <2>1. CASE /\ owned' = [owned EXCEPT ![b] = Owned(b, {"claim"})]
               /\ call' = [call EXCEPT ![b].pc = "recording"]
      <3>1. call'[b] = [call[b] EXCEPT !.pc = "recording"] /\ owned'[b] = Owned(b, {"claim"})
        BY <2>1 DEF TypeOK, CallType
      <3>2. \A k \in owned'[b] : Claims(b, k)
        BY <3>1 DEF Owned, Claims
      <3> QED BY <3>1, <3>2, <1>0 DEF Tracked, Judged, MayLand, Call
    <2>2. CASE Over(b) /\ UNCHANGED owned
      <3>1. call'[b].pc = "over" /\ (b \in wire => call'[b].keys = call[b].keys)
        BY <2>2 DEF Over, NoCall, TypeOK, CallType
      <3> QED BY <3>1, <1>0 DEF Tracked, Judged, MayLand
    <2> QED BY <2>1, <2>2 DEF RecordRead
  <1>3. \A x \in Batches \ {b} : /\ Tracked(x)'
                                 /\ \A k \in Keys : /\ MayLand(x, k)' <=> MayLand(x, k)
                                                    /\ Speaks(x, k)' => Speaks(x, k)
                                                    /\ Claiming(x, k)' <=> Claiming(x, k)
    BY <1>0, <1>1, TrackedKept DEF SendInv, AllTracked
  <1>4. AllTracked' /\ StillOwned'
    <2>1. \A x \in Batches : owned'[x] \subseteq Keys
      BY RecordReadTyped DEF TypeOK
    <2> QED BY <2>1, <1>0, <1>1, <1>2, <1>3 DEF SendInv, AllTracked, StillOwned
  <1>5. \A k \in Keys : ~Claiming(b, k)' /\ (Speaks(b, k)' => Speaks(b, k))
    BY <1>0, <1>2 DEF Claiming, Speaks, Alive
  <1>6. \A x \in Batches, k \in Keys : Outstanding(x, k)' => Outstanding(x, k)
    BY <1>0, <1>2, <1>3 DEF Outstanding
  <1>7. Quiet
    BY <1>0, <1>3, <1>5, <1>6 DEF Quiet, Free
  <1> QED BY <1>4, <1>7, QuietKeeps DEF SendInv

\* What it inserts is about recipients that are still its own, so a failure releases
\* nobody whom another batch has reached.
LEMMA RecordInsertSends ==
  ASSUME TypeOK, SendInv, NEW b \in Batches, RecordInsert(b)
  PROVE  SendInv'
  <1>0. /\ Tracked(b)
        /\ call[b] \in Call
        /\ call[b].pc = "recording"
        /\ UNCHANGED <<wire, landed, excused>>
        /\ \A k \in Keys : latest'[k] = IF k \in owned[b]
                                        THEN [kind |-> call[b].result, batch |-> b] ELSE latest[k]
        /\ \A x \in Batches \ {b} : call'[x] = call[x] /\ owned'[x] = owned[x]
        /\ call'[b].pc = "over" /\ (b \in wire => call'[b].keys = call[b].keys)
    BY DEF SendInv, AllTracked, TypeOK, CallType, RecordInsert, Append, Over, NoCall
  <1>1. \A x \in Batches, k \in Keys : Claims(x, k)' <=> k \notin owned[b] /\ Claims(x, k)
    BY <1>0 DEF Claims, Call, Results
  <1>2. Tracked(b)' /\ \A k \in Keys : MayLand(b, k)' => MayLand(b, k)
    BY <1>0, <1>1 DEF Tracked, Judged, MayLand
  <1>3. \A x \in Batches \ {b} : /\ Tracked(x)'
                                 /\ \A k \in Keys : /\ MayLand(x, k)' <=> MayLand(x, k)
                                                    /\ Speaks(x, k)' => Speaks(x, k)
                                                    /\ Claiming(x, k)' <=> Claiming(x, k)
    BY <1>0, <1>1, TrackedKept DEF SendInv, AllTracked
  <1>4. StillOwned'
    <2> SUFFICES ASSUME NEW x \in Batches, call'[x].pc = "recording", NEW k \in owned'[x]
                 PROVE  Claims(x, k)'
      BY DEF StillOwned
    <2>1. x # b /\ k \in owned[x] /\ k \in Keys /\ Claims(x, k)
      BY <1>0, KeysOfOwned DEF SendInv, StillOwned
    <2>2. k \notin owned[b]
      BY <2>1, <1>0 DEF SendInv, StillOwned, Claims
    <2> QED BY <2>1, <2>2, <1>1
  <1>5. \A x \in Batches, k \in Keys : Outstanding(x, k)' => Outstanding(x, k)
    BY <1>0, <1>2, <1>3 DEF Outstanding
  <1>6. ASSUME NEW x \in Batches, NEW k \in Keys, Outstanding(x, k)', ~Free(k)
        PROVE  ~Free(k)'
    <2>1. CASE k \notin owned[b]
      BY <2>1, <1>0, <1>6 DEF Free
    <2>2. CASE k \in owned[b]
      <3>1. Speaks(b, k) /\ Outstanding(x, k)
        BY <2>2, <1>0, <1>5, <1>6 DEF SendInv, StillOwned, Speaks, Alive
      <3>2. x = b
        BY <3>1 DEF SendInv, Spoken
      <3>3. call[b].result \in {"dispatched", "unknown"}
        BY <3>1, <3>2, <1>0 DEF Tracked, Judged, Outstanding, Call, Results
      <3> QED BY <2>2, <3>3, <1>0 DEF Free, Released
    <2> QED BY <2>1, <2>2
  <1>7. Quiet
    BY <1>0, <1>3, <1>5, <1>6 DEF Quiet, Speaks, Alive, Claiming
  <1> QED BY <1>2, <1>3, <1>4, <1>7, QuietKeeps DEF SendInv, AllTracked

\* The operator's word: what it releases is disowned.
LEMMA ResolveInsertSends ==
  ASSUME TypeOK, SendInv, ResolvesApart, NEW a \in Answers, ResolveInsert(a)
  PROVE  SendInv'
  <1> DEFINE x == answer[a]
  <1>0. /\ UNCHANGED <<call, wire, landed, owned>>
        /\ x.others \subseteq Keys
        /\ Excuse(x.others)
        /\ \A k \in Keys : latest'[k] = IF k \in x.sent THEN [kind |-> "sent", batch |-> x.batch]
                              ELSE IF k \in x.others THEN [kind |-> "not_sent", batch |-> x.batch]
                              ELSE latest[k]
    BY DEF ResolveInsert, TypeOK, Resolution
  <1>1. \A c \in Batches, k \in Keys :
            Claims(c, k)' <=> k \notin x.sent \cup x.others /\ Claims(c, k)
    BY <1>0 DEF Claims
  <1>2. \A c \in Batches : /\ Tracked(c)'
                           /\ \A k \in Keys : /\ MayLand(c, k)' <=> MayLand(c, k)
                                              /\ Speaks(c, k)' => Speaks(c, k)
                                              /\ Claiming(c, k)' <=> Claiming(c, k)
    BY <1>0, <1>1, TrackedKept DEF SendInv, AllTracked
  <1>3. StillOwned'
    <2> SUFFICES ASSUME NEW c \in Batches, call[c].pc = "recording", NEW k \in owned[c]
                 PROVE  Claims(c, k)'
      BY <1>0 DEF StillOwned
    <2>1. k \in Keys /\ Claims(c, k)
      BY KeysOfOwned DEF SendInv, StillOwned
    <2>2. k \notin x.sent \cup x.others
      BY DEF ResolvesApart
    <2> QED BY <2>1, <2>2, <1>1
  <1>4. ASSUME NEW c \in Batches, NEW k \in Keys, Outstanding(c, k)'
        PROVE  Outstanding(c, k) /\ k \notin x.others
    <2>1. MayLand(c, k) /\ <<c, k>> \notin excused
      BY <1>0, <1>2, <1>4 DEF Outstanding, Excuse
    <2>2. call[c].pc \notin {"idle", "claiming"}
      BY <2>1 DEF SendInv, AllTracked, Tracked, Unborn, MayLand
    <2> QED BY <2>1, <2>2, <1>0, <1>4 DEF Outstanding, Excuse
  <1>5. Quiet
    <2>1. ASSUME NEW c \in Batches, NEW k \in Keys, Outstanding(c, k)', ~Free(k)
          PROVE  ~Free(k)'
      BY <2>1, <1>0, <1>4 DEF Free, Released
    <2> QED BY <2>1, <1>2, <1>4 DEF Quiet
  <1> QED BY <1>2, <1>3, <1>5, QuietKeeps DEF SendInv, AllTracked

-----------------------------------------------------------------------------
LEMMA InitSends == Init => SendInv
  <1> SUFFICES ASSUME Init
               PROVE  SendInv
    OBVIOUS
  <1>1. /\ \A b \in Batches : call[b] = NoCall
        /\ wire = {} /\ landed = {}
        /\ \A b \in Batches, k \in Keys : ~Claims(b, k)
    BY DEF Init, CallInit, Claims
  <1>2. \A b \in Batches, k \in Keys : ~MayLand(b, k) /\ ~Claiming(b, k)
    BY <1>1 DEF MayLand, Claiming, NoCall
  <1>3. AllTracked /\ StillOwned
    BY <1>1, <1>2 DEF AllTracked, Tracked, Unborn, Judged, StillOwned, NoCall
  <1> QED BY <1>2, <1>3 DEF SendInv, Blocked, AtMostOne, Spoken, Vacant, Outstanding

LEMMA NextSends ==
  TypeOK /\ ClaimsExclude /\ SendInv /\ [Next]_vars /\ [ResolvesApart]_vars => SendInv'
  <1> SUFFICES ASSUME TypeOK, ClaimsExclude, SendInv, [Next]_vars, [ResolvesApart]_vars
               PROVE  SendInv'
    OBVIOUS
  <1>1. CASE CallStep /\ UNCHANGED pgVars
    BY <1>1, CallStepSends
  <1>2. CASE \E b \in Batches, s \in Scopes : \E S \in SUBSET InScope(s) : ClaimRead(b, s, S)
    BY <1>2, ClaimReadSends
  <1>3. CASE \E b \in Batches : ClaimInsert(b) \/ RecordRead(b) \/ RecordInsert(b)
    BY <1>3, ClaimInsertSends, RecordReadSends, RecordInsertSends
  <1>4. CASE UNCHANGED <<callVars, latest, owned>>
    BY <1>4 DEF callVars, SendInv, AllTracked, StillOwned, Tracked, Unborn, Judged, MayLand, Outstanding,
                Alive, Free, Claims, Claiming, Speaks, Blocked, AtMostOne, Spoken, Vacant
  <1>5. CASE UNCHANGED vars
    BY <1>4, <1>5 DEF vars, pgVars
  <1>6. ASSUME NEW a \in Answers, ResolveInsert(a), ~UNCHANGED vars
        PROVE  SendInv'
    BY <1>6, ResolveInsertSends
  <1> QED BY <1>1, <1>2, <1>3, <1>4, <1>5, <1>6 DEF Next, ResolveRead

LEMMA SendInvIsSafe == SendInv => NoDoubleSend
  BY DEF SendInv, AtMostOne, Outstanding, MayLand, NoDoubleSend

\* In every behaviour in which no operator's answer is inserted between the two statements
\* of a record_outcome about the same recipient, nobody is reached by two batches that
\* nobody disowned: that race, which pg_race shows, is the only one the table store has.
THEOREM SendsOnceButForOneRace == Spec /\ [][ResolvesApart]_vars => []NoDoubleSend
  <1>1. Init => SendInv BY InitSends
  <1>2. TypeOK /\ ClaimsExclude /\ SendInv /\ [Next]_vars /\ [ResolvesApart]_vars => SendInv'
    BY NextSends
  <1>3. SendInv => NoDoubleSend BY SendInvIsSafe
  <1> QED BY <1>1, <1>2, <1>3, TypeCorrect, ClaimsAreExclusive, PTL DEF Spec
=============================================================================
