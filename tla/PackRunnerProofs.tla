-------------------------- MODULE PackRunnerProofs --------------------------
(***************************************************************************)
(* Theorems about PackRunner for any graph and any number of invocations   *)
(* that overlap in any way. What the file promises holds until an          *)
(* invocation writes a copy that is older than the file (lost).            *)
(***************************************************************************)
EXTENDS PackRunner, TLAPS

Kinds == {"none", "resume", "from", "gate"}
PCs   == {"idle", "decide", "dispatch", "flip", "lock", "loop", "batch"}
Said  == {"nothing", "ok"}
Inv   == [kind : Kinds, pc : PCs, mem : Manifests, gated : Nodes \cup {None},
          batch : SUBSET Nodes, said : Said]

TInv ==
    /\ TypeOK
    /\ \A p \in Invocations :
           inv[p].pc \in {"decide", "dispatch"} => inv[p].gated \in Nodes

-----------------------------------------------------------------------------
(* What an invocation's copy is good for.                                  *)

Settled == {"ok", "skipped", "running", "awaiting"}

\* A node that ran, or is running, is not behind a dependency, and a gate that passed was
\* approved.
Good(m) ==
    /\ \A n \in Nodes \ Effects :
           m[n] \in Settled => n \notin behind /\ \A d \in DependsOn[n] : m[d] \in Complete
    /\ \A g \in Gates : m[g] \in Complete => g \in blessed

\* The copy claims no more than the file, and forgets nothing but what is re-entered.
Agrees(p) ==
    /\ inv[p].pc \in {"lock", "loop", "batch"} =>
           \A n \in Nodes : inv[p].mem[n] \in Complete => Readable /\ file[n] \in Complete
    /\ inv[p].pc = "batch" => file = inv[p].mem
    /\ Readable /\ inv[p].kind # "from" =>
           \A n \in Nodes : file[n] \in Complete => inv[p].mem[n] \in Complete

\* Nobody has written since the copy was taken.
Current(p) == HasCopy(p) /\ p \notin stale

Proper(p) ==
    /\ inv[p].pc \in {"loop", "batch"} <=> lock = p
    /\ inv[p].pc \in {"decide", "dispatch", "flip"} => inv[p].kind = "gate"
    /\ inv[p].pc \in {"decide", "dispatch"} => inv[p].mem[inv[p].gated] = "awaiting"
    /\ inv[p].pc = "dispatch" /\ p \notin stale => {inv[p].gated} \cap Gates \subseteq blessed
    /\ Current(p) => Agrees(p) /\ (~lost => Good(inv[p].mem))

IInv ==
    /\ TInv
    /\ Readable /\ ~lost => Good(file)
    /\ \A p \in Invocations : Proper(p)
-----------------------------------------------------------------------------
(* The state keeps its type.                                               *)

LEMMA TypeIsInv == TypeOK => inv \in [Invocations -> Inv]
  BY DEF TypeOK, Inv, Kinds, PCs, Said

Marks == stale \subseteq Invocations /\ lost \in BOOLEAN

LEMMA NoneIsNoManifest == None \notin Manifests /\ Torn \notin Manifests
  BY OthersAreNone DEF Manifests, Statuses

\* A step of one invocation, which replaces its record.
LEMMA OneMoves ==
    ASSUME TInv, NEW p \in Invocations, NEW i \in Inv, inv' = [inv EXCEPT ![p] = i],
           i.pc \in {"decide", "dispatch"} => i.gated \in Nodes,
           file' \in Manifests \cup {None, Torn}, lock' \in Invocations \cup {None},
           behind' \subseteq Nodes, blessed' \subseteq Gates, Marks'
    PROVE  TInv'
<1>1. inv' \in [Invocations -> Inv]
  BY TypeIsInv DEF TInv
<1>2. TypeOK'
  BY <1>1 DEF TypeOK, Marks, Inv, Kinds, PCs, Said
<1>3. \A q \in Invocations : inv'[q] = IF q = p THEN i ELSE inv[q]
  BY TypeIsInv DEF TInv
<1> QED BY <1>2, <1>3 DEF TInv

\* What an invocation leaves behind when it ends.
LEMMA IdleIsInv ==
    ASSUME NEW said \in Said
    PROVE  Idle(said) \in Inv /\ Idle(said).pc = "idle"
  BY NodeKinds DEF Idle, Inv, Kinds, PCs, Manifests, Statuses, Fresh

LEMMA EndType ==
    ASSUME TInv, NEW p \in Invocations, NEW said \in Said, End(p, said),
           file' \in Manifests \cup {None, Torn}, lock' \in Invocations \cup {None},
           behind' \subseteq Nodes, blessed' \subseteq Gates, Marks'
    PROVE  TInv'
<1> DEFINE i == Idle(said)
<1>1. i \in Inv /\ i.pc = "idle"
  BY IdleIsInv
<1>2. inv' = [inv EXCEPT ![p] = i]
  BY DEF End
<1> HIDE DEF i
<1> QED BY <1>1, <1>2, OneMoves

\* The record of an invocation, field by field.
LEMMA Fields ==
    ASSUME TInv, NEW p \in Invocations
    PROVE  /\ inv[p] = [kind |-> inv[p].kind, pc |-> inv[p].pc, mem |-> inv[p].mem,
                        gated |-> inv[p].gated, batch |-> inv[p].batch, said |-> inv[p].said]
           /\ inv[p].kind \in Kinds /\ inv[p].pc \in PCs /\ inv[p].mem \in Manifests
           /\ inv[p].gated \in Nodes \cup {None} /\ inv[p].batch \in SUBSET Nodes
           /\ inv[p].said \in Said
<1>1. inv[p] \in Inv
  BY TypeIsInv DEF TInv
<1> QED BY <1>1 DEF Inv, TInv

\* What a step leaves alone keeps its type.
LEMMA RestKept ==
    ASSUME TInv
    PROVE  /\ file' = file => file' \in Manifests \cup {None, Torn}
           /\ lock' = lock => lock' \in Invocations \cup {None}
           /\ behind' = behind => behind' \subseteq Nodes
           /\ blessed' = blessed => blessed' \subseteq Gates
  BY DEF TInv, TypeOK

\* Every step marks copies of invocations, and only those.
LEMMA MarksStep ==
    ASSUME TInv, Next
    PROVE  Marks'
<1>1. stale \subseteq Invocations /\ lost \in BOOLEAN /\ \A p : Outdated(p) \subseteq Invocations
  BY DEF TInv, TypeOK, Outdated
<1>2. ASSUME NEW p \in Invocations, NEW n \in Nodes,
             StartFromNode(p, n) \/ StartDecision(p, n) \/ OverBudget(p, n) \/ EndTurn(p, n)
      PROVE  Marks'
  BY <1>1, <1>2 DEF Marks, StartFromNode, StartDecision, OverBudget, EndTurn, Writes
<1>3. ASSUME NEW p \in Invocations,
             StartRun(p) \/ Reject(p) \/ Approve(p) \/ DispatchSuccessors(p) \/ WriteDecision(p)
      PROVE  Marks'
  BY <1>1, <1>3 DEF Marks, StartRun, Reject, Approve, DispatchSuccessors, WriteDecision, Writes
<1>4. ASSUME NEW p \in Invocations,
             Acquire(p) \/ NothingToRun(p) \/ StartBatch(p) \/ EndBatch(p) \/ Crash(p)
      PROVE  Marks'
  BY <1>1, <1>4 DEF Marks, Acquire, NothingToRun, StartBatch, EndBatch, Return, Crash, Writes
<1> QED BY <1>2, <1>3, <1>4 DEF Next, Step

LEMMA StartType ==
    ASSUME TInv, NEW p \in Invocations, NEW n \in Nodes,
           StartRun(p) \/ StartFromNode(p, n) \/ StartDecision(p, n),
           Marks'
    PROVE  TInv'
<1>1. UNCHANGED <<file, lock, behind, blessed>>
  BY DEF StartRun, StartFromNode, StartDecision
<1>2. CASE StartRun(p)
  <2> DEFINE x == Begun("resume", "lock", Fresh, None)
  <2>1. inv' = [inv EXCEPT ![p] = x]
    BY <1>2 DEF StartRun
  <2>2. x \in Inv /\ x.pc = "lock"
    BY DEF Begun, Inv, Kinds, PCs, Said, Fresh, Manifests, Statuses
  <2> HIDE DEF x
  <2> QED BY <1>1, <2>1, <2>2, OneMoves, RestKept
<1>3. CASE StartFromNode(p, n)
  <2> DEFINE m == ResetFromNode(file, n)
             x == Begun("from", "lock", m, None)
  <2>1. inv' = [inv EXCEPT ![p] = x]
    BY <1>3 DEF StartFromNode
  <2>2. m \in Manifests
    BY <1>3 DEF StartFromNode, TInv, Readable, ResetFromNode, Manifests, Statuses
  <2> HIDE DEF m
  <2>3. x \in Inv /\ x.pc = "lock"
    BY <2>2 DEF Begun, Inv, Kinds, PCs, Said
  <2> HIDE DEF x
  <2> QED BY <1>1, <2>1, <2>3, OneMoves, RestKept
<1>4. CASE StartDecision(p, n)
  <2> DEFINE x == Begun("gate", "decide", file, n)
  <2>1. inv' = [inv EXCEPT ![p] = x]
    BY <1>4 DEF StartDecision
  <2>2. file \in Manifests
    BY <1>4 DEF StartDecision, TInv, Readable
  <2>3. x \in Inv /\ x.gated = n
    BY <2>2 DEF Begun, Inv, Kinds, PCs, Said
  <2> HIDE DEF x
  <2> QED BY <1>1, <2>1, <2>3, OneMoves, RestKept
<1> QED BY <1>2, <1>3, <1>4

\* Only the program counter moves.
LEMMA GotoType ==
    ASSUME TInv, NEW p \in Invocations, NEW pc \in PCs \ {"decide", "dispatch"}, Goto(p, pc),
           file' \in Manifests \cup {None, Torn}, lock' \in Invocations \cup {None},
           behind' \subseteq Nodes, blessed' \subseteq Gates, Marks'
    PROVE  TInv'
<1> DEFINE x == [inv[p] EXCEPT !.pc = pc]
<1>1. inv' = [inv EXCEPT ![p] = x]
  BY DEF Goto
<1>2. x \in Inv /\ x.mem = inv[p].mem /\ x.pc = pc
  BY TypeIsInv DEF TInv, Inv
<1> HIDE DEF x
<1> QED BY <1>1, <1>2, Fields, OneMoves

LEMMA DecisionType ==
    ASSUME TInv, NEW p \in Invocations,
           Reject(p) \/ Approve(p) \/ DispatchSuccessors(p) \/ WriteDecision(p),
           Marks'
    PROVE  TInv'
<1>1. CASE Reject(p) \/ (Approve(p) /\ End(p, "nothing") /\ UNCHANGED blessed)
  BY <1>1, EndType, RestKept DEF Reject, Approve, Said
<1>2. CASE Approve(p) /\ Goto(p, "dispatch") /\ blessed' = blessed \cup ({inv[p].gated} \cap Gates)
  <2> DEFINE x == [inv[p] EXCEPT !.pc = "dispatch"]
  <2>1. inv[p].gated \in Nodes /\ UNCHANGED <<file, lock, behind>>
    BY <1>2 DEF Approve, TInv
  <2>2. inv' = [inv EXCEPT ![p] = x]
    BY <1>2 DEF Goto
  <2>3. x \in Inv /\ x.mem = inv[p].mem /\ x.gated = inv[p].gated
    BY TypeIsInv DEF TInv, Inv, PCs
  <2>4. blessed' \subseteq Gates
    BY <1>2 DEF TInv, TypeOK
  <2> HIDE DEF x
  <2> QED BY <2>1, <2>2, <2>3, <2>4, Fields, OneMoves, RestKept
<1>3. CASE DispatchSuccessors(p)
  <2> DEFINE done == {inv[p].gated} \cup (Effects \cap Children({inv[p].gated}))
             m == [n \in Nodes |-> IF n \in done THEN "ok" ELSE inv[p].mem[n]]
             x == [inv[p] EXCEPT !.pc = "flip", !.mem = m]
  <2>1. UNCHANGED <<file, lock, behind, blessed>>
    BY <1>3 DEF DispatchSuccessors
  <2>2. CASE End(p, "nothing")
    BY <2>1, <2>2, EndType, RestKept DEF Said
  <2>3. CASE inv' = [inv EXCEPT ![p].pc = "flip", ![p].mem = m]
    <3>1. m \in Manifests
      BY Fields DEF Manifests, Statuses
    <3> HIDE DEF m
    <3>2. inv' = [inv EXCEPT ![p] = x]
      BY <2>3, TypeIsInv DEF TInv, Inv
    <3>3. x \in Inv /\ x.pc = "flip"
      BY <3>1, TypeIsInv DEF TInv, Inv, PCs
    <3> HIDE DEF x
    <3> QED BY <2>1, <3>2, <3>3, OneMoves, RestKept
  <2> QED BY <1>3, <2>2, <2>3 DEF DispatchSuccessors
<1>4. CASE WriteDecision(p)
  BY <1>4, Fields, GotoType, RestKept DEF WriteDecision, PCs, Readable
<1> QED BY <1>1, <1>2, <1>3, <1>4 DEF Approve

LEMMA RunnerType ==
    ASSUME TInv, NEW p \in Invocations,
           Acquire(p) \/ NothingToRun(p) \/ StartBatch(p) \/ EndBatch(p),
           Marks'
    PROVE  TInv'
<1>1. CASE Acquire(p)
  <2> DEFINE m == IF inv[p].kind = "resume" THEN LoadOrCreate ELSE inv[p].mem
             x == [inv[p] EXCEPT !.pc = "loop", !.mem = m]
  <2>1. m \in Manifests
    <3>1. Fresh \in Manifests
      BY DEF Fresh, Manifests, Statuses
    <3> QED BY <3>1, Fields DEF LoadOrCreate, Readable, TInv
  <2>2. inv' = [inv EXCEPT ![p].pc = "loop", ![p].mem = m]
    BY <1>1 DEF Acquire
  <2> HIDE DEF m
  <2>3. inv' = [inv EXCEPT ![p] = x]
    BY <2>2, TypeIsInv DEF TInv, Inv
  <2>4. x \in Inv /\ x.pc = "loop"
    BY <2>1, TypeIsInv DEF TInv, Inv, PCs
  <2>5. lock' \in Invocations \cup {None} /\ UNCHANGED <<file, behind, blessed>>
    BY <1>1 DEF Acquire
  <2> HIDE DEF x
  <2> QED BY <2>3, <2>4, <2>5, OneMoves, RestKept
<1>2. ASSUME Return(p), UNCHANGED <<file, behind, blessed>> PROVE TInv'
  <2>1. (IF TerminalStatus(inv[p].mem) = "ok" THEN "ok" ELSE "nothing") \in Said
    BY DEF Said
  <2> QED BY <1>2, <2>1, EndType, RestKept DEF Return
<1>3. CASE NothingToRun(p)
  BY <1>2, <1>3 DEF NothingToRun
<1>4. CASE StartBatch(p)
  <2> DEFINE batch  == Frontier(inv[p].mem)
             marked == [n \in Nodes |-> IF n \in batch THEN "running" ELSE inv[p].mem[n]]
             x == [inv[p] EXCEPT !.pc = "batch", !.batch = batch, !.mem = marked]
  <2>1. batch \in SUBSET Nodes
    BY DEF Frontier
  <2>2. /\ inv' = [inv EXCEPT ![p].pc = "batch", ![p].batch = batch, ![p].mem = marked]
        /\ file' = marked /\ lock' = lock
        /\ behind' = (behind \ batch) \cup (Children(batch) \ Effects)
        /\ blessed' = blessed \ batch
    BY <1>4 DEF StartBatch
  <2>3. marked \in Manifests
    BY Fields DEF Manifests, Statuses
  <2> HIDE DEF batch, marked
  <2>4. inv' = [inv EXCEPT ![p] = x]
    BY <2>2, TypeIsInv DEF TInv, Inv
  <2>5. x \in Inv /\ x.pc = "batch"
    BY <2>1, <2>3, TypeIsInv DEF TInv, Inv, PCs
  <2>6. behind' \subseteq Nodes /\ blessed' \subseteq Gates
    BY <2>2 DEF TInv, TypeOK, Children
  <2> HIDE DEF x
  <2> QED BY <2>2, <2>3, <2>4, <2>5, <2>6, OneMoves, RestKept
<1>5. CASE EndBatch(p) /\ Return(p)
  BY <1>2, <1>5 DEF EndBatch
<1>6. CASE EndBatch(p) /\ inv' = [inv EXCEPT ![p].pc = "loop", ![p].batch = {}] /\ lock' = lock
  <2> DEFINE x == [inv[p] EXCEPT !.pc = "loop", !.batch = {}]
  <2>1. inv' = [inv EXCEPT ![p] = x]
    BY <1>6, TypeIsInv DEF TInv, Inv
  <2>2. x \in Inv /\ x.mem = inv[p].mem /\ x.pc = "loop"
    BY TypeIsInv DEF TInv, Inv, PCs
  <2> HIDE DEF x
  <2> QED BY <1>6, <2>1, <2>2, Fields, OneMoves, RestKept DEF EndBatch
<1> QED BY <1>1, <1>3, <1>4, <1>5, <1>6 DEF EndBatch

LEMMA WriteType ==
    ASSUME TInv, NEW p \in Invocations, NEW n \in Nodes, OverBudget(p, n) \/ EndTurn(p, n), Marks'
    PROVE  TInv'
<1>1. CASE OverBudget(p, n)
  <2>1. file' \in Manifests
    BY <1>1, Fields DEF OverBudget, Manifests, Statuses
  <2> QED BY <1>1, <2>1, EndType, RestKept DEF OverBudget, Said
<1>2. CASE EndTurn(p, n)
  <2>1. PICK outcome \in Outcomes(n) :
            /\ file' = [inv[p].mem EXCEPT ![n] = outcome]
            /\ inv' = [inv EXCEPT ![p].mem = [inv[p].mem EXCEPT ![n] = outcome]]
    BY <1>2 DEF EndTurn
  <2> DEFINE m == [inv[p].mem EXCEPT ![n] = outcome]
             x == [inv[p] EXCEPT !.mem = m]
  <2>2. m \in Manifests
    BY Fields DEF Outcomes, Manifests, Statuses
  <2>3. file' = m /\ inv' = [inv EXCEPT ![p].mem = m]
    BY <2>1
  <2> HIDE DEF m
  <2>4. inv' = [inv EXCEPT ![p] = x]
    BY <2>3, TypeIsInv DEF TInv, Inv
  <2>5. x \in Inv /\ x.mem = m /\ x.pc = "batch"
    BY <1>2, <2>2, TypeIsInv DEF TInv, Inv, EndTurn
  <2> HIDE DEF x
  <2> QED BY <1>2, <2>2, <2>3, <2>4, <2>5, OneMoves, RestKept DEF EndTurn
<1> QED BY <1>1, <1>2

LEMMA CrashType ==
    ASSUME TInv, NEW p \in Invocations, Crash(p), Marks'
    PROVE  TInv'
<1>1. file' = file \/ (file' = Torn /\ ~Readable')
  BY NoneIsNoManifest DEF Crash, Readable, Manifests
<1>2. file' \in Manifests \cup {None, Torn}
  BY <1>1, RestKept
<1>3. lock' \in Invocations \cup {None}
  BY DEF Crash, TInv, TypeOK
<1> QED BY <1>2, <1>3, EndType, RestKept DEF Crash, Said

LEMMA InitType ==
    ASSUME Init
    PROVE  TInv
<1>1. inv \in [Invocations -> Inv]
  BY IdleIsInv DEF Init, Said
<1>3. \A p \in Invocations : inv[p].pc = "idle"
  BY IdleIsInv DEF Init, Said
<1>4. TypeOK
  BY <1>1 DEF Init, TypeOK, Inv, Kinds, PCs, Said
<1> QED BY <1>3, <1>4 DEF TInv

LEMMA TypeStep ==
    ASSUME TInv, [Next]_vars
    PROVE  TInv'
<1>1. CASE UNCHANGED vars
  BY <1>1 DEF vars, TInv, TypeOK
<1>2. SUFFICES ASSUME Next PROVE TInv'
  BY <1>1
<1>3. Marks'
  BY <1>2, MarksStep
<1>4. ASSUME NEW p \in Invocations, StartRun(p) PROVE TInv'
  BY <1>3, <1>4, GraphIsADag, StartType
<1>5. ASSUME NEW p \in Invocations, NEW n \in Nodes, StartFromNode(p, n) \/ StartDecision(p, n)
      PROVE  TInv'
  BY <1>3, <1>5, StartType
<1>6. ASSUME NEW p \in Invocations, Step(p) \/ Reject(p) \/ Crash(p) PROVE TInv'
  BY <1>3, <1>6, DecisionType, RunnerType, WriteType, CrashType DEF Step
<1> QED BY <1>2, <1>4, <1>5, <1>6 DEF Next

LEMMA TypeInvariant == Spec => []TInv
<1>1. Init => TInv
  BY InitType
<1>2. TInv /\ [Next]_vars => TInv'
  BY TypeStep
<1> QED BY <1>1, <1>2, PTL DEF Spec

-----------------------------------------------------------------------------
(* Who writes does so alone.                                               *)

\* Whoever writes outdates every other copy.
LEMMA Others ==
    ASSUME IInv, NEW p \in Invocations, lock = p \/ inv[p].pc = "flip"
    PROVE  \A q \in Invocations \ {p} : HasCopy(q) => q \in Outdated(p)
<1> SUFFICES ASSUME NEW q \in Invocations \ {p}, HasCopy(q), inv[q].kind = "resume", lock = p
             PROVE  FALSE
  BY DEF Outdated, IInv, Proper
<1>1. inv[q].pc \in PCs
  BY Fields DEF IInv
<1>2. lock # q
  OBVIOUS
<1>3. inv[q].pc \notin {"loop", "batch", "decide", "dispatch", "flip", "idle", "lock"}
  BY <1>2 DEF IInv, Proper, HasCopy
<1> QED BY <1>1, <1>3 DEF PCs

\* A step of one invocation spoils no other: it leaves the file alone or outdates the
\* others' copies.
LEMMA OneProper ==
    ASSUME IInv, TInv', NEW p \in Invocations,
           \A q \in Invocations \ {p} : inv'[q] = inv[q] /\ (lock' = q <=> lock = q),
           \A q \in Invocations \ {p} : q \in stale => q \in stale',
           lost => lost',
           \/ file' = file /\ behind' = behind /\ blessed \subseteq blessed'
           \/ \A q \in Invocations \ {p} : HasCopy(q) => q \in stale',
           (Readable /\ ~lost => Good(file))',
           Proper(p)'
    PROVE  IInv'
<1>1. ASSUME NEW q \in Invocations \ {p} PROVE Proper(q)'
  <2>1. /\ inv'[q] = inv[q] /\ (lock' = q <=> lock = q) /\ Proper(q)
        /\ (q \in stale => q \in stale') /\ (lost => lost')
    BY DEF IInv
  <2>2. CASE file' = file /\ behind' = behind /\ blessed \subseteq blessed'
    BY <2>1, <2>2 DEF Proper, Current, HasCopy, Good, Agrees, Readable
  <2>3. CASE HasCopy(q) => q \in stale'
    <3>1. inv[q].pc = "dispatch" => HasCopy(q)
      BY DEF HasCopy
    <3> QED BY <2>1, <2>3, <3>1 DEF Proper, Current, HasCopy
  <2> QED BY <2>2, <2>3
<1> QED BY <1>1 DEF IInv

\* What is left of an invocation that ended.
LEMMA EndedProper ==
    ASSUME IInv, NEW p \in Invocations, NEW said, End(p, said),
           lock' = (IF lock = p THEN None ELSE lock)
    PROVE  /\ inv'[p] = Idle(said) /\ inv'[p].pc = "idle"
           /\ \A q \in Invocations \ {p} : inv'[q] = inv[q] /\ (lock' = q <=> lock = q)
           /\ Proper(p)'
<1>1. /\ inv'[p] = Idle(said) /\ inv'[p].pc = "idle" /\ lock' # p
      /\ \A q \in Invocations \ {p} : inv'[q] = inv[q] /\ (lock' = q <=> lock = q)
  BY OthersAreNone DEF IInv, TInv, TypeOK, End, Idle
<1> QED BY <1>1 DEF Proper, Current, HasCopy

\* The end of an invocation that leaves the file alone.
LEMMA EndProper ==
    ASSUME IInv, TInv', NEW p \in Invocations, NEW said, End(p, said),
           lock' = (IF lock = p THEN None ELSE lock), stale' = stale \ {p},
           UNCHANGED <<file, behind, blessed, lost>>
    PROVE  IInv'
<1>1. (Readable /\ ~lost => Good(file))'
  BY DEF IInv, Good, Readable
<1> QED BY <1>1, EndedProper, OneProper

\* A write: what is written is good, if the copy was not outdated.
LEMMA WriteInv ==
    ASSUME IInv, TInv', NEW p \in Invocations, lock = p \/ inv[p].pc = "flip",
           \A q \in Invocations \ {p} : inv'[q] = inv[q] /\ (lock' = q <=> lock = q),
           stale' \in {stale \cup Outdated(p), (stale \cup Outdated(p)) \ {p}},
           lost' = (lost \/ p \in stale),
           ~lost' => Good(file)',
           Proper(p)'
    PROVE  IInv'
<1>1. \A q \in Invocations \ {p} : (q \in stale \/ HasCopy(q)) => q \in stale'
  BY Others
<1>2. (Readable /\ ~lost => Good(file))' /\ (lost => lost')
  OBVIOUS
<1> QED BY <1>1, <1>2, OneProper

\* A step between two writes of the file.
LEMMA QuietGood ==
    ASSUME IInv, file' = file, behind' = behind, blessed \subseteq blessed', lost' = lost
    PROVE  (Readable /\ ~lost => Good(file))'
  BY DEF IInv, Good, Readable

-----------------------------------------------------------------------------
(* What is reset is closed under the dependencies.                         *)

LEMMA DownstreamClosed ==
    ASSUME NEW n \in Nodes
    PROVE  n \in Downstream[n] /\ Children(Downstream[n]) \subseteq Downstream[n]
<1> DEFINE Closed(E) == n \in E /\ Children(E) \subseteq E
           D == {x \in Nodes : \A E \in SUBSET Nodes : Closed(E) => x \in E}
<1>1. D \in SUBSET Nodes /\ n \in D /\ \A E \in SUBSET Nodes : Closed(E) => D \subseteq E
  OBVIOUS
<1>2. Children(D) \subseteq D
  BY DEF Children
<1>3. \E F \in SUBSET Nodes :
         /\ n \in F /\ Children(F) \subseteq F
         /\ \A E \in SUBSET Nodes : n \in E /\ Children(E) \subseteq E => F \subseteq E
  BY <1>1, <1>2
<1> HIDE DEF D
<1> QED BY <1>3 DEF Downstream

LEMMA ResetIsGood ==
    ASSUME TInv, Readable, NEW n \in Nodes
    PROVE  /\ Good(file) => Good(ResetFromNode(file, n))
           /\ \A x \in Nodes :
                 ResetFromNode(file, n)[x] \in Complete => file[x] \in Complete
<1> DEFINE m == ResetFromNode(file, n)
           D == Downstream[n]
<1>1. \A x \in Nodes : m[x] = IF x \in D THEN "pending" ELSE file[x]
  BY DEF ResetFromNode
<1>2. ASSUME NEW x \in Nodes \ D, NEW d \in DependsOn[x] PROVE d \in Nodes \ D
  BY <1>2, DownstreamClosed, GraphIsADag DEF Children
<1> HIDE DEF D
<1>3. "pending" \notin Settled /\ "pending" \notin Complete
  BY DEF Settled, Complete
<1>4. \A x \in Nodes : m[x] \in Complete \cup Settled => x \notin D /\ m[x] = file[x]
  BY <1>1, <1>3
<1> HIDE DEF m
<1>5. ASSUME Good(file) PROVE Good(m)
  BY <1>1, <1>2, <1>4, <1>5, NodeKinds DEF Good
<1>6. \A x \in Nodes : m[x] \in Complete => file[x] \in Complete
  BY <1>4
<1> QED BY <1>5, <1>6 DEF m

-----------------------------------------------------------------------------
(* The steps.                                                              *)

LEMMA StartInv ==
    ASSUME IInv, TInv', NEW p \in Invocations, NEW n \in Nodes,
           StartRun(p) \/ StartFromNode(p, n) \/ StartDecision(p, n)
    PROVE  IInv'
<1>1. UNCHANGED <<file, lock, behind, blessed, stale, lost>> /\ inv[p].pc = "idle" /\ lock # p
  BY DEF StartRun, StartFromNode, StartDecision, IInv, Proper
<1>2. (Readable /\ ~lost => Good(file))'
  BY <1>1, QuietGood
<1>3. CASE StartRun(p)
  <2>1. /\ inv'[p] = Begun("resume", "lock", Fresh, None)
        /\ \A q \in Invocations \ {p} : inv'[q] = inv[q]
    BY <1>3 DEF StartRun, IInv, TInv, TypeOK
  <2>2. Proper(p)'
    BY <1>1, <2>1 DEF Proper, Current, HasCopy, Begun
  <2> QED BY <1>1, <1>2, <2>1, <2>2, OneProper
<1>4. CASE StartFromNode(p, n)
  <2> DEFINE m == ResetFromNode(file, n)
  <2>1. /\ inv'[p] = Begun("from", "lock", m, None)
        /\ \A q \in Invocations \ {p} : inv'[q] = inv[q]
    BY <1>4 DEF StartFromNode, IInv, TInv, TypeOK
  <2>2. Readable /\ (~lost => Good(m)) /\ \A x \in Nodes : m[x] \in Complete => file[x] \in Complete
    BY <1>4, ResetIsGood DEF StartFromNode, IInv
  <2> HIDE DEF m
  <2>3. Proper(p)'
    BY <1>1, <2>1, <2>2 DEF Proper, Current, Good, Agrees, Readable, Begun
  <2> QED BY <1>1, <1>2, <2>1, <2>3, OneProper
<1>5. CASE StartDecision(p, n)
  <2>1. /\ inv'[p] = Begun("gate", "decide", file, n)
        /\ \A q \in Invocations \ {p} : inv'[q] = inv[q]
    BY <1>5 DEF StartDecision, IInv, TInv, TypeOK
  <2>2. Readable /\ (~lost => Good(file)) /\ file[n] = "awaiting"
    BY <1>5 DEF StartDecision, IInv
  <2>3. Proper(p)'
    BY <1>1, <2>1, <2>2 DEF Proper, Current, Good, Agrees, Readable, Begun
  <2> QED BY <1>1, <1>2, <2>1, <2>3, OneProper
<1> QED BY <1>3, <1>4, <1>5

LEMMA DecisionInv ==
    ASSUME IInv, TInv', NEW p \in Invocations,
           Reject(p) \/ Approve(p) \/ DispatchSuccessors(p) \/ WriteDecision(p)
    PROVE  IInv'
<1>1. /\ inv[p].kind = "gate" /\ lock # p /\ HasCopy(p)
      /\ p \notin stale => Agrees(p) /\ (~lost => Good(inv[p].mem))
  BY DEF Reject, Approve, DispatchSuccessors, WriteDecision, IInv, Proper, Current, HasCopy
<1>2. lock' = lock /\ behind' = behind
  BY DEF Reject, Approve, DispatchSuccessors, WriteDecision
<1>3. inv[p] \in Inv
  BY TypeIsInv DEF IInv, TInv
<1>4. ASSUME NEW said, End(p, said), stale' = stale \ {p}, UNCHANGED <<file, blessed, lost>>
      PROVE  IInv'
  BY <1>1, <1>2, <1>4, EndProper
<1>5. CASE Reject(p)
  BY <1>4, <1>5 DEF Reject
<1>6. CASE /\ Approve(p) /\ blessed' = blessed \cup ({inv[p].gated} \cap Gates)
           /\ Goto(p, "dispatch") /\ stale' = stale
  <2>1. /\ inv[p].pc = "decide" /\ file' = file /\ lost' = lost
        /\ inv[p].mem[inv[p].gated] = "awaiting"
    BY <1>6 DEF Approve, IInv, Proper
  <2>2. /\ inv'[p] = [inv[p] EXCEPT !.pc = "dispatch"]
        /\ \A q \in Invocations \ {p} : inv'[q] = inv[q]
    BY <1>6 DEF Goto, IInv, TInv, TypeOK
  <2>3. inv'[p].pc = "dispatch" /\ inv'[p].kind = "gate" /\ inv'[p].mem = inv[p].mem
        /\ inv'[p].gated = inv[p].gated
    BY <1>1, <1>3, <2>2 DEF Inv
  <2>4. Proper(p)'
    BY <1>1, <1>2, <1>6, <2>1, <2>3 DEF Proper, Current, Good, Agrees, Readable
  <2>5. (Readable /\ ~lost => Good(file))'
    BY <1>2, <1>6, <2>1, QuietGood
  <2> QED BY <1>1, <1>2, <1>6, <2>1, <2>2, <2>3, <2>4, <2>5, OneProper
<1>7. CASE DispatchSuccessors(p)
  <2> DEFINE g == inv[p].gated
             done == {g} \cup (Effects \cap Children({g}))
             m == [x \in Nodes |-> IF x \in done THEN "ok" ELSE inv[p].mem[x]]
  <2>1. UNCHANGED <<file, lock, behind, blessed, lost>>
    BY <1>7 DEF DispatchSuccessors
  <2>2. CASE End(p, "nothing") /\ stale' = stale \ {p}
    BY <1>4, <2>1, <2>2
  <2>3. CASE inv' = [inv EXCEPT ![p].pc = "flip", ![p].mem = m] /\ stale' = stale
    <3>1. /\ inv[p].pc = "dispatch" /\ g \in Nodes /\ inv[p].mem[g] = "awaiting"
          /\ p \notin stale /\ g \in Gates => g \in blessed
      BY <1>7 DEF DispatchSuccessors, IInv, TInv, Proper
    <3>2. \A x \in Nodes : inv[p].mem[x] \in Complete => m[x] \in Complete
      BY DEF Complete
    <3>3. \A x \in Nodes \ Effects : m[x] \in Settled => inv[p].mem[x] \in Settled
      BY <3>1 DEF Settled
    <3>4. \A x \in Gates : m[x] \in Complete => x = g \/ inv[p].mem[x] \in Complete
      BY NodeKinds
    <3>5. p \notin stale /\ ~lost => Good(m)
      <4> HIDE DEF m
      <4> QED BY <1>1, <3>1, <3>2, <3>3, <3>4, GraphIsADag DEF Good
    <3>6. /\ inv'[p].pc = "flip" /\ inv'[p].kind = "gate" /\ inv'[p].mem = m
          /\ \A q \in Invocations \ {p} : inv'[q] = inv[q]
      BY <1>1, <1>3, <2>3, TypeIsInv DEF IInv, TInv, Inv
    <3> HIDE DEF m
    <3>7. Proper(p)'
      BY <1>1, <2>1, <2>3, <3>2, <3>5, <3>6 DEF Proper, Current, Good, Agrees, Readable
    <3>8. (Readable /\ ~lost => Good(file))'
      BY <2>1, QuietGood
    <3> QED BY <1>1, <2>1, <2>3, <3>1, <3>6, <3>7, <3>8, OneProper
  <2> QED BY <1>7, <2>2, <2>3 DEF DispatchSuccessors
<1>8. CASE WriteDecision(p)
  <2>1. /\ inv[p].pc = "flip" /\ file' = inv[p].mem /\ blessed' = blessed /\ Readable'
        /\ stale' = stale \cup Outdated(p) /\ lost' = (lost \/ p \in stale)
    BY <1>3, <1>8 DEF WriteDecision, Writes, Inv, Readable
  <2>2. /\ inv'[p].pc = "lock" /\ inv'[p].kind = "gate" /\ inv'[p].mem = inv[p].mem
        /\ \A q \in Invocations \ {p} : inv'[q] = inv[q]
    BY <1>1, <1>3, <1>8, TypeIsInv DEF WriteDecision, Goto, IInv, TInv, Inv
  <2>3. ~lost' => Good(file)'
    BY <1>1, <1>2, <2>1 DEF Good
  <2>4. Proper(p)'
    BY <1>1, <1>2, <2>1, <2>2 DEF Proper, Current, Good, Agrees
  <2> QED BY <1>2, <2>1, <2>2, <2>3, <2>4, WriteInv
<1> QED BY <1>4, <1>2, <1>5, <1>6, <1>7, <1>8 DEF Approve

\* The holder of the lock returns: its copy was written before, or never differed.
LEMMA ReturnInv ==
    ASSUME IInv, TInv', NEW p \in Invocations, lock = p, Return(p),
           UNCHANGED <<file, behind, blessed, lost>>
    PROVE  IInv'
  BY EndProper DEF Return

LEMMA AcquireInv ==
    ASSUME IInv, TInv', NEW p \in Invocations, Acquire(p)
    PROVE  IInv'
<1> DEFINE m == IF inv[p].kind = "resume" THEN LoadOrCreate ELSE inv[p].mem
<1>1. inv[p] \in Inv /\ inv[p].pc = "lock"
  BY TypeIsInv DEF IInv, TInv, Acquire
<1>2. /\ lock = None /\ lock' = p /\ UNCHANGED <<file, behind, blessed, stale, lost>>
      /\ inv' = [inv EXCEPT ![p].pc = "loop", ![p].mem = m]
  BY DEF Acquire
<1>4. p \notin stale =>
      /\ ~lost => Good(m)
      /\ \A n \in Nodes : m[n] \in Complete => Readable /\ file[n] \in Complete
      /\ Readable /\ inv[p].kind # "from" =>
             \A n \in Nodes : file[n] \in Complete => m[n] \in Complete
  <2>1. CASE inv[p].kind = "resume"
    <3>1. m = IF Readable THEN file ELSE Fresh
      BY <2>1 DEF LoadOrCreate
    <3>2. \A n \in Nodes : Fresh[n] \notin Settled \cup Complete
      BY DEF Fresh, Settled, Complete
    <3>3. Good(Fresh)
      BY <3>2, NodeKinds DEF Good
    <3> HIDE DEF m
    <3> QED BY <3>1, <3>2, <3>3 DEF IInv
  <2>2. CASE inv[p].kind # "resume"
    <3>1. m = inv[p].mem /\ HasCopy(p)
      BY <1>1, <2>2 DEF HasCopy
    <3> HIDE DEF m
    <3> QED BY <1>1, <3>1 DEF IInv, Proper, Current, Agrees
  <2> QED BY <2>1, <2>2
<1> HIDE DEF m
<1>5. /\ inv'[p].pc = "loop" /\ inv'[p].kind = inv[p].kind /\ inv'[p].mem = m
      /\ \A q \in Invocations \ {p} : inv'[q] = inv[q]
  BY <1>1, <1>2, TypeIsInv DEF IInv, TInv, Inv
<1>6. Proper(p)'
  BY <1>2, <1>4, <1>5 DEF Proper, Current, Good, Agrees, Readable
<1>7. (Readable /\ ~lost => Good(file))'
  BY <1>2, QuietGood
<1>8. \A q \in Invocations \ {p} : lock' = q <=> lock = q
  BY <1>2, OthersAreNone
<1> QED BY <1>1, <1>2, <1>5, <1>6, <1>7, <1>8, OneProper

LEMMA OverBudgetInv ==
    ASSUME IInv, TInv', NEW p \in Invocations, NEW n \in Nodes, OverBudget(p, n)
    PROVE  IInv'
<1> DEFINE m == inv[p].mem
<1>1. /\ inv[p] \in Inv /\ lock = p /\ m[n] \notin Complete
      /\ p \notin stale /\ ~lost => Good(m)
  BY TypeIsInv DEF IInv, TInv, Proper, Current, HasCopy, OverBudget, Frontier
<1>2. /\ file' = [m EXCEPT ![n] = "failed"] /\ UNCHANGED <<behind, blessed>>
      /\ End(p, "nothing") /\ lock' = None
      /\ stale' = (stale \cup Outdated(p)) \ {p} /\ lost' = (lost \/ p \in stale)
  BY DEF OverBudget
<1>3. /\ Proper(p)'
      /\ \A q \in Invocations \ {p} : inv'[q] = inv[q] /\ (lock' = q <=> lock = q)
  BY <1>1, <1>2, EndedProper
<1>4. m \in [Nodes -> Statuses]
  BY <1>1 DEF Inv, Manifests
<1> HIDE DEF m
<1>5. ~lost' => Good(file)'
  BY <1>1, <1>2, <1>4, GraphIsADag, NodeKinds DEF Good, Settled, Complete
<1> QED BY <1>1, <1>2, <1>3, <1>5, WriteInv

LEMMA StartBatchInv ==
    ASSUME IInv, TInv', NEW p \in Invocations, StartBatch(p)
    PROVE  IInv'
<1> DEFINE m == inv[p].mem
           batch == Frontier(m)
           marked == [n \in Nodes |-> IF n \in batch THEN "running" ELSE m[n]]
<1>1. /\ inv[p] \in Inv /\ lock = p /\ inv[p].pc = "loop"
      /\ p \notin stale /\ ~lost => Good(m)
  BY TypeIsInv DEF IInv, TInv, Proper, Current, HasCopy, StartBatch
<1>2. /\ inv' = [inv EXCEPT ![p].pc = "batch", ![p].batch = batch, ![p].mem = marked]
      /\ file' = marked /\ lock' = lock
      /\ behind' = (behind \ batch) \cup (Children(batch) \ Effects) /\ blessed' = blessed \ batch
      /\ stale' = stale \cup Outdated(p) /\ lost' = (lost \/ p \in stale)
  BY DEF StartBatch, Writes
<1>3. batch \subseteq Nodes
      /\ \A n \in batch : m[n] \notin Complete /\ \A d \in DependsOn[n] : m[d] \in Complete
  BY DEF Frontier
\* Whatever is settled is in the batch or complete, and nothing of it consumes the batch.
<1>5. \A n \in Nodes : m[n] \in Complete => n \notin batch /\ marked[n] \in Complete
  BY <1>3
<1>6. \A n \in Nodes : marked[n] = IF n \in batch THEN "running" ELSE m[n]
  OBVIOUS
<1>7. marked \in Manifests
  BY <1>1 DEF Inv, Manifests, Statuses
<1> HIDE DEF batch, marked
<1>8. inv'[p].pc = "batch" /\ inv'[p].kind = inv[p].kind /\ inv'[p].mem = marked
      /\ \A q \in Invocations \ {p} : inv'[q] = inv[q]
  BY <1>1, <1>2, TypeIsInv DEF IInv, TInv, Inv
<1> HIDE DEF m
<1>9. ASSUME ~lost'
      PROVE  /\ \A n \in Nodes \ Effects : marked[n] \in Settled =>
                    n \notin behind' /\ \A d \in DependsOn[n] : marked[d] \in Complete
             /\ \A g \in Gates : marked[g] \in Complete => g \in blessed'
  <2>0. Good(m)
    BY <1>1, <1>2, <1>9
  <2>1. ASSUME NEW n \in Nodes \ Effects, marked[n] \in Settled
        PROVE  n \notin behind' /\ \A d \in DependsOn[n] : marked[d] \in Complete
    <3>1. \A d \in DependsOn[n] : d \in Nodes /\ m[d] \in Complete
      BY <2>0, <1>3, <1>6, <2>1, GraphIsADag DEF Good
    <3>2. n \notin Children(batch)
      BY <1>5, <3>1 DEF Children
    <3>3. n \in batch \/ n \notin behind
      BY <2>0, <1>6, <2>1 DEF Good
    <3> QED BY <1>2, <1>5, <3>1, <3>2, <3>3
  <2>2. ASSUME NEW g \in Gates, marked[g] \in Complete PROVE g \in blessed'
    <3>1. g \notin batch /\ m[g] \in Complete
      BY <1>6, <2>2, NodeKinds DEF Complete
    <3> QED BY <2>0, <1>2, <3>1 DEF Good
  <2> QED BY <2>1, <2>2
<1>10. ~lost' => Good(file)'
  BY <1>2, <1>9 DEF Good
<1>11. Proper(p)'
  <2>1. Readable' /\ Agrees(p)'
    BY <1>2, <1>7, <1>8 DEF Agrees, Readable
  <2>2. ~lost' => Good(inv[p].mem)'
    BY <1>2, <1>8, <1>10 DEF Good
  <2> QED BY <1>1, <1>2, <1>8, <2>1, <2>2 DEF Proper
<1> QED BY <1>1, <1>2, <1>8, <1>10, <1>11, WriteInv

LEMMA EndTurnInv ==
    ASSUME IInv, TInv', NEW p \in Invocations, NEW n \in Nodes, EndTurn(p, n)
    PROVE  IInv'
<1> DEFINE old == inv[p].mem
<1>1. /\ inv[p] \in Inv /\ lock = p /\ inv[p].pc = "batch" /\ old[n] = "running"
      /\ p \notin stale /\ ~lost => Good(old)
  BY TypeIsInv DEF IInv, TInv, Proper, Current, HasCopy, EndTurn
<1>2. PICK outcome \in Outcomes(n) :
          /\ file' = [old EXCEPT ![n] = outcome]
          /\ inv' = [inv EXCEPT ![p].mem = [old EXCEPT ![n] = outcome]]
  BY DEF EndTurn
<1> DEFINE m == [old EXCEPT ![n] = outcome]
<1>3. /\ lock' = lock /\ UNCHANGED <<behind, blessed>>
      /\ stale' = stale \cup Outdated(p) /\ lost' = (lost \/ p \in stale)
  BY DEF EndTurn, Writes
<1>4. old \in [Nodes -> Statuses] /\ m \in Manifests
  BY <1>1 DEF Inv, Manifests, Outcomes, Statuses
<1>5. \A x \in Nodes : m[x] = IF x = n THEN outcome ELSE old[x]
  BY <1>4
<1>6. file' = m /\ inv' = [inv EXCEPT ![p].mem = m]
  BY <1>2
<1> HIDE DEF m
<1>7. inv'[p].pc = "batch" /\ inv'[p].kind = inv[p].kind /\ inv'[p].mem = m
      /\ \A q \in Invocations \ {p} : inv'[q] = inv[q]
  BY <1>1, <1>6, TypeIsInv DEF IInv, TInv, Inv
<1> HIDE DEF old
<1>8. ASSUME ~lost' PROVE Good(m)
  <2>0. Good(old)
    BY <1>1, <1>3, <1>8
  <2>1. \A x \in Nodes : old[x] \in Complete => x # n /\ m[x] \in Complete
    BY <1>1, <1>5 DEF Complete
  <2>2. \A x \in Nodes : m[x] \in Settled => old[x] \in Settled
    BY <1>1, <1>5 DEF Settled
  <2>3. n \in Gates => outcome \notin Complete
    BY NodeKinds DEF Outcomes, Complete
  <2> QED BY <2>0, <1>5, <2>1, <2>2, <2>3, GraphIsADag, NodeKinds DEF Good
<1>9. ~lost' => Good(file)'
  BY <1>3, <1>6, <1>8 DEF Good
<1>10. Proper(p)'
  <2>1. Readable' /\ Agrees(p)'
    BY <1>4, <1>6, <1>7 DEF Agrees, Readable
  <2>2. ~lost' => Good(inv[p].mem)'
    BY <1>6, <1>7, <1>9 DEF Good
  <2> QED BY <1>1, <1>3, <1>7, <2>1, <2>2 DEF Proper
<1> QED BY <1>1, <1>3, <1>7, <1>9, <1>10, WriteInv

LEMMA EndBatchInv ==
    ASSUME IInv, TInv', NEW p \in Invocations, EndBatch(p)
    PROVE  IInv'
<1>1. /\ inv[p] \in Inv /\ lock = p /\ inv[p].pc = "batch"
      /\ UNCHANGED <<file, behind, blessed, lost>>
      /\ p \notin stale => file = inv[p].mem /\ (~lost => Good(inv[p].mem))
  BY TypeIsInv DEF IInv, TInv, Proper, Current, HasCopy, Agrees, EndBatch
<1>2. CASE Return(p)
  BY <1>1, <1>2, ReturnInv
<1>3. CASE /\ inv' = [inv EXCEPT ![p].pc = "loop", ![p].batch = {}]
           /\ UNCHANGED <<lock, stale>>
  <2>1. inv'[p].pc = "loop" /\ inv'[p].kind = inv[p].kind /\ inv'[p].mem = inv[p].mem
        /\ \A q \in Invocations \ {p} : inv'[q] = inv[q]
    BY <1>1, <1>3, TypeIsInv DEF IInv, TInv, Inv
  <2>2. p \notin stale => Readable
    BY <1>1 DEF Readable, Inv
  <2>3. Proper(p)'
    BY <1>1, <1>3, <2>1, <2>2 DEF Proper, Current, HasCopy, Agrees, Readable, Good
  <2>4. (Readable /\ ~lost => Good(file))'
    BY <1>1, QuietGood
  <2> QED BY <1>1, <1>3, <2>1, <2>3, <2>4, OneProper
<1> QED BY <1>2, <1>3 DEF EndBatch

LEMMA CrashInv ==
    ASSUME IInv, TInv', NEW p \in Invocations, Crash(p)
    PROVE  IInv'
<1>1. End(p, "nothing") /\ lock' = (IF lock = p THEN None ELSE lock)
      /\ UNCHANGED <<behind, blessed, lost>>
  BY DEF Crash
<1>2. CASE file' = file /\ stale' = stale \ {p}
  BY <1>1, <1>2, EndProper
<1>3. CASE /\ inv[p].pc \in {"flip", "loop", "batch"} /\ file' = Torn
           /\ stale' = (stale \cup Outdated(p)) \ {p}
  <2>1. \A q \in Invocations \ {p} : (q \in stale \/ HasCopy(q)) => q \in stale'
    BY <1>3, Others DEF IInv, Proper
  <2>2. (Readable /\ ~lost => Good(file))'
    BY <1>3, NoneIsNoManifest DEF Readable, Manifests
  <2> QED BY <1>1, <2>1, <2>2, EndedProper, OneProper
<1> QED BY <1>2, <1>3 DEF Crash

LEMMA InitInv ==
    ASSUME Init
    PROVE  IInv
<1>1. TInv /\ ~Readable
  BY InitType, NoneIsNoManifest DEF Init, Readable
<1>2. \A p \in Invocations : inv[p].pc = "idle" /\ lock # p
  BY IdleIsInv, OthersAreNone DEF Init, Said
<1> QED BY <1>1, <1>2 DEF IInv, Proper, Current, HasCopy

LEMMA StepInv ==
    ASSUME IInv, [Next]_vars
    PROVE  IInv'
<1>1. TInv'
  BY TypeStep DEF IInv
<1>2. CASE UNCHANGED vars
  BY <1>1, <1>2 DEF vars, IInv, Proper, Current, HasCopy, Good, Agrees, Readable
<1>3. ASSUME NEW p \in Invocations, NEW n \in Nodes,
             StartRun(p) \/ StartFromNode(p, n) \/ StartDecision(p, n)
      PROVE  IInv'
  BY <1>1, <1>3, StartInv
<1>4. ASSUME NEW p \in Invocations, StartRun(p) PROVE IInv'
  BY <1>3, <1>4, GraphIsADag
<1>5. ASSUME NEW p \in Invocations, NEW n \in Nodes, OverBudget(p, n) \/ EndTurn(p, n) PROVE IInv'
  BY <1>1, <1>5, OverBudgetInv, EndTurnInv
<1>6. ASSUME NEW p \in Invocations, NothingToRun(p) PROVE IInv'
  BY <1>1, <1>6, ReturnInv DEF NothingToRun, IInv, Proper
<1>7. ASSUME NEW p \in Invocations, Acquire(p) \/ StartBatch(p) \/ EndBatch(p) \/ Crash(p)
      PROVE  IInv'
  BY <1>1, <1>7, AcquireInv, StartBatchInv, EndBatchInv, CrashInv
<1>8. ASSUME NEW p \in Invocations,
             Reject(p) \/ Approve(p) \/ DispatchSuccessors(p) \/ WriteDecision(p)
      PROVE  IInv'
  BY <1>1, <1>8, DecisionInv
<1> QED BY <1>2, <1>3, <1>4, <1>5, <1>6, <1>7, <1>8 DEF Next, Step

LEMMA Invariant == Spec => []IInv
<1>1. Init => IInv
  BY InitInv
<1>2. IInv /\ [Next]_vars => IInv'
  BY StepInv
<1> QED BY <1>1, <1>2, PTL DEF Spec

-----------------------------------------------------------------------------
\* File, lock and invocations keep their shape, whoever runs beside whom.
THEOREM TypeCorrect == Spec => []TypeOK
<1>1. TInv => TypeOK
  BY DEF TInv
<1> QED BY <1>1, TypeInvariant, PTL

\* No re-entry, failure or death in a batch leaves a node complete in the file that did not
\* run on the last output of what it depends on (reset_from_node and the batches of run),
\* whoever overlaps with whom, until a copy older than the file is written over it.
THEOREM NoHalfUpdates == Spec => []NoHalfUpdate
<1>1. IInv => NoHalfUpdate
  BY DEF IInv, Good, Settled, Complete, NoHalfUpdate
<1> QED BY <1>1, Invariant, PTL

\* No gate is passed on a draft that its operator did not approve, until a copy older than
\* the file is written over it: decisions may overlap with runs, re-entries and each other.
THEOREM GatesAreApproved == Spec => []GatesWereApproved
<1>1. IInv => GatesWereApproved
  BY DEF IInv, Good, GatesWereApproved
<1> QED BY <1>1, Invariant, PTL

\* A runner that finds nothing to run has nothing left to run: the graph has no cycle.
LEMMA EmptyFrontierIsDone ==
    ASSUME NEW m, Frontier(m) = {}
    PROVE  \A n \in Nodes : m[n] \in Complete
<1> DEFINE S == {n \in Nodes : m[n] \notin Complete}
<1> SUFFICES ASSUME S # {} PROVE FALSE
  OBVIOUS
<1>1. PICK n \in S : DependsOn[n] \cap S = {}
  BY GraphIsADag DEF Acyclic
<1>2. \A d \in DependsOn[n] : m[d] \in Complete
  BY <1>1, GraphIsADag
<1>3. n \in Frontier(m)
  BY <1>1, <1>2 DEF Frontier
<1> QED BY <1>3

LEMMA OkStep ==
    ASSUME IInv, Next, NEW p \in Invocations, lock = p, lock' # p, p \notin stale,
           inv'[p].said = "ok"
    PROVE  Readable /\ \A n \in Nodes : file[n] \in Complete
<1>1. /\ inv[p].pc \in {"loop", "batch"} /\ Agrees(p)
      /\ \A q \in Invocations \ {p} : inv[q].pc \notin {"loop", "batch"}
  BY DEF IInv, Proper, Current, HasCopy
<1>2. \A said \in Said : End(p, said) => said = "ok"
  BY DEF End, Idle, IInv, TInv, TypeOK
<1>3. ASSUME NEW q \in Invocations,
             Acquire(q) \/ StartRun(q) \/ Reject(q) \/ Approve(q) \/ DispatchSuccessors(q)
             \/ WriteDecision(q) \/ StartBatch(q)
      PROVE  FALSE
  BY <1>3, OthersAreNone
     DEF Acquire, StartRun, Reject, Approve, DispatchSuccessors, WriteDecision, StartBatch
<1>4. ASSUME NEW q \in Invocations, NEW n \in Nodes,
             StartFromNode(q, n) \/ StartDecision(q, n) \/ OverBudget(q, n) \/ EndTurn(q, n)
      PROVE  FALSE
  BY <1>1, <1>2, <1>4 DEF StartFromNode, StartDecision, OverBudget, EndTurn, Said
<1>5. ASSUME NEW q \in Invocations, Crash(q) PROVE FALSE
  BY <1>2, <1>5 DEF Crash, Said
<1>6. ASSUME NEW q \in Invocations, EndBatch(q) PROVE FALSE
  <2>1. q = p /\ Return(p) /\ \E n \in inv[p].batch : inv[p].mem[n] \in {"failed", "awaiting"}
    BY <1>1, <1>6 DEF EndBatch
  <2>2. \E n \in Nodes : inv[p].mem[n] \in {"failed", "awaiting"}
    BY <2>1, Fields DEF IInv
  <2>3. TerminalStatus(inv[p].mem) # "ok"
    BY <2>2 DEF TerminalStatus
  <2> QED BY <1>2, <2>1, <2>3 DEF Return, Said
<1>7. ASSUME NEW q \in Invocations, NothingToRun(q)
      PROVE  Readable /\ \A n \in Nodes : file[n] \in Complete
  <2>1. q = p /\ Frontier(inv[p].mem) = {}
    BY <1>1, <1>7 DEF NothingToRun
  <2>2. \A n \in Nodes : inv[p].mem[n] \in Complete
    BY <2>1, EmptyFrontierIsDone
  <2> QED BY <1>1, <2>2, GraphIsADag DEF Agrees
<1> QED BY <1>3, <1>4, <1>5, <1>6, <1>7 DEF Next, Step

LEMMA KeepStep ==
    ASSUME IInv, [Next]_vars, Readable, file' \in Manifests, ~lost',
           NEW n \in Nodes, file[n] \in Complete, file'[n] \notin Complete
    PROVE  \E p \in Invocations : lock = p /\ inv[p].kind = "from"
<1>1. file' # file /\ file' # Torn
  BY NoneIsNoManifest
<1>2. ASSUME NEW p \in Invocations, HasCopy(p), p \notin stale, inv[p].kind # "from"
      PROVE  inv[p].mem[n] \in Complete
  BY <1>2 DEF IInv, Proper, Current, Agrees
<1>3. ASSUME NEW p \in Invocations,
             StartRun(p) \/ Reject(p) \/ Approve(p) \/ DispatchSuccessors(p) \/ Acquire(p)
             \/ NothingToRun(p) \/ EndBatch(p) \/ Crash(p)
      PROVE  FALSE
  BY <1>1, <1>3 DEF StartRun, Reject, Approve, DispatchSuccessors, Acquire, NothingToRun,
                    EndBatch, Crash
<1>4. ASSUME NEW p \in Invocations, NEW x \in Nodes, StartFromNode(p, x) \/ StartDecision(p, x)
      PROVE  FALSE
  BY <1>1, <1>4 DEF StartFromNode, StartDecision
<1>5. ASSUME NEW p \in Invocations, WriteDecision(p) PROVE FALSE
  BY <1>2, <1>5 DEF WriteDecision, Writes, IInv, Proper, HasCopy
<1>6. ASSUME NEW p \in Invocations, inv[p].kind # "from",
             StartBatch(p) \/ \E x \in Nodes : OverBudget(p, x) \/ EndTurn(p, x)
      PROVE  FALSE
  <2>1. inv[p].mem[n] \in Complete /\ inv[p].mem \in [Nodes -> Statuses]
    BY <1>2, <1>6, Fields DEF StartBatch, OverBudget, EndTurn, Writes, HasCopy, IInv, Manifests
  <2>2. CASE StartBatch(p)
    BY <2>1, <2>2 DEF StartBatch, Frontier
  <2>3. ASSUME NEW x \in Nodes, OverBudget(p, x) PROVE FALSE
    BY <2>1, <2>3 DEF OverBudget, Frontier
  <2>4. ASSUME NEW x \in Nodes, EndTurn(p, x) PROVE FALSE
    BY <2>1, <2>4 DEF EndTurn, Complete
  <2> QED BY <1>6, <2>2, <2>3, <2>4
<1>7. ASSUME NEW p \in Invocations, inv[p].kind = "from",
             StartBatch(p) \/ \E x \in Nodes : OverBudget(p, x) \/ EndTurn(p, x)
      PROVE  lock = p
  BY <1>7 DEF StartBatch, OverBudget, EndTurn, IInv, Proper
<1>8. ~UNCHANGED vars
  BY <1>1 DEF vars
<1> QED BY <1>3, <1>4, <1>5, <1>6, <1>7, <1>8 DEF Next, Step

\* An invocation that says ok has every node complete in the file, unless somebody wrote
\* the file since it took its copy.
THEOREM OkIsHonest == Spec => OkMeansComplete
<1>1. IInv /\ [Next]_vars =>
          [\A p \in Invocations :
              lock = p /\ lock' # p /\ p \notin stale /\ inv'[p].said = "ok"
                  => Readable /\ \A n \in Nodes : file[n] \in Complete]_vars
  BY OkStep
<1> QED BY <1>1, Invariant, PTL DEF Spec, OkMeansComplete

\* A completed node stays completed, whoever resumes, decides or dies, but for an operator's
\* re-entry, until a copy older than the file is written over it.
THEOREM ResumeKeeps == Spec => ResumeKeepsWork
<1>1. IInv /\ [Next]_vars =>
          [Readable /\ file' \in Manifests /\ ~lost' =>
              \A n \in Nodes :
                  file[n] \in Complete /\ file'[n] \notin Complete =>
                      \E p \in Invocations : lock = p /\ inv[p].kind = "from"]_vars
  BY KeepStep
<1> QED BY <1>1, Invariant, PTL DEF Spec, ResumeKeepsWork
=============================================================================
