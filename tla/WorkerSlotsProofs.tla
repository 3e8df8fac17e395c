-------------------------- MODULE WorkerSlotsProofs --------------------------
(***************************************************************************)
(* Theorems about WorkerSlots for any runs, slots and gates.               *)
(***************************************************************************)
EXTENDS WorkerSlots, FiniteSetTheorems, TLAPS

\* Who owns a slot where: a run of the claim loop owns one while it works and has given it
\* back while a gate holds it; a run resumed at boot never owns one.
SlotsOf(r) ==
    /\ r \in Reconciled => ~task[r].held /\ ~task[r].was
    /\ task[r].pc = "work" /\ r \notin Reconciled => task[r].held /\ ~task[r].released
    /\ task[r].pc = "gate" /\ r \notin Reconciled =>
           task[r].was /\ task[r].held /\ task[r].released
    /\ task[r].pc \in {"reacquire", "dying"} =>
           r \notin Reconciled /\ task[r].held /\ task[r].released
    /\ task[r].pc \in {"queued", "over"} => ~task[r].held

\* Nobody goes to sleep beside a free slot, and whoever frees one wakes everybody.
Sleepers == asleep # {} => inUse >= MaxSlots

IInv ==
    /\ TypeOK
    /\ SlotsAccounted
    /\ inUse <= MaxSlots
    /\ Sleepers
    /\ \A r \in Runs : SlotsOf(r)

-----------------------------------------------------------------------------
(* The owners of slots and their number.                                   *)

LEMMA OwnersFinite ==
    /\ Owners \subseteq Runs /\ IsFiniteSet(Owners) /\ Cardinality(Owners) \in Nat
    /\ LoopHolds \in {0, 1}
<1>1. IsFiniteSet(Runs)
  BY SlotsAssumption
<1>2. Owners \subseteq Runs
  BY DEF Owners
<1>3. IsFiniteSet(Owners) /\ Cardinality(Owners) \in Nat
  BY <1>1, <1>2, FS_Subset, FS_CardinalityType
<1> QED BY <1>2, <1>3 DEF LoopHolds

\* One task changes: the others own what they owned.
LEMMA OwnersChange ==
    ASSUME TypeOK, TypeOK', NEW r \in Runs,
           \A x \in Runs \ {r} : task'[x] = task[x]
    PROVE  /\ Owns(r) /\ ~Owns(r)' =>
                  /\ Cardinality(Owners') = Cardinality(Owners) - 1
                  /\ Cardinality(Owners) >= 1
           /\ ~Owns(r) /\ Owns(r)' => Cardinality(Owners') = Cardinality(Owners) + 1
           /\ (Owns(r) <=> Owns(r)') => Owners' = Owners
<1>1. \A x \in Runs \ {r} : Owns(x) <=> Owns(x)'
  BY DEF Owns
<1>2. r \in Owners <=> Owns(r)
  BY DEF Owners
<1>3. ASSUME Owns(r), ~Owns(r)' PROVE Owners' = Owners \ {r}
  BY <1>1, <1>3 DEF Owners
<1>4. ASSUME ~Owns(r), Owns(r)' PROVE Owners' = Owners \cup {r}
  BY <1>1, <1>4 DEF Owners
<1>5. ASSUME Owns(r) <=> Owns(r)' PROVE Owners' = Owners
  BY <1>1, <1>5 DEF Owners
<1>6. ASSUME Owns(r), ~Owns(r)'
      PROVE  Cardinality(Owners') = Cardinality(Owners) - 1 /\ Cardinality(Owners) >= 1
  <2>1. Cardinality(Owners \ {r}) = Cardinality(Owners) - 1
    BY <1>2, <1>6, OwnersFinite, FS_RemoveElement
  <2>2. Cardinality(Owners \ {r}) \in Nat
    BY OwnersFinite, FS_Subset, FS_CardinalityType
  <2>3. Cardinality(Owners) >= 1
    BY <2>1, <2>2, OwnersFinite
  <2> QED BY <1>3, <1>6, <2>1, <2>3
<1>7. ASSUME ~Owns(r), Owns(r)' PROVE Cardinality(Owners') = Cardinality(Owners) + 1
  BY <1>2, <1>4, <1>7, OwnersFinite, FS_AddElement
<1> QED BY <1>5, <1>6, <1>7

\* A slot in use is given back, and everybody is awake if there is one to take.
LEMMA ReleaseCounts ==
    ASSUME IInv, Release, inUse > 0
    PROVE  /\ inUse' = inUse - 1 /\ inUse' \in Nat /\ inUse' <= MaxSlots
           /\ asleep' = {}
  BY SlotsAssumption DEF IInv, TypeOK, Release, WakeAll

-----------------------------------------------------------------------------
LEMMA InitInv ==
    ASSUME Init
    PROVE  IInv
<1>1. TypeOK /\ inUse <= MaxSlots /\ Sleepers /\ \A r \in Runs : SlotsOf(r)
  BY SlotsAssumption DEF Init, TypeOK, Task, LoopPCs, TaskPCs, Sleepers, SlotsOf
<1>2. Owners = {}
  BY DEF Init, Owners, Owns
<1>3. SlotsAccounted
  BY <1>2, FS_EmptySet DEF Init, SlotsAccounted, LoopHolds
<1> QED BY <1>1, <1>3 DEF IInv

\* A step of the claim loop that leaves the tasks alone.
LEMMA LoopAloneInv ==
    ASSUME IInv, LoopTakes \/ LoopFindsNone \/ LoopWakes \/ LoopStops
    PROVE  IInv'
<1> USE SlotsAssumption
<1>1. task' = task /\ Owners' = Owners
  BY DEF LoopTakes, LoopFindsNone, LoopWakes, LoopStops, Owners, Owns
<1>2. CASE LoopTakes
  BY <1>1, <1>2, OwnersFinite
     DEF IInv, TypeOK, SlotsAccounted, LoopHolds, LoopPCs, Sleepers, SlotsOf, LoopTakes, Take
<1>3. ASSUME loop = "claiming", Release, loop' # "claiming", loop' \in LoopPCs PROVE IInv'
  <2>1. inUse > 0
    BY <1>3, OwnersFinite DEF IInv, TypeOK, SlotsAccounted, LoopHolds
  <2> QED BY <1>1, <1>3, <2>1, ReleaseCounts, OwnersFinite
        DEF IInv, TypeOK, SlotsAccounted, LoopHolds, Sleepers, SlotsOf
<1>4. CASE LoopFindsNone
  BY <1>3, <1>4 DEF LoopFindsNone, LoopPCs
<1>5. CASE LoopWakes
  BY <1>1, <1>5, OwnersFinite
     DEF IInv, TypeOK, SlotsAccounted, LoopHolds, LoopPCs, Sleepers, SlotsOf, LoopWakes
<1>6. CASE LoopStops /\ loop = "claiming"
  BY <1>3, <1>6 DEF LoopStops, LoopPCs
<1>7. CASE LoopStops /\ loop # "claiming"
  BY <1>1, <1>7, OwnersFinite
     DEF IInv, TypeOK, SlotsAccounted, LoopHolds, LoopPCs, Sleepers, SlotsOf, LoopStops
<1> QED BY <1>2, <1>4, <1>5, <1>6, <1>7

\* The claim loop hands a row over, or gives its slot back with a row it refuses.
LEMMA LoopRowInv ==
    ASSUME IInv, NEW r \in Runs, LoopRefuses(r) \/ LoopDispatches(r)
    PROVE  IInv'
<1> USE SlotsAssumption
<1>1. inUse > 0
  BY OwnersFinite DEF IInv, TypeOK, SlotsAccounted, LoopHolds, LoopRefuses, LoopDispatches
<1>2. task' \in [Runs -> Task] /\ \A x \in Runs \ {r} : task'[x] = task[x]
  BY DEF IInv, TypeOK, Task, TaskPCs, LoopRefuses, LoopDispatches
<1>3. CASE LoopRefuses(r)
  <2>1. inUse' = inUse - 1 /\ inUse' \in Nat /\ inUse' <= MaxSlots /\ asleep' = {}
    BY <1>1, <1>3, ReleaseCounts DEF LoopRefuses
  <2>2. TypeOK'
    BY <1>2, <1>3, <2>1 DEF IInv, TypeOK, LoopRefuses, LoopPCs
  <2>3. ~Owns(r) /\ ~Owns(r)'
    BY <1>3 DEF IInv, TypeOK, Task, SlotsOf, Owns, LoopRefuses
  <2>4. Owners' = Owners
    BY <1>2, <2>2, <2>3, OwnersChange DEF IInv
  <2>5. SlotsAccounted'
    BY <1>3, <2>1, <2>4, OwnersFinite DEF IInv, SlotsAccounted, LoopHolds, LoopRefuses
  <2>6. \A x \in Runs : SlotsOf(x)'
    BY <1>2, <1>3 DEF IInv, TypeOK, Task, SlotsOf, LoopRefuses
  <2> QED BY <2>1, <2>2, <2>5, <2>6 DEF IInv, Sleepers
<1>4. CASE LoopDispatches(r)
  <2>1. TypeOK'
    BY <1>2, <1>4 DEF IInv, TypeOK, LoopDispatches, LoopPCs, KeepSlots
  <2>2. ~Owns(r) /\ Owns(r)'
    BY <1>4 DEF IInv, TypeOK, Task, SlotsOf, Owns, LoopDispatches
  <2>3. Cardinality(Owners') = Cardinality(Owners) + 1
    BY <1>2, <2>1, <2>2, OwnersChange DEF IInv
  <2>4. SlotsAccounted'
    BY <1>4, <2>3, OwnersFinite DEF IInv, SlotsAccounted, LoopHolds, LoopDispatches, KeepSlots
  <2>5. \A x \in Runs : SlotsOf(x)'
    BY <1>2, <1>4 DEF IInv, TypeOK, Task, SlotsOf, LoopDispatches
  <2> QED BY <1>4, <2>1, <2>4, <2>5 DEF IInv, Sleepers, LoopDispatches, KeepSlots
<1> QED BY <1>3, <1>4

-----------------------------------------------------------------------------
(* The tasks.                                                              *)

LEMMA EnterGateInv ==
    ASSUME IInv, NEW r \in Runs, EnterGate(r)
    PROVE  IInv'
<1> USE SlotsAssumption
<1>1. task' \in [Runs -> Task] /\ \A x \in Runs \ {r} : task'[x] = task[x]
  BY DEF IInv, TypeOK, Task, TaskPCs, EnterGate
<1>2. CASE r \in Reconciled
  <2>1. ~Owns(r) /\ ~Owns(r)' /\ KeepSlots
    BY <1>2 DEF IInv, TypeOK, Task, SlotsOf, Owns, EnterGate
  <2>2. TypeOK'
    BY <1>1, <2>1 DEF IInv, TypeOK, EnterGate, KeepSlots
  <2>3. Owners' = Owners
    BY <1>1, <2>1, <2>2, OwnersChange DEF IInv
  <2>4. \A x \in Runs : SlotsOf(x)'
    BY <1>1, <1>2 DEF IInv, TypeOK, Task, SlotsOf, EnterGate
  <2> QED BY <2>1, <2>2, <2>3, <2>4
        DEF IInv, SlotsAccounted, LoopHolds, Sleepers, EnterGate, KeepSlots
<1>3. CASE r \notin Reconciled
  <2>1. Owns(r) /\ task[r].held
    BY <1>3 DEF IInv, SlotsOf, Owns, EnterGate
  <2>2. r \in Owners
    BY <2>1 DEF Owners
  <2>3. Cardinality(Owners) # 0
    BY <2>2, OwnersFinite, FS_EmptySet
  <2>4. inUse > 0
    BY <2>3, OwnersFinite DEF IInv, TypeOK, SlotsAccounted
  <2>5. Release
    BY <2>1, <2>4 DEF EnterGate
  <2>6. inUse' = inUse - 1 /\ inUse' \in Nat /\ inUse' <= MaxSlots /\ asleep' = {}
    BY <2>4, <2>5, ReleaseCounts
  <2>7. TypeOK'
    BY <1>1, <2>6 DEF IInv, TypeOK, EnterGate
  <2>8. ~Owns(r)'
    BY <2>1, <2>4 DEF IInv, TypeOK, Task, Owns, EnterGate
  <2>9. Cardinality(Owners') = Cardinality(Owners) - 1
    BY <1>1, <2>1, <2>7, <2>8, OwnersChange DEF IInv
  <2>10. SlotsAccounted'
    BY <2>6, <2>9, OwnersFinite DEF IInv, SlotsAccounted, LoopHolds, EnterGate
  <2>11. \A x \in Runs : SlotsOf(x)'
    BY <1>1, <1>3, <2>1, <2>4 DEF IInv, TypeOK, Task, SlotsOf, EnterGate
  <2> QED BY <2>6, <2>7, <2>10, <2>11 DEF IInv, Sleepers
<1> QED BY <1>2, <1>3

\* A step that owns and frees no slot: a decision, an exception at a gate, a cancellation.
LEMMA KeepsSlotsInv ==
    ASSUME IInv, NEW r \in Runs, Decide(r) \/ GateRaises(r) \/ Cancel(r)
    PROVE  IInv'
<1> USE SlotsAssumption
<1>1. task' \in [Runs -> Task] /\ \A x \in Runs \ {r} : task'[x] = task[x]
  BY DEF IInv, TypeOK, Task, TaskPCs, Decide, GateRaises, Cancel
<1>2. inUse' = inUse /\ loop' = loop /\ asleep' \subseteq asleep
  BY DEF Decide, GateRaises, Cancel, KeepSlots
<1>3. TypeOK'
  BY <1>1, <1>2 DEF IInv, TypeOK
<1>4. Owns(r) <=> Owns(r)'
  <2>1. CASE Decide(r) \/ Cancel(r)
    BY <2>1 DEF IInv, TypeOK, Task, Owns, Decide, Cancel
  <2>2. CASE GateRaises(r)
    BY <2>2 DEF IInv, TypeOK, Task, SlotsOf, Owns, GateRaises
  <2> QED BY <2>1, <2>2
<1>5. Owners' = Owners
  BY <1>1, <1>3, <1>4, OwnersChange DEF IInv
<1>6. SlotsOf(r)'
  <2>1. CASE Decide(r)
    BY <2>1 DEF IInv, TypeOK, Task, SlotsOf, Decide
  <2>2. CASE GateRaises(r)
    BY <2>2 DEF IInv, TypeOK, Task, SlotsOf, GateRaises
  <2>3. CASE Cancel(r)
    BY <2>3 DEF IInv, TypeOK, Task, SlotsOf, Cancel
  <2> QED BY <2>1, <2>2, <2>3
<1>7. \A x \in Runs : SlotsOf(x)'
  BY <1>1, <1>6 DEF IInv, SlotsOf
<1> QED BY <1>2, <1>3, <1>5, <1>7 DEF IInv, SlotsAccounted, LoopHolds, Sleepers

LEMMA ReacquireInv ==
    ASSUME IInv, NEW r \in Runs, Reacquire(r)
    PROVE  IInv'
<1> USE SlotsAssumption
<1>1. task' \in [Runs -> Task] /\ \A x \in Runs \ {r} : task'[x] = task[x]
  <2> DEFINE pc == IF task[r].pc = "dying" THEN "leaving" ELSE "work"
  <2>1. task' = [task EXCEPT ![r].held = TRUE, ![r].released = FALSE, ![r].pc = pc]
    BY DEF Reacquire
  <2>2. pc \in TaskPCs
    BY DEF TaskPCs
  <2> HIDE DEF pc
  <2> DEFINE x == [task[r] EXCEPT !.held = TRUE, !.released = FALSE, !.pc = pc]
  <2>3. task' = [task EXCEPT ![r] = x]
    BY <2>1
  <2>4. x \in Task
    BY <2>2 DEF IInv, TypeOK, Task
  <2> HIDE DEF x
  <2> QED BY <2>3, <2>4 DEF IInv, TypeOK
<1>2. task[r].pc \in {"reacquire", "dying"}
  BY DEF Reacquire, Awake, Acquiring
<1>3. TypeOK'
  BY <1>1 DEF IInv, TypeOK, Reacquire, Take
<1>4. ~Owns(r) /\ Owns(r)'
  BY <1>2 DEF IInv, TypeOK, Task, SlotsOf, Owns, Reacquire
<1>5. Cardinality(Owners') = Cardinality(Owners) + 1
  BY <1>1, <1>3, <1>4, OwnersChange DEF IInv
<1>6. SlotsAccounted'
  BY <1>5, OwnersFinite DEF IInv, TypeOK, SlotsAccounted, LoopHolds, Reacquire, Take
<1>7. \A x \in Runs : SlotsOf(x)'
  BY <1>1, <1>2 DEF IInv, TypeOK, Task, SlotsOf, Reacquire
<1> QED BY <1>3, <1>6, <1>7 DEF IInv, TypeOK, Sleepers, Reacquire, Take

LEMMA DoneInv ==
    ASSUME IInv, NEW r \in Runs, Done(r)
    PROVE  IInv'
<1> USE SlotsAssumption
<1>1. task' \in [Runs -> Task] /\ \A x \in Runs \ {r} : task'[x] = task[x]
  <2> DEFINE x == [task[r] EXCEPT !.pc = "over", !.held = FALSE]
  <2>1. task' = [task EXCEPT ![r] = x]
    BY DEF Done
  <2>2. x \in Task
    BY DEF IInv, TypeOK, Task, TaskPCs
  <2> HIDE DEF x
  <2> QED BY <2>1, <2>2 DEF IInv, TypeOK
<1>2. ~Owns(r)' /\ \A x \in Runs : SlotsOf(x)'
  BY <1>1 DEF IInv, TypeOK, Task, SlotsOf, Owns, Done
<1>3. CASE Owns(r)
  <2>1. r \in Owners
    BY <1>3 DEF Owners
  <2>2. Cardinality(Owners) # 0
    BY <2>1, OwnersFinite, FS_EmptySet
  <2>3. inUse > 0
    BY <2>2, OwnersFinite DEF IInv, TypeOK, SlotsAccounted
  <2>4. inUse' = inUse - 1 /\ inUse' \in Nat /\ inUse' <= MaxSlots /\ asleep' = {}
    BY <1>3, <2>3, ReleaseCounts DEF Done
  <2>5. TypeOK'
    BY <1>1, <2>4 DEF IInv, TypeOK, Done
  <2>6. Cardinality(Owners') = Cardinality(Owners) - 1
    BY <1>1, <1>2, <1>3, <2>5, OwnersChange DEF IInv
  <2>7. SlotsAccounted'
    BY <2>4, <2>6, OwnersFinite DEF IInv, SlotsAccounted, LoopHolds, Done
  <2> QED BY <1>2, <2>4, <2>5, <2>7 DEF IInv, Sleepers
<1>4. CASE ~Owns(r)
  <2>1. TypeOK'
    BY <1>1, <1>4 DEF IInv, TypeOK, Done, KeepSlots
  <2>2. Owners' = Owners
    BY <1>1, <1>2, <1>4, <2>1, OwnersChange DEF IInv
  <2> QED BY <1>2, <1>4, <2>1, <2>2 DEF IInv, SlotsAccounted, LoopHolds, Sleepers, Done, KeepSlots
<1> QED BY <1>3, <1>4

LEMMA SleepInv ==
    ASSUME IInv, NEW x \in Runs \cup {Loop}, Sleep(x)
    PROVE  IInv'
<1>1. TypeOK' /\ inUse' = inUse /\ inUse' >= MaxSlots
  BY DEF IInv, TypeOK, Sleep
<1>2. Owners' = Owners /\ LoopHolds' = LoopHolds
  BY DEF Sleep, Owners, Owns, LoopHolds
<1>3. \A r \in Runs : SlotsOf(r)'
  BY DEF IInv, Sleep, SlotsOf
<1> QED BY <1>1, <1>2, <1>3 DEF IInv, SlotsAccounted, Sleepers

LEMMA StepInv ==
    ASSUME IInv, [Next]_vars
    PROVE  IInv'
<1>1. CASE UNCHANGED vars
  BY <1>1 DEF vars, IInv, TypeOK, SlotsAccounted, Owners, Owns, LoopHolds, Sleepers, SlotsOf
<1>2. CASE LoopStep \/ LoopStops
  BY <1>2, LoopAloneInv, LoopRowInv DEF LoopStep
<1>3. ASSUME NEW r \in Runs, TaskStep(r) PROVE IInv'
  BY <1>3, EnterGateInv, ReacquireInv, DoneInv DEF TaskStep
<1>4. ASSUME NEW r \in Runs, Decide(r) \/ GateRaises(r) \/ Cancel(r) PROVE IInv'
  BY <1>4, KeepsSlotsInv
<1>5. ASSUME NEW x \in Runs \cup {Loop}, Sleep(x) PROVE IInv'
  BY <1>5, SleepInv
<1>6. CASE Rest
  BY <1>1, <1>6 DEF Rest
<1> QED BY <1>1, <1>2, <1>3, <1>4, <1>5, <1>6 DEF Next

LEMMA Invariant == Spec => []IInv
<1>1. Init => IInv
  BY InitInv
<1>2. IInv /\ [Next]_vars => IInv'
  BY StepInv
<1> QED BY <1>1, <1>2, PTL DEF Spec

-----------------------------------------------------------------------------
\* However gates, exceptions, cancellations and a shutdown interleave, the counter is the
\* number of slots that tasks and claim loop own: none is lost and none returned twice.
THEOREM SlotsNeverLeak == Spec => []SlotsAccounted
<1>1. IInv => SlotsAccounted
  BY DEF IInv
<1> QED BY <1>1, Invariant, PTL

\* The counter, the waiters, the loop and the tasks keep their shape.
THEOREM TypeCorrect == Spec => []TypeOK
<1>1. IInv => TypeOK
  BY DEF IInv
<1> QED BY <1>1, Invariant, PTL

\* Never more runs of the claim loop compute than the worker has slots, runs that came back
\* from a gate included.
THEOREM ComputeCapHolds == Spec => []WorkBounded
<1>1. ASSUME IInv PROVE WorkBounded
  <2>1. Working \ Reconciled \subseteq Owners
    BY <1>1 DEF IInv, SlotsOf, Working, Owners, Owns
  <2>2. /\ Cardinality(Working \ Reconciled) <= Cardinality(Owners)
        /\ Cardinality(Working \ Reconciled) \in Nat
    <3>1. IsFiniteSet(Working \ Reconciled)
      BY <2>1, OwnersFinite, FS_Subset
    <3> QED BY <2>1, <3>1, OwnersFinite, FS_Subset, FS_CardinalityType
  <2> QED BY <1>1, <2>2, OwnersFinite, SlotsAssumption DEF IInv, TypeOK, SlotsAccounted, WorkBounded
<1> QED BY <1>1, Invariant, PTL

\* Nobody sleeps beside a free slot that no one is about to take.
THEOREM WakeupsAreNotLost == Spec => []NoLostWakeup
<1>1. IInv => NoLostWakeup
  BY SlotsAssumption DEF IInv, TypeOK, Sleepers, NoLostWakeup
<1> QED BY <1>1, Invariant, PTL
=============================================================================
