------------------------------ MODULE WorkerSlots ------------------------------
(***************************************************************************)
(* The compute slots of one worker process: the counter and the event of   *)
(* queue.py, the claim loop that takes a slot before it claims a run, the  *)
(* executor tasks that own one until they end, and the gates that give it  *)
(* back while they wait. Everything here is one asyncio loop: a step is    *)
(* the code between two awaits.                                            *)
(***************************************************************************)
EXTENDS Integers, FiniteSets

CONSTANTS
    Runs,        \* the runs this process may execute
    Reconciled,  \* those reconcile_gates resumes at boot, outside the claim loop
    MaxSlots,    \* GTM_WORKER_MAX_CONCURRENT_RUNS
    NGates,      \* bound: gates a run waits at
    Loop         \* the claim loop, as a waiter for a slot

ASSUME SlotsAssumption ==
    /\ IsFiniteSet(Runs)
    /\ Reconciled \subseteq Runs
    /\ MaxSlots \in Nat \ {0}
    /\ NGates \in Nat
    /\ Loop \notin Runs

VARIABLES
    inUse,   \* _worker_in_use
    asleep,  \* who waits on the slot event
    loop,    \* where the claim loop is
    task     \* the executor task of each run, with its _gtm_slot_held and _gtm_slot_released

vars == <<inUse, asleep, loop, task>>

-----------------------------------------------------------------------------
LoopPCs == {"acquire", "claiming", "pause", "stopped"}
TaskPCs == {"queued", "work", "gate", "reacquire", "dying", "leaving", "over"}
Task    == [pc: TaskPCs, held: BOOLEAN, released: BOOLEAN,
            was: BOOLEAN,    \* was_held of the gate's context manager
            gates: Nat]

Init ==
    /\ inUse = 0
    /\ asleep = {}
    /\ loop = "acquire"
    /\ task = [r \in Runs |-> IF r \in Reconciled
                  THEN [pc |-> "work", held |-> FALSE, released |-> TRUE, was |-> FALSE, gates |-> 0]
                  ELSE [pc |-> "queued", held |-> FALSE, released |-> FALSE, was |-> FALSE, gates |-> 0]]

Owns(r)    == task[r].held /\ ~task[r].released
Owners     == {r \in Runs : Owns(r)}
Working    == {r \in Runs : task[r].pc = "work"}
LoopHolds  == IF loop = "claiming" THEN 1 ELSE 0
Acquiring  == {r \in Runs : task[r].pc \in {"reacquire", "dying"}}
                  \cup (IF loop = "acquire" THEN {Loop} ELSE {})

\* A waiter that was woken runs before anything that a later timer or answer starts.
Awake == Acquiring \ asleep

-----------------------------------------------------------------------------
\* Fault: the wake-up of a semaphore, which wakes one waiter.
WakeOne == IF asleep = {} THEN {} ELSE asleep \ {CHOOSE x \in asleep : TRUE}

\* Fault: "wake any waiting claim_loop", and nobody else.
WakeLoop == asleep \ {Loop}

\* asyncio.Event.set wakes all who wait; each looks at the counter again.
WakeAll == {}

\* release_worker_slot.
Release ==
    /\ inUse' = IF inUse > 0 THEN inUse - 1 ELSE 0
    /\ asleep' = IF inUse' < MaxSlots THEN WakeAll ELSE asleep

\* Fault: a woken waiter takes a slot without looking at the counter again.
TakeUnchecked(x) == inUse' = inUse + 1 /\ UNCHANGED asleep

\* acquire_worker_slot finds a slot free.
Take(x) ==
    /\ inUse < MaxSlots
    /\ inUse' = inUse + 1
    /\ UNCHANGED asleep

\* It finds none, clears the event and waits for it.
Sleep(x) ==
    /\ x \in Awake
    /\ inUse >= MaxSlots
    /\ asleep' = asleep \cup {x}
    /\ UNCHANGED <<inUse, loop, task>>

KeepSlots == UNCHANGED <<inUse, asleep>>

-----------------------------------------------------------------------------
(* claim_loop.                                                             *)

LoopTakes ==
    /\ loop = "acquire"
    /\ Loop \notin asleep
    /\ Take(Loop)
    /\ loop' = "claiming"
    /\ UNCHANGED task

\* No row, or an exception on the way: the slot is given back before the pause.
LoopFindsNone ==
    /\ loop = "claiming"
    /\ Release
    /\ loop' = "pause"
    /\ UNCHANGED task

\* dispatch_claimed refuses the row: the run has ended, the loop goes on at once.
LoopRefuses(r) ==
    /\ loop = "claiming"
    /\ task[r].pc = "queued"
    /\ Release
    /\ loop' = "acquire"
    /\ task' = [task EXCEPT ![r].pc = "over"]

\* dispatch_claimed creates the task, which owns the slot from now on.
LoopDispatches(r) ==
    /\ loop = "claiming"
    /\ task[r].pc = "queued"
    /\ task' = [task EXCEPT ![r].pc = "work", ![r].held = TRUE, ![r].released = FALSE]
    /\ loop' = "acquire"
    /\ KeepSlots

LoopWakes ==
    /\ loop = "pause"
    /\ Awake = {}
    /\ loop' = "acquire"
    /\ UNCHANGED <<inUse, asleep, task>>

\* stop_task at shutdown: wherever the cancellation meets the loop.
LoopStops ==
    /\ loop # "stopped"
    /\ loop' = "stopped"
    /\ IF loop = "claiming" THEN Release
       ELSE inUse' = inUse /\ asleep' = asleep \ {Loop}
    /\ UNCHANGED task

-----------------------------------------------------------------------------
(* The executor tasks, and worker_slot_released_during_gate.               *)

\* Fault: every gate gives back a slot, whether its task owns one or not.
EnterGateAlways(r) ==
    /\ task[r].pc = "work"
    /\ task[r].gates < NGates
    /\ inUse' = inUse - 1
    /\ asleep' = WakeAll
    /\ task' = [task EXCEPT ![r].pc = "gate", ![r].was = TRUE, ![r].gates = @ + 1,
                            ![r].released = TRUE]
    /\ UNCHANGED loop

\* A gate gives back the slot its task holds.
EnterGate(r) ==
    LET was == task[r].held /\ inUse > 0 IN
    /\ task[r].pc = "work"
    /\ task[r].gates < NGates
    /\ IF was THEN Release ELSE KeepSlots
    /\ task' = [task EXCEPT ![r].pc = "gate", ![r].was = was, ![r].gates = @ + 1,
                            ![r].released = @ \/ was]
    /\ UNCHANGED loop

\* The decision: an approval takes a slot back if one was given back; a reject, a timeout
\* or a cancel of the run goes on without one, to its end.
Decide(r) ==
    /\ task[r].pc = "gate"
    /\ \E to \in {"reacquire", "leaving"} :
          task' = [task EXCEPT ![r].pc =
                      IF to = "reacquire" /\ ~task[r].was THEN "work" ELSE to]
    /\ KeepSlots
    /\ UNCHANGED loop

\* Fault: the exit by an exception does not mark the slot as given back.
GateRaisesUnmarked(r) ==
    /\ task[r].pc = "gate"
    /\ task' = [task EXCEPT ![r].pc = "leaving", ![r].released = FALSE]
    /\ KeepSlots
    /\ UNCHANGED loop

\* An exception or a cancellation while the gate waits: the finally clause takes a slot
\* back all the same, since nobody said not to.
GateRaises(r) ==
    /\ task[r].pc = "gate"
    /\ task' = [task EXCEPT ![r].pc = IF task[r].was THEN "dying" ELSE "leaving",
                            ![r].released = TRUE]
    /\ KeepSlots
    /\ UNCHANGED loop

Reacquire(r) ==
    /\ r \in Awake
    /\ Take(r)
    /\ task' = [task EXCEPT ![r].held = TRUE, ![r].released = FALSE,
                            ![r].pc = IF task[r].pc = "dying" THEN "leaving" ELSE "work"]
    /\ UNCHANGED loop

\* The task is cancelled while it works, or while it waits for its slot: then it leaves
\* without one, and its slot stays marked as given back.
Cancel(r) ==
    /\ task[r].pc \in {"work", "reacquire", "dying"}
    /\ task' = [task EXCEPT ![r].pc = "leaving"]
    /\ asleep' = asleep \ {r}
    /\ UNCHANGED <<inUse, loop>>

\* The task ends; the done-callback of _track_run gives back the slot it still owns.
Done(r) ==
    /\ task[r].pc \in {"work", "leaving"}
    /\ IF Owns(r) THEN Release ELSE KeepSlots
    /\ task' = [task EXCEPT ![r].pc = "over", ![r].held = FALSE]
    /\ UNCHANGED loop

-----------------------------------------------------------------------------
TaskStep(r) ==
    \/ EnterGate(r) \/ Reacquire(r) \/ Done(r)

LoopStep ==
    \/ LoopTakes \/ LoopFindsNone \/ LoopWakes
    \/ \E r \in Runs : LoopRefuses(r) \/ LoopDispatches(r)

\* Nothing is left to do but what the next process will claim.
Rest ==
    /\ \A r \in Runs : task[r].pc = "over" \/ (task[r].pc = "queued" /\ loop = "stopped")
    /\ UNCHANGED vars

Next ==
    \/ LoopStep \/ LoopStops
    \/ \E r \in Runs : TaskStep(r) \/ Decide(r) \/ GateRaises(r) \/ Cancel(r)
    \/ \E x \in Runs \cup {Loop} : Sleep(x)
    \/ Rest

Spec == Init /\ [][Next]_vars

\* The event loop runs what is ready; work ends or reaches a gate. Nobody must decide a
\* gate, nor stop or cancel anything.
Fairness ==
    /\ WF_vars(LoopStep)
    /\ \A r \in Runs : WF_vars(TaskStep(r))
    /\ \A x \in Runs \cup {Loop} : WF_vars(Sleep(x))

FairSpec == Spec /\ Fairness

-----------------------------------------------------------------------------
(* Properties.                                                             *)

\* The counter, the waiters, the loop and the tasks have the shape the code gives them.
TypeOK ==
    /\ inUse \in Nat
    /\ asleep \subseteq Runs \cup {Loop}
    /\ loop \in LoopPCs
    /\ task \in [Runs -> Task]

\* No exception, cancellation or shutdown loses a slot or returns one twice: the counter is
\* the number of tasks that own a slot, and the claim loop if it is between taking one and
\* handing it over.
SlotsAccounted ==
    inUse = Cardinality(Owners) + LoopHolds

\* R5, the compute cap: of the runs that came through the claim loop at most MaxSlots work
\* at a time, approved gates included.
WorkBounded ==
    Cardinality(Working \ Reconciled) <= MaxSlots

\* No lost wake-up: somebody sleeps beside a free slot only if one who is awake is about to
\* take it.
NoLostWakeup ==
    asleep # {} /\ inUse < MaxSlots => Awake # {}

\* An approved run gets a slot back, however the claim loop competes for it.
ApprovedResumes ==
    \A r \in Runs : task[r].pc = "reacquire" ~> task[r].pc # "reacquire"
=============================================================================
