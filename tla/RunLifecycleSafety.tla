------------------------- MODULE RunLifecycleSafety -------------------------
(***************************************************************************)
(* Safety theorems of RunLifecycle. For every value of its constants: a    *)
(* terminal row stays what it is, a reject stands until it is applied, and *)
(* a prompt run is started once. With one process at a time: a run has one *)
(* executor, at most MaxAttempts starts, and its operator is shown what    *)
(* its waiter holds; and until a restart, its first gate sends what its    *)
(* operator saw, an approved gate acts once, and a rejected one never.     *)
(***************************************************************************)
EXTENDS RunLifecycleProofs, FiniteSetTheorems

-----------------------------------------------------------------------------
(* The runs table: no step moves a row out of a terminal status, nor back  *)
(* to "queued".                                                            *)

RowStep(r) ==
    /\ Ended(r) => row'[r].status = row[r].status
    /\ row'[r].status = "queued" => row[r].status = "queued"

RowKept == \A r \in Runs : RowStep(r)

LEMMA SameRowKept == row' = row => RowKept
  BY DEF RowKept, RowStep

LEMMA EndKept ==
    ASSUME RowInv, NEW r \in Runs, NEW s \in Terminal, End(r, s)
    PROVE  RowKept
  BY DEF RowInv, Row, End, Ended, Terminal, RowKept, RowStep

\* A write of a row that leaves its status alone, or moves a live row.
LEMMA WriteKept ==
    ASSUME RowInv, NEW r \in Runs, NEW x \in Row, row' = [row EXCEPT ![r] = x],
           \/ x.status = row[r].status
           \/ ~Ended(r) /\ x.status # "queued"
    PROVE  RowKept
  BY DEF RowInv, Ended, RowKept, RowStep

LEMMA TaskRowKept ==
    ASSUME TypeInv, NEW t \in Tasks, TaskStep(t) \/ WaitTimeout(t)
    PROVE  RowKept
<1> USE DEF TypeInv
<1> DEFINE r == task[t].run
<1>1. task[t].pc # "idle" => r \in Runs /\ row[r] \in Row /\ task[t] \in Task
  BY SMTT(40) DEF TaskInv, Proper, RowInv
<1>2. CASE Begin(t) \/ HoldClaim(t) \/ HoldRegister(t) \/ HoldOpen(t) \/ WaitClaim(t)
           \/ WaitLocal(t) \/ WaitSlot(t) \/ CompleteGate(t)
  BY <1>2, SameRowKept
     DEF Begin, HoldClaim, HoldRegister, HoldOpen, WaitClaim, WaitLocal, WaitSlot, CompleteGate
<1>3. CASE Admit(t)
  <2>1. r \in Runs /\ row[r] \in Row
    BY <1>1, <1>3 DEF Admit
  <2>2. CASE ~Ended(r) /\ row' = [row EXCEPT ![r].status = "running"]
    <3> DEFINE x == [row[r] EXCEPT !.status = "running"]
    <3>1. x \in Row /\ x.status = "running"
      BY <2>1 DEF Row, Statuses, Parked
    <3>2. row' = [row EXCEPT ![r] = x]
      BY <2>2
    <3> HIDE DEF x
    <3> QED
      BY <2>1, <2>2, <3>1, <3>2, WriteKept
  <2> QED
    BY <1>3, <2>1, <2>2, EndKept, SameRowKept DEF Admit, Terminal
<1>4. CASE ExecPack(t) \/ ExecPrompt(t) \/ Finish(t) \/ Decided(t) \/ DispatchGate2(t)
           \/ WaitTimeout(t)
  <2>1. row' = row \/ End(r, "failed") \/ End(r, "ok") \/ End(r, "rejected")
    BY <1>4 DEF ExecPack, ExecPrompt, Finish, Decided, DispatchGate2, WaitTimeout
  <2>2. r \in Runs
    BY <1>1, <1>4 DEF ExecPack, ExecPrompt, Finish, Decided, DispatchGate2, WaitTimeout
  <2> QED
    BY <2>1, <2>2, EndKept, SameRowKept DEF Terminal
<1>5. CASE HoldPark(t)
  <2>1. r \in Runs /\ row[r] \in Row /\ task[t] \in Task
    BY <1>1, <1>5 DEF HoldPark
  <2>2. CASE ~Ended(r) /\ row' = [row EXCEPT ![r].status = "awaiting_approval",
                                             ![r].pending = task[t].bytes]
    <3> DEFINE x == [row[r] EXCEPT !.status = "awaiting_approval", !.pending = task[t].bytes]
    <3>1. x \in Row /\ x.status = "awaiting_approval"
      BY <2>1 DEF Row, Statuses, Parked, Task
    <3>2. row' = [row EXCEPT ![r] = x]
      BY <2>2
    <3> HIDE DEF x
    <3> QED
      BY <2>1, <2>2, <3>1, <3>2, WriteKept
  <2> QED
    BY <1>5, <2>1, <2>2, SameRowKept DEF HoldPark
<1>6. CASE RewritePending(t)
  <2>1. r \in Runs /\ row[r] \in Row /\ task[t] \in Task
    BY <1>1, <1>6 DEF RewritePending
  <2> DEFINE x == [row[r] EXCEPT !.pending = task[t].dec]
  <2>2. x \in Row /\ x.status = row[r].status
    BY <2>1 DEF Row, Task
  <2>3. row' = [row EXCEPT ![r] = x]
    BY <1>6 DEF RewritePending
  <2> HIDE DEF x
  <2> QED
    BY <2>1, <2>2, <2>3, WriteKept
<1>7. CASE ResumeRun(t)
  <2>1. r \in Runs /\ row[r] \in Row
    BY <1>1, <1>7 DEF ResumeRun
  <2>2. CASE ~Ended(r)
    <3> DEFINE x == [row[r] EXCEPT !.status = "running", !.pending = None]
    <3>1. x \in Row /\ x.status = "running"
      BY <2>1 DEF Row, Statuses, Parked
    <3>2. row' = [row EXCEPT ![r] = x]
      BY <1>7, <2>2 DEF ResumeRun
    <3> HIDE DEF x
    <3> QED
      BY <2>1, <2>2, <3>1, <3>2, WriteKept
  <2> QED
    BY <1>7, <2>2, SameRowKept DEF ResumeRun
<1> QED
  BY <1>2, <1>3, <1>4, <1>5, <1>6, <1>7 DEF TaskStep

LEMMA ProcRowKept ==
    ASSUME TypeInv, NEW p \in Procs,
           ProcStep(p) \/ Boot(p) \/ Crash(p) \/ Heartbeat(p)
    PROVE  RowKept
<1> USE DEF TypeInv
<1>1. CASE ClaimNext(p)
  <2>1. PICK r \in Runs, n \in Nat, s \in Statuses :
          /\ ~Ended(r) /\ s # "queued"
          /\ row' = [row EXCEPT ![r].owner = p, ![r].lease = "fresh", ![r].attempts = n,
                                ![r].status = s]
    <3>1. PICK r \in Runs :
            /\ Claimable(r)
            /\ row' = [row EXCEPT ![r].owner = p, ![r].lease = "fresh",
                          ![r].attempts = IF row[r].status = "awaiting_approval"
                                          THEN row[r].attempts ELSE row[r].attempts + 1,
                          ![r].status = IF @ = "queued" THEN "running" ELSE @]
      BY <1>1 DEF ClaimNext
    <3> DEFINE n == IF row[r].status = "awaiting_approval"
                    THEN row[r].attempts ELSE row[r].attempts + 1
               s == IF row[r].status = "queued" THEN "running" ELSE row[r].status
    <3>2. n \in Nat /\ s \in Statuses /\ s # "queued"
      BY DEF RowInv, Row, Statuses, Parked
    <3>3. ~Ended(r)
      BY <3>1 DEF Claimable, Ended, Parked, Terminal
    <3>4. row' = [row EXCEPT ![r].owner = p, ![r].lease = "fresh", ![r].attempts = n,
                             ![r].status = s]
      BY <3>1 DEF RowInv, Row
    <3> QED
      BY <3>2, <3>3, <3>4
  <2> DEFINE x == [row[r] EXCEPT !.owner = p, !.lease = "fresh", !.attempts = n, !.status = s]
  <2>2. x \in Row /\ x.status = s
    BY DEF RowInv, Row
  <2>3. row' = [row EXCEPT ![r] = x]
    BY <2>1
  <2> HIDE DEF x
  <2> QED
    BY <2>1, <2>2, <2>3, WriteKept
<1>2. CASE DispatchClaimed(p)
  <2>1. mem[p].hand.run \in Runs
    BY <1>2 DEF DispatchClaimed, MemInv, Memory, Claims
  <2> QED
    BY <1>2, <2>1, EndKept, SameRowKept DEF DispatchClaimed, Terminal
<1>3. ASSUME NEW r \in Runs, ReconcileRun(p, r) PROVE RowKept
  <2>1. CASE row' = [row EXCEPT ![r].owner = p, ![r].lease = "fresh"]
    BY <2>1 DEF RowInv, Row, Ended, RowKept, RowStep
  <2> QED
    BY <1>3, <2>1, EndKept, SameRowKept DEF ReconcileRun, Terminal
<1>4. CASE Boot(p) \/ Crash(p)
  BY <1>4, SameRowKept DEF Boot, Crash
<1>5. CASE Heartbeat(p)
  BY SMTT(40), <1>5 DEF Heartbeat, RowInv, Row, Ended, RowKept, RowStep
<1> QED
  BY <1>1, <1>2, <1>3, <1>4, <1>5 DEF ProcStep

LEMMA RequestRowKept ==
    ASSUME TypeInv, NEW q \in Reqs, RequestStep(q)
    PROVE  RowKept
<1> USE DEF TypeInv
<1>1. CASE CancelWrite(q)
  <2>1. req[q].run \in Runs
    BY <1>1 DEF CancelWrite, ReqInv, Addressed
  <2> QED
    BY <1>1, <2>1, EndKept DEF CancelWrite, Terminal
<1> QED
  BY <1>1, SameRowKept
     DEF RequestStep, DecideCheck, CancelMark, RecordDecision, ResolveWaiter, CancelFails

LEMMA NextRowKept == TypeInv /\ [Next]_vars => RowKept
<1> SUFFICES ASSUME TypeInv, [Next]_vars PROVE RowKept
  OBVIOUS
<1>1. ASSUME NEW r \in Runs, LeaseExpires(r) PROVE RowKept
  BY <1>1 DEF LeaseExpires, TypeInv, RowInv, Row, Ended, RowKept, RowStep
<1>2. CASE Environment
  BY <1>1, <1>2, TaskRowKept, ProcRowKept DEF Environment
<1>3. CASE UNCHANGED vars
  BY <1>3, SameRowKept DEF vars
<1> QED
  BY <1>2, <1>3, TaskRowKept, ProcRowKept, RequestRowKept DEF Next, Rest

\* RL-03 for every fleet: of the writers that race for a run's row - cancel, complete_run,
\* _fail_run, reject_run, start_run, resume_run, hold_gate, claim_next_run - none moves it
\* once it is terminal.
THEOREM TerminalStands == Spec => TerminalIsFinal
<1>1. Spec => []TypeInv
  BY InitTyped, NextTyped, PTL DEF Spec
<1>2. TypeInv /\ [Next]_vars =>
          [\A r \in Runs : Ended(r) => row'[r].status = row[r].status]_vars
  BY NextRowKept DEF RowKept, RowStep
<1> QED
  BY <1>1, <1>2, PTL DEF Spec, TerminalIsFinal

-----------------------------------------------------------------------------
(* The run_gates table: a reject nobody has applied is overwritten by no   *)
(* statement.                                                              *)

Pending(r, g) == gate[r][g].state = "rejected" /\ ~gate[r][g].applied

RejectKept ==
    \A r \in Runs, g \in Gates :
        Pending(r, g) => gate'[r][g].state = "rejected" /\ gate'[r][g].by = gate[r][g].by

LEMMA SameRejectKept == gate' = gate => RejectKept
  BY DEF RejectKept, Pending

\* _claim_gate_decision sets applied_at, and nothing else.
LEMMA AppliedRejectKept ==
    ASSUME GateInv, NEW r \in Runs, NEW g \in Gates, gate' = [gate EXCEPT ![r][g].applied = TRUE]
    PROVE  RejectKept
<1>1. PICK z \in GateRow : z = gate[r][g]
  BY DEF GateInv
<1> DEFINE y == [z EXCEPT !.applied = TRUE]
<1>2. y.state = z.state /\ y.by = z.by /\ gate' = [gate EXCEPT ![r][g] = y]
  BY SMTT(40), <1>1 DEF GateRow
<1> HIDE DEF y
<1> QED
  BY <1>1, <1>2 DEF GateInv, RejectKept, Pending

LEMMA NextRejectKept == TypeInv /\ [Next]_vars => RejectKept
<1> SUFFICES ASSUME TypeInv, [Next]_vars PROVE RejectKept
  OBVIOUS
<1> USE DEF TypeInv
<1>1. ASSUME NEW t \in Tasks, TaskStep(t) PROVE RejectKept
  <2> DEFINE r == task[t].run
             g == NextGate(t)
  <2>1. task[t].pc \in {"claim", "poll", "open"} /\ IsPack(t) => r \in Runs /\ g \in Gates
    BY DEF TaskInv, Proper, HoldingPCs, IsPack, NextGate
  <2>2. CASE HoldClaim(t) \/ WaitClaim(t)
    <3>1. task[t].pc \in {"claim", "poll"} /\ IsPack(t)
      BY <2>2 DEF HoldClaim, WaitClaim, TaskInv, Proper, IsPack
    <3>2. gate' = gate \/ gate' = [gate EXCEPT ![r][g].applied = TRUE]
      BY <2>2 DEF HoldClaim, WaitClaim
    <3> QED
      BY <2>1, <3>1, <3>2, SameRejectKept, AppliedRejectKept
  <2>3. CASE HoldOpen(t)
    <3>1. task[t].pc = "open" /\ IsPack(t)
      BY <2>3 DEF HoldOpen, TaskInv, Proper, IsPack
    <3>2. CASE CanClaim(t)
      BY <2>3, <3>2, SameRejectKept DEF HoldOpen
    <3>3. CASE ~CanClaim(t)
      <4>1. ~Pending(r, g)
        BY <3>3 DEF CanClaim, Pending
      <4> DEFINE y == [NoGateRow EXCEPT !.state = "open", !.sha = task[t].bytes]
      <4>2. gate' = gate \/ gate' = [gate EXCEPT ![r][g] = y]
        BY <2>3 DEF HoldOpen
      <4> HIDE DEF y
      <4> QED
        BY <2>1, <3>1, <4>1, <4>2 DEF GateInv, RejectKept, Pending
    <3> QED
      BY <3>2, <3>3
  <2> QED
    BY <1>1, <2>2, <2>3, SameRejectKept
       DEF TaskStep, Begin, Admit, ExecPack, ExecPrompt, Finish, HoldRegister, HoldPark,
           WaitLocal, WaitSlot, Decided, RewritePending, DispatchGate2, CompleteGate, ResumeRun
<1>2. ASSUME NEW q \in Reqs, RequestStep(q) PROVE RejectKept
  <2>1. CASE RecordDecision(q)
    <3>1. req[q].run \in Runs
      BY <2>1 DEF RecordDecision, ReqInv, Addressed
    <3> DEFINE y(g) == [gate[req[q].run][g] EXCEPT !.state = DecisionState(req[q].kind), !.by = q]
    <3>2. gate' = [gate EXCEPT ![req[q].run] = [g \in Gates |->
              IF gate[req[q].run][g].state = "open" THEN y(g) ELSE gate[req[q].run][g]]]
      BY <2>1 DEF RecordDecision
    <3> HIDE DEF y
    <3> QED
      BY <3>1, <3>2 DEF GateInv, RejectKept, Pending
  <2>2. CASE CancelWrite(q)
    <3>1. req[q].run \in Runs
      BY <2>2 DEF CancelWrite, ReqInv, Addressed
    <3> DEFINE y(g) == [gate[req[q].run][g] EXCEPT !.state = "rejected", !.applied = TRUE]
    <3>2. \/ gate' = gate
          \/ gate' = [gate EXCEPT ![req[q].run] = [g \in Gates |->
              IF gate[req[q].run][g].state = "open" THEN y(g) ELSE gate[req[q].run][g]]]
      BY <2>2 DEF CancelWrite
    <3> HIDE DEF y
    <3> QED
      BY <3>1, <3>2, SameRejectKept DEF GateInv, RejectKept, Pending
  <2> QED
    BY <1>2, <2>1, <2>2, SameRejectKept
       DEF RequestStep, DecideCheck, CancelMark, ResolveWaiter, CancelFails
<1>3. CASE gate' = gate
  BY <1>3, SameRejectKept
<1> QED
  BY ZenonT(60), <1>1, <1>2, <1>3
     DEF Next, ProcStep, ClaimNext, DispatchClaimed, ReconcileRun, Environment, Boot, Crash,
         Heartbeat, LeaseExpires, WaitTimeout, Rest, vars

\* RL-12 for every fleet: no gate that opens, no second decision and no cancel destroys a
\* reject that was recorded and not yet applied, whatever the re-run node wrote.
THEOREM RejectStands == Spec => RejectSticks
<1>1. Spec => []TypeInv
  BY InitTyped, NextTyped, PTL DEF Spec
<1>2. TypeInv /\ [Next]_vars =>
          [\A r \in Runs, g \in Gates :
              gate[r][g].state = "rejected" /\ ~gate[r][g].applied
                  => gate'[r][g].state = "rejected" /\ gate'[r][g].by = gate[r][g].by]_vars
  BY NextRejectKept DEF RejectKept, Pending
<1> QED
  BY <1>1, <1>2, PTL DEF Spec, RejectSticks

-----------------------------------------------------------------------------
(* A prompt run is started once. The claim that found it queued is a       *)
(* licence to start it: process p holds it in its hand, or task t carries  *)
(* it up to start_run. There is at most one, while nothing was started.    *)

FreshHand(p, r) == mem[p].hand # None /\ mem[p].hand.run = r /\ mem[p].hand.first
Starting(t, r)  == task[t].run = r /\ task[t].pc \in {"begin", "admit"}

OneLicence(r) ==
    /\ starts[r] <= 1
    /\ row[r].status = "queued" =>
          /\ starts[r] = 0
          /\ \A p \in Procs : ~FreshHand(p, r)
          /\ \A t \in Tasks : ~Starting(t, r)
    /\ \A p \in Procs : FreshHand(p, r) =>
          /\ starts[r] = 0
          /\ \A x \in Procs : FreshHand(x, r) => x = p
          /\ \A t \in Tasks : ~Starting(t, r)
    /\ \A t \in Tasks : Starting(t, r) =>
          /\ starts[r] = 0
          /\ \A u \in Tasks : Starting(u, r) => u = t

PromptInv == \A r \in Runs \ PackRuns : OneLicence(r)

\* A step that licenses no start of a prompt run and starts none.
HandKept == \A p \in Procs, r \in Runs : FreshHand(p, r)' => FreshHand(p, r)
TaskKept == \A t \in Tasks, r \in Runs \ PackRuns : Starting(t, r)' => Starting(t, r)

LEMMA KeptInv ==
    ASSUME PromptInv, RowKept, HandKept, TaskKept, starts' = starts
    PROVE  PromptInv'
  BY DEF PromptInv, OneLicence, RowKept, RowStep, HandKept, TaskKept

LEMMA SameKept == (mem' = mem => HandKept) /\ (task' = task => TaskKept)
  BY DEF HandKept, TaskKept, FreshHand, Starting

LEMMA GotoKept ==
    ASSUME TaskInv, NEW t \in Tasks, NEW x, task' = [task EXCEPT ![t] = x],
           x.pc \notin {"begin", "admit"} \/ Starting(t, x.run)
    PROVE  TaskKept
  BY DEF TaskInv, TaskKept, Starting

\* The memory of one process changes, and the claim it dispatches does not.
LEMMA MemoryKept ==
    ASSUME MemInv, NEW p \in Procs, NEW m, mem' = [mem EXCEPT ![p] = m],
           m.hand = mem[p].hand \/ m.hand = None
    PROVE  HandKept
  BY DEF MemInv, HandKept, FreshHand

LEMMA LeaveKept ==
    ASSUME TaskInv, MemInv, NEW t \in Tasks, task[t].pc # "idle", NEW m \in Memory,
           Leave(t, m), m.hand = Mine(t).hand
    PROVE  HandKept /\ TaskKept
<1>1. task[t].at \in Procs
  BY DEF TaskInv, Proper
<1>2. TaskKept
  BY GotoKept DEF Leave, NoTask
<1> DEFINE x == [m EXCEPT !.held = @ \ {task[t].run}]
<1>3. x.hand = mem[task[t].at].hand /\ mem' = [mem EXCEPT ![task[t].at] = x]
  BY DEF Leave, Mine, Memory
<1> HIDE DEF x
<1> QED
  BY <1>1, <1>2, <1>3, MemoryKept

\* The parts of a process's memory that a task of it changes leave the hand alone.
LEMMA MineHand ==
    ASSUME TaskInv, MemInv, NEW t \in Tasks, task[t].pc # "idle", NEW r
    PROVE  /\ Forget(Mine(t), r).hand = Mine(t).hand
           /\ Unwait(Mine(t), r).hand = Mine(t).hand
           /\ Unwait(Forget(Mine(t), r), r).hand = Mine(t).hand
  BY DEF TaskInv, Proper, MemInv, Memory, Mine, Forget, Unwait

\* Every step of a task but Admit, and the deadline of a waiter.
LEMMA TaskStepKept ==
    ASSUME TypeInv, NEW t \in Tasks, (TaskStep(t) /\ ~Admit(t)) \/ WaitTimeout(t)
    PROVE  HandKept /\ TaskKept /\ starts' = starts
<1> USE DEF TypeInv
<1> DEFINE r == task[t].run
           m == Mine(t)
           A == m.hand
<1>1. task[t].pc # "idle" =>
        /\ task[t].at \in Procs /\ m = mem[task[t].at] /\ m \in Memory
        /\ Forget(m, r) \in Memory /\ Forget(m, r).hand = A
        /\ Unwait(m, r) \in Memory /\ Unwait(m, r).hand = A
        /\ Unwait(Forget(m, r), r) \in Memory /\ Unwait(Forget(m, r), r).hand = A
  BY MineTyped, MineHand DEF Mine
<1>2. ASSUME task[t].pc # "idle",
             \/ Leave(t, m) \/ Leave(t, Forget(m, r)) \/ Leave(t, Unwait(m, r))
             \/ Leave(t, Unwait(Forget(m, r), r))
      PROVE  HandKept /\ TaskKept
  BY <1>1, <1>2, LeaveKept
<1>3. ASSUME NEW pc, pc \notin {"begin", "admit"}, Goto(t, pc) PROVE TaskKept
  <2> DEFINE x == [task[t] EXCEPT !.pc = pc]
  <2>1. x.pc = pc
    BY DEF TaskInv, Task
  <2> QED
    BY <1>3, <2>1, GotoKept DEF Goto
<1>4. CASE Begin(t)
  <2>1. ASSUME Goto(t, "admit") PROVE TaskKept
    <3> DEFINE x == [task[t] EXCEPT !.pc = "admit"]
    <3>1. Starting(t, x.run)
      BY <1>4 DEF Begin, TaskInv, Task, Starting
    <3> QED
      BY <2>1, <3>1, GotoKept DEF Goto
  <2> QED
    BY <1>2, <1>3, <1>4, <2>1, SameKept DEF Begin, histVars
<1>5. CASE ExecPack(t) \/ ExecPrompt(t)
  <2>1. task[t].pc = "exec" /\ starts' = starts
    BY <1>5 DEF ExecPack, ExecPrompt, histVars
  <2>2. ASSUME NEW d, NEW b, task' = [task EXCEPT ![t] =
                 [@ EXCEPT !.pc = "claim", !.done = d, !.bytes = b, !.dec = None]]
        PROVE  TaskKept
    <3> DEFINE x == [task[t] EXCEPT !.pc = "claim", !.done = d, !.bytes = b, !.dec = None]
    <3>1. x.pc = "claim"
      BY DEF TaskInv, Task
    <3> QED
      BY <2>2, <3>1, GotoKept
  <2>3. ASSUME NEW d, NEW b, task' = [task EXCEPT ![t] =
                 [@ EXCEPT !.pc = "register", !.done = d, !.bytes = b, !.dec = None]]
        PROVE  TaskKept
    <3> DEFINE x == [task[t] EXCEPT !.pc = "register", !.done = d, !.bytes = b, !.dec = None]
    <3>1. x.pc = "register"
      BY DEF TaskInv, Task
    <3> QED
      BY <2>3, <3>1, GotoKept
  <2>4. ASSUME NEW d, task' = [task EXCEPT ![t] = [@ EXCEPT !.pc = "finish", !.done = d]]
        PROVE  TaskKept
    <3> DEFINE x == [task[t] EXCEPT !.pc = "finish", !.done = d]
    <3>1. x.pc = "finish"
      BY DEF TaskInv, Task
    <3> QED
      BY <2>4, <3>1, GotoKept
  <2>5. CASE UNCHANGED mem
    BY <1>5, <1>2, <2>1, <2>2, <2>3, <2>4, <2>5, SameKept DEF ExecPack, ExecPrompt
  <2>6. CASE Leave(t, m) \/ Leave(t, Forget(m, r))
    BY <1>2, <2>1, <2>6
  <2> QED
    BY <1>5, <2>5, <2>6 DEF ExecPack, ExecPrompt
<1>6. CASE Finish(t) \/ WaitTimeout(t)
  BY <1>2, <1>6 DEF Finish, WaitTimeout, histVars
<1>7. CASE HoldClaim(t)
  <2>1. ASSUME NEW q, task' = [task EXCEPT ![t] = [@ EXCEPT !.pc = "register", !.dec = q]]
        PROVE  TaskKept
    <3> DEFINE x == [task[t] EXCEPT !.pc = "register", !.dec = q]
    <3>1. x.pc = "register"
      BY DEF TaskInv, Task
    <3> QED
      BY <2>1, <3>1, GotoKept
  <2> QED
    BY <1>3, <1>7, <2>1, SameKept DEF HoldClaim, histVars
<1>8. CASE HoldRegister(t)
  <2>1. CASE Leave(t, Unwait(Forget(m, r), r))
    BY <1>2, <1>8, <2>1 DEF HoldRegister, histVars
  <2>2. CASE /\ mem' = [mem EXCEPT ![task[t].at].waiting = @ \cup {r}]
             /\ Goto(t, "park")
    <3> DEFINE n == [m EXCEPT !.waiting = @ \cup {r}]
    <3>1. n.hand = m.hand /\ mem' = [mem EXCEPT ![task[t].at] = n]
      BY <1>1, <1>8, <2>2 DEF HoldRegister, Memory, Mine
    <3> HIDE DEF n
    <3>2. HandKept
      BY <1>1, <1>8, <3>1, MemoryKept DEF HoldRegister
    <3> QED
      BY <1>3, <1>8, <2>2, <3>2 DEF HoldRegister, histVars
  <2> QED
    BY <1>8, <2>1, <2>2 DEF HoldRegister
<1>9. CASE HoldPark(t) \/ WaitSlot(t)
  <2>1. task[t].pc # "idle" /\ starts' = starts
    BY <1>9 DEF HoldPark, WaitSlot, histVars
  <2>2. ASSUME mem' = [mem EXCEPT ![task[t].at] = Unwait(@, r)] PROVE HandKept
    <3>1. mem' = [mem EXCEPT ![task[t].at] = Unwait(m, r)]
      BY <2>2 DEF Mine
    <3> QED
      BY <1>1, <2>1, <3>1, MemoryKept
  <2> QED
    BY <1>2, <1>3, <1>9, <2>1, <2>2, SameKept DEF HoldPark, WaitSlot
<1>10. CASE HoldOpen(t) \/ RewritePending(t)
  BY <1>3, <1>10, SameKept DEF HoldOpen, RewritePending, histVars
<1>11. CASE WaitClaim(t) \/ WaitLocal(t)
  <2>1. task[t].pc # "idle" /\ starts' = starts
    BY <1>11 DEF WaitClaim, WaitLocal, histVars
  <2>2. ASSUME NEW q, NEW n, Decide(t, q, n), n = [m EXCEPT !.decided[r] = None]
        PROVE  HandKept /\ TaskKept
    <3>1. n.hand = A /\ Unwait(n, r).hand = A
      BY <1>1, <2>1, <2>2 DEF Unwait, Memory
    <3>2. HandKept
      BY <1>1, <2>1, <2>2, <3>1, MemoryKept DEF Decide
    <3> DEFINE pc == IF req[q].kind = "reject" THEN "decided" ELSE "slot"
               x == [task[t] EXCEPT !.pc = pc, !.dec = q]
    <3>3. x.pc = pc /\ pc \notin {"begin", "admit"}
      BY DEF TaskInv, Task
    <3> HIDE DEF pc
    <3>4. TaskKept
      BY <2>2, <3>3, GotoKept DEF Decide, pc
    <3> QED
      BY <3>2, <3>4
  <2>3. CASE WaitClaim(t)
    BY <1>3, <2>1, <2>2, <2>3, SameKept DEF WaitClaim
  <2>4. CASE WaitLocal(t)
    BY <1>2, <1>3, <2>1, <2>2, <2>4, SameKept DEF WaitLocal
  <2> QED
    BY <1>11, <2>3, <2>4
<1>12. CASE Decided(t) \/ DispatchGate2(t)
  BY <1>2, <1>3, <1>12, SameKept DEF Decided, DispatchGate2, histVars
<1>13. CASE CompleteGate(t) \/ ResumeRun(t)
  <2>1. ASSUME NEW pc \in {"resume", "exec"}, NEW d,
               task' = [task EXCEPT ![t] = [@ EXCEPT !.pc = pc, !.done = d]]
        PROVE  TaskKept
    <3> DEFINE x == [task[t] EXCEPT !.pc = pc, !.done = d]
    <3>1. x.pc = pc
      BY DEF TaskInv, Task
    <3> QED
      BY <2>1, <3>1, GotoKept
  <2> QED
    BY <1>13, <2>1, SameKept DEF CompleteGate, ResumeRun, histVars
<1> QED
  BY <1>4, <1>5, <1>6, <1>7, <1>8, <1>9, <1>10, <1>11, <1>12, <1>13 DEF TaskStep

\* start_run uses the licence of its task up.
LEMMA AdmitPrompt ==
    ASSUME TypeInv, PromptInv, NEW t \in Tasks, Admit(t)
    PROVE  PromptInv'
<1> USE DEF TypeInv
<1>0. PICK r \in Runs : r = task[t].run
  BY MineTyped DEF Admit
<1>1. r \in Runs /\ Starting(t, r) /\ Mine(t) \in Memory /\ RowKept
  BY <1>0, MineTyped, TaskRowKept DEF Admit, Starting, TaskStep
<1>2. CASE Leave(t, Mine(t)) /\ UNCHANGED starts
  BY <1>1, <1>2, LeaveKept, KeptInv DEF Admit
<1>3. CASE starts' = [starts EXCEPT ![r] = @ + 1] /\ Goto(t, "exec") /\ UNCHANGED mem
  <2>1. HandKept
    BY <1>3, SameKept
  <2>2. TaskKept /\ ~Starting(t, r)'
    <3> DEFINE x == [task[t] EXCEPT !.pc = "exec"]
    <3>1. x.pc = "exec"
      BY DEF TaskInv, Task
    <3>2. task' = [task EXCEPT ![t] = x]
      BY <1>3 DEF Goto
    <3> HIDE DEF x
    <3> QED
      BY <3>1, <3>2, GotoKept DEF TaskInv, Starting
  <2>3. ASSUME NEW s \in Runs \ PackRuns, s # r PROVE OneLicence(s)'
    BY <1>1, <1>3, <2>1, <2>2, <2>3
       DEF PromptInv, OneLicence, RowKept, RowStep, HandKept, TaskKept, RestInv
  <2>4. ASSUME r \in Runs \ PackRuns PROVE OneLicence(r)'
    <3>1. /\ starts[r] = 0 /\ row[r].status # "queued"
          /\ \A p \in Procs : ~FreshHand(p, r)
          /\ \A u \in Tasks : Starting(u, r) => u = t
      BY <1>1, <2>4 DEF PromptInv, OneLicence
    <3>2. starts'[r] = 1
      BY <1>1, <1>3, <3>1 DEF RestInv
    <3>3. row'[r].status # "queued"
      BY <1>1, <3>1 DEF RowKept, RowStep
    <3>4. \A p \in Procs : ~FreshHand(p, r)'
      BY <1>1, <2>1, <3>1 DEF HandKept
    <3>5. \A u \in Tasks : ~Starting(u, r)'
      BY <2>2, <2>4, <3>1 DEF TaskKept
    <3> QED
      BY <3>2, <3>3, <3>4, <3>5 DEF OneLicence
  <2> QED
    BY <2>3, <2>4 DEF PromptInv
<1> QED
  BY <1>0, <1>2, <1>3 DEF Admit

\* A claim that finds the row queued is the licence, if it is a prompt run's.
LEMMA ClaimNextPrompt ==
    ASSUME TypeInv, PromptInv, NEW p \in Procs, ClaimNext(p)
    PROVE  PromptInv'
<1> USE DEF TypeInv
<1> DEFINE tries(r) == IF row[r].status = "awaiting_approval" THEN row[r].attempts
                       ELSE row[r].attempts + 1
<1>0. PICK r \in Runs :
        /\ Claimable(r)
        /\ row' = [row EXCEPT ![r].owner = p, ![r].lease = "fresh", ![r].attempts = tries(r),
                              ![r].status = IF @ = "queued" THEN "running" ELSE @]
        /\ mem' = [mem EXCEPT ![p].hand = [run |-> r, first |-> row[r].status = "queued",
                                           attempts |-> tries(r)]]
  BY DEF ClaimNext
<1> DEFINE n == tries(r)
<1> HIDE DEF tries
<1>1. /\ Claimable(r)
      /\ row' = [row EXCEPT ![r].owner = p, ![r].lease = "fresh", ![r].attempts = n,
                            ![r].status = IF @ = "queued" THEN "running" ELSE @]
      /\ mem' = [mem EXCEPT ![p].hand = [run |-> r, first |-> row[r].status = "queued",
                                         attempts |-> n]]
  BY <1>0
<1> HIDE DEF n
<1>2. starts' = starts /\ TaskKept /\ RowKept
  BY SameKept, ProcRowKept DEF ClaimNext, ProcStep, histVars
<1>3. row'[r].status # "queued"
  <2> DEFINE s == IF row[r].status = "queued" THEN "running" ELSE row[r].status
             x == [row[r] EXCEPT !.owner = p, !.lease = "fresh", !.attempts = n, !.status = s]
  <2>1. row[r] \in Row
    BY DEF RowInv
  <2>2. x.status = s /\ s # "queued"
    BY <2>1 DEF Row
  <2>3. row' = [row EXCEPT ![r] = x]
    BY <1>1
  <2> HIDE DEF x
  <2> QED
    BY <2>2, <2>3 DEF RowInv
<1>4. /\ FreshHand(p, r)' => row[r].status = "queued"
      /\ \A s \in Runs : s # r => ~FreshHand(p, s)'
      /\ \A x \in Procs, s \in Runs : x # p => (FreshHand(x, s)' => FreshHand(x, s))
  <2> DEFINE c == [run |-> r, first |-> row[r].status = "queued", attempts |-> n]
             m == [mem[p] EXCEPT !.hand = c]
  <2>1. m.hand = c
    BY DEF MemInv, Memory
  <2>2. c.run = r /\ c.first = (row[r].status = "queued")
    OBVIOUS
  <2>3. mem' = [mem EXCEPT ![p] = m]
    BY <1>1
  <2> HIDE DEF m, c
  <2> QED
    BY <2>1, <2>2, <2>3 DEF MemInv, FreshHand
<1>5. ASSUME NEW s \in Runs \ PackRuns PROVE OneLicence(s)'
  <2>1. CASE s # r
    BY <1>2, <1>4, <2>1 DEF PromptInv, OneLicence, RowKept, RowStep, TaskKept
  <2>2. CASE s = r /\ row[r].status = "queued"
    <3>1. /\ starts[r] = 0 /\ \A x \in Procs : ~FreshHand(x, r)
          /\ \A t \in Tasks : ~Starting(t, r)
      BY <2>2 DEF PromptInv, OneLicence
    <3>2. /\ starts'[r] = 0 /\ \A x \in Procs : FreshHand(x, r)' => x = p
          /\ \A t \in Tasks : ~Starting(t, r)'
      BY <1>2, <1>4, <2>2, <3>1 DEF TaskKept
    <3> QED
      BY <1>3, <2>2, <3>2 DEF OneLicence
  <2>3. CASE s = r /\ row[r].status # "queued"
    <3>1. \A x \in Procs : FreshHand(x, r)' => FreshHand(x, r)
      BY <1>4, <2>3
    <3> QED
      BY <1>2, <1>3, <2>3, <3>1 DEF PromptInv, OneLicence, TaskKept
  <2> QED
    BY <2>1, <2>2, <2>3
<1> QED
  BY <1>5 DEF PromptInv

\* A task of a prompt run is spawned by a claim that is the licence only: dispatch_claimed
\* fails the other claims of it, and reconcile_gates spawns pack runs.
LEMMA DispatchClaimedPrompt ==
    ASSUME TypeInv, PromptInv, NEW p \in Procs, DispatchClaimed(p)
    PROVE  PromptInv'
<1> USE DEF TypeInv
<1> DEFINE c == mem[p].hand
<1>0. PICK r \in Runs : r = c.run
  BY DEF DispatchClaimed, MemInv, Memory, Claims
<1>1. c # None /\ starts' = starts /\ RowKept
  BY ProcRowKept DEF DispatchClaimed, ProcStep, histVars, MemInv, Memory, Claims
<1>2. HandKept /\ \A s \in Runs : ~FreshHand(p, s)'
  <2>1. PICK m : mem' = [mem EXCEPT ![p] = m] /\ m.hand = None
    <3>1. CASE mem' = [mem EXCEPT ![p].hand = None]
      <4> DEFINE m == [mem[p] EXCEPT !.hand = None]
      <4>1. m.hand = None
        BY DEF MemInv, Memory
      <4> QED
        BY <3>1, <4>1
    <3>2. CASE mem' = [mem EXCEPT ![p].hand = None, ![p].held = @ \cup {r}]
      <4> DEFINE m == [mem[p] EXCEPT !.hand = None, !.held = mem[p].held \cup {r}]
      <4>1. m.hand = None
        BY DEF MemInv, Memory
      <4>2. mem' = [mem EXCEPT ![p] = m]
        BY <3>2 DEF MemInv, Memory
      <4> QED
        BY <4>1, <4>2
    <3> QED
      BY <1>0, <3>1, <3>2 DEF DispatchClaimed
  <2> QED
    BY <2>1, MemoryKept DEF MemInv, FreshHand
<1>3. CASE UNCHANGED task
  BY <1>1, <1>2, <1>3, SameKept, KeptInv
<1>4. CASE ~Refused(c) /\ \E t \in Tasks : Spawn(t, p, r)
  <2>1. PICK t \in Tasks : Spawn(t, p, r)
    BY <1>4
  <2>2. /\ \A u \in Tasks, s \in Runs : u # t => (Starting(u, s)' => Starting(u, s))
        /\ \A s \in Runs : Starting(t, s)' => s = r
    <3> DEFINE x == [NoTask EXCEPT !.pc = "begin", !.run = r, !.at = p]
    <3>1. x.run = r
      BY DEF NoTask
    <3>2. task' = [task EXCEPT ![t] = x]
      BY <2>1 DEF Spawn
    <3> HIDE DEF x
    <3> QED
      BY <3>1, <3>2 DEF TaskInv, Starting
  <2>3. ASSUME NEW s \in Runs \ PackRuns, s # r PROVE OneLicence(s)'
    BY <1>1, <1>2, <2>2, <2>3 DEF PromptInv, OneLicence, RowKept, RowStep, HandKept
  <2>4. ASSUME r \notin PackRuns PROVE OneLicence(r)'
    <3>1. FreshHand(p, r)
      BY <1>0, <1>1, <1>4, <2>4 DEF Refused, FreshHand
    <3>2. /\ starts[r] = 0 /\ row[r].status # "queued"
          /\ \A x \in Procs : FreshHand(x, r) => x = p
          /\ \A u \in Tasks : ~Starting(u, r)
      BY <1>1, <2>4, <3>1 DEF PromptInv, OneLicence
    <3>3. \A x \in Procs : ~FreshHand(x, r)'
      BY <1>1, <1>2, <3>2 DEF HandKept
    <3>4. \A u \in Tasks : Starting(u, r)' => u = t
      BY <1>1, <2>2, <3>2
    <3>5. row'[r].status # "queued"
      BY <1>1, <3>2 DEF RowKept, RowStep
    <3> QED
      BY <1>1, <3>2, <3>3, <3>4, <3>5 DEF OneLicence
  <2> QED
    BY <2>3, <2>4 DEF PromptInv
<1> QED
  BY <1>0, <1>3, <1>4 DEF DispatchClaimed

LEMMA ReconcileRunPrompt ==
    ASSUME TypeInv, PromptInv, NEW p \in Procs, NEW r \in Runs, ReconcileRun(p, r)
    PROVE  PromptInv'
<1> USE DEF TypeInv
<1>1. starts' = starts /\ RowKept
  BY ProcRowKept DEF ReconcileRun, ProcStep, histVars
<1>2. HandKept
  <2>1. CASE mem' = [mem EXCEPT ![p].recon = @ \ {r}]
    <3> DEFINE m == [mem[p] EXCEPT !.recon = @ \ {r}]
    <3>1. m.hand = mem[p].hand
      BY DEF MemInv, Memory
    <3> QED
      BY <2>1, <3>1, MemoryKept
  <2>2. CASE mem' = [mem EXCEPT ![p].recon = @ \ {r}, ![p].held = @ \cup {r}]
    <3> DEFINE m == [mem[p] EXCEPT !.recon = mem[p].recon \ {r}, !.held = mem[p].held \cup {r}]
    <3>1. m.hand = mem[p].hand
      BY DEF MemInv, Memory
    <3>2. mem' = [mem EXCEPT ![p] = m]
      BY <2>2 DEF MemInv, Memory
    <3> QED
      BY <3>1, <3>2, MemoryKept
  <2> QED
    BY <2>1, <2>2 DEF ReconcileRun
<1>3. TaskKept
  <2>1. ASSUME r \in PackRuns, NEW t \in Tasks, Spawn(t, p, r) PROVE TaskKept
    <3> DEFINE x == [NoTask EXCEPT !.pc = "begin", !.run = r, !.at = p]
    <3>1. x.run = r /\ task' = [task EXCEPT ![t] = x]
      BY <2>1 DEF Spawn, NoTask
    <3> HIDE DEF x
    <3> QED
      BY <2>1, <3>1 DEF TaskInv, TaskKept, Starting
  <2> QED
    BY <2>1, SameKept DEF ReconcileRun
<1> QED
  BY <1>1, <1>2, <1>3, KeptInv

LEMMA EnvironmentPrompt ==
    ASSUME TypeInv, PromptInv, Environment
    PROVE  PromptInv'
<1> USE DEF TypeInv
<1>1. ASSUME NEW p \in Procs, Boot(p) PROVE PromptInv'
  <2> DEFINE m == [mem[p] EXCEPT !.recon = {r \in Runs : row[r].status = "awaiting_approval"}]
  <2>1. m.hand = mem[p].hand /\ mem' = [mem EXCEPT ![p] = m]
    BY <1>1 DEF Boot, MemInv, Memory
  <2> HIDE DEF m
  <2>2. HandKept
    BY <2>1, MemoryKept
  <2> QED
    BY <1>1, <2>2, ProcRowKept, SameKept, KeptInv DEF Boot, histVars
<1>2. ASSUME NEW p \in Procs, Crash(p) PROVE PromptInv'
  <2>1. HandKept
    <3>1. Blank.hand = None /\ mem' = [mem EXCEPT ![p] = Blank]
      BY <1>2 DEF Crash, Blank
    <3> QED
      BY <3>1, MemoryKept
  <2>2. TaskKept
    <3>1. NoTask.pc = "idle"
      BY DEF NoTask
    <3> QED
      BY <1>2, <3>1 DEF Crash, TaskKept, Starting
  <2> QED
    BY <1>2, <2>1, <2>2, ProcRowKept, KeptInv DEF Crash, histVars
<1>3. ASSUME NEW p \in Procs, Heartbeat(p) PROVE PromptInv'
  <2> DEFINE C == mem[p].cancelled \cup {r \in mem[p].held : row[r].status = "canceled"}
             m == [mem[p] EXCEPT !.cancelled = C]
  <2>1. m.hand = mem[p].hand /\ mem' = [mem EXCEPT ![p] = m]
    BY <1>3 DEF Heartbeat, MemInv, Memory
  <2> HIDE DEF m
  <2>2. HandKept
    BY <2>1, MemoryKept
  <2> QED
    BY <1>3, <2>2, ProcRowKept, SameKept, KeptInv DEF Heartbeat, histVars
<1>4. ASSUME NEW r \in Runs, LeaseExpires(r) PROVE PromptInv'
  <2>1. RowKept
    BY <1>4, NextRowKept DEF Next, Environment
  <2> QED
    BY <1>4, <2>1, SameKept, KeptInv DEF LeaseExpires, histVars
<1>5. ASSUME NEW t \in Tasks, WaitTimeout(t) PROVE PromptInv'
  BY <1>5, TaskStepKept, TaskRowKept, KeptInv
<1> QED
  BY <1>1, <1>2, <1>3, <1>4, <1>5 DEF Environment

LEMMA RequestPrompt ==
    ASSUME TypeInv, PromptInv, NEW q \in Reqs, RequestStep(q)
    PROVE  PromptInv'
<1> USE DEF TypeInv
<1>1. RowKept /\ starts' = starts /\ TaskKept
  BY RequestRowKept, SameKept
     DEF RequestStep, DecideCheck, CancelMark, RecordDecision, ResolveWaiter, CancelWrite,
         CancelFails, histVars
<1>2. CASE ResolveWaiter(q)
  <2> DEFINE at == req[q].at
             m == [mem[at] EXCEPT !.decided[req[q].run] = q]
  <2>1. at \in Procs
    BY <1>2 DEF ResolveWaiter, ReqInv, Addressed
  <2>2. m.hand = mem[at].hand
    BY <2>1 DEF MemInv, Memory
  <2>3. mem' = mem \/ mem' = [mem EXCEPT ![at] = m]
    BY <1>2 DEF ResolveWaiter
  <2> HIDE DEF m
  <2>4. HandKept
    BY <2>1, <2>2, <2>3, MemoryKept, SameKept
  <2> QED
    BY <1>1, <2>4, KeptInv
<1>3. ASSUME NEW p \in Procs, NEW r \in Runs, CancelMark(q, p, r) PROVE PromptInv'
  <2> DEFINE m == [mem[p] EXCEPT !.cancelled = @ \cup {r}]
  <2>1. m.hand = mem[p].hand /\ mem' = [mem EXCEPT ![p] = m]
    BY <1>3 DEF CancelMark, MemInv, Memory
  <2> HIDE DEF m
  <2>2. HandKept
    BY <2>1, MemoryKept
  <2> QED
    BY <1>1, <2>2, KeptInv
<1>4. CASE mem' = mem
  BY <1>1, <1>4, SameKept, KeptInv
<1> QED
  BY ZenonT(60), <1>2, <1>3, <1>4
     DEF RequestStep, DecideCheck, RecordDecision, CancelWrite, CancelFails

LEMMA InitPrompt == Init => PromptInv
<1> SUFFICES ASSUME Init, NEW r \in Runs \ PackRuns PROVE OneLicence(r)
  BY DEF PromptInv
<1>1. starts[r] = 0
  BY DEF Init
<1>2. \A p \in Procs : ~FreshHand(p, r)
  BY DEF Init, Blank, FreshHand
<1>3. \A t \in Tasks : ~Starting(t, r)
  BY DEF Init, NoTask, Starting
<1> QED
  BY <1>1, <1>2, <1>3 DEF OneLicence

LEMMA NextPrompt == TypeInv /\ PromptInv /\ [Next]_vars => PromptInv'
<1> SUFFICES ASSUME TypeInv, PromptInv, [Next]_vars PROVE PromptInv'
  OBVIOUS
<1>1. ASSUME NEW t \in Tasks, TaskStep(t) PROVE PromptInv'
  BY <1>1, AdmitPrompt, TaskStepKept, TaskRowKept, KeptInv
<1>2. ASSUME NEW p \in Procs, ProcStep(p) PROVE PromptInv'
  BY <1>2, ClaimNextPrompt, DispatchClaimedPrompt, ReconcileRunPrompt DEF ProcStep
<1>3. CASE UNCHANGED vars
  BY <1>3, SameRowKept, SameKept, KeptInv DEF vars, histVars
<1> QED
  BY <1>1, <1>2, <1>3, RequestPrompt, EnvironmentPrompt DEF Next, Rest

\* However many processes claim, stall, die and reclaim, no prompt run is started by two
\* executors: dispatch_claimed starts one only on the claim that found its row queued,
\* and claim_next_run makes that claim once.
THEOREM PromptStartsOnce == Spec => []PromptExecutesOnce
<1>1. Spec => []TypeInv
  BY InitTyped, NextTyped, PTL DEF Spec
<1>2. Spec => []PromptInv
  BY <1>1, InitPrompt, NextPrompt, PTL DEF Spec
<1>3. PromptInv => PromptExecutesOnce
  BY DEF PromptInv, OneLicence, PromptExecutesOnce
<1> QED
  BY <1>2, <1>3, PTL

-----------------------------------------------------------------------------
(* One process at a time whose leases hold: a run has one executor, and no *)
(* more starts than attempts, as long as every resumption took it over.    *)

\* The deployment: a process boots when no other is up, and a live process that holds a run
\* beats before its leases expire.
OneProcess == MaxUp = 1 /\ ~Stalls /\ IsFiniteSet(Procs)

OneUp == \A p, q \in Procs : Live(p) /\ Live(q) => p = q

\* A run that is being served has left the queue, and while it has not ended its lease
\* is that of its process and cannot be claimed.
Served(r, p) ==
    /\ row[r].status # "queued"
    /\ row[r].status \in Parked => row[r].owner = p /\ row[r].lease = "fresh"

Running(t)  == task[t].pc # "idle"
Executed(r) == \E t \in Tasks : Running(t) /\ task[t].run = r

\* A coroutine runs on a live process that is done reconciling its run, and that holds the
\* run unless it failed to take it over.
Placed(t) ==
    Running(t) =>
        /\ Live(task[t].at)
        /\ task[t].run \notin mem[task[t].at].recon
        /\ Stamped(task[t].run) => /\ task[t].run \in mem[task[t].at].held
                                   /\ Served(task[t].run, task[t].at)

\* Only a live process reconciles; a claim that is being dispatched comes after that, and
\* is the only thing that is done about its run, unless that was not taken over.
Handed(p) ==
    /\ mem[p].recon # {} => Live(p)
    /\ mem[p].hand # None =>
        /\ Live(p)
        /\ mem[p].recon = {}
        /\ Stamped(mem[p].hand.run) => /\ Served(mem[p].hand.run, p)
                                       /\ ~Executed(mem[p].hand.run)

SoleInv ==
    /\ OneUp
    /\ OneExecutor
    /\ \A t \in Tasks : Placed(t)
    /\ \A p \in Procs : Handed(p)

\* What a coroutine does to the rows: to its own only, and neither claim nor attempts.
RowFrame(r) ==
    /\ \A s \in Runs : /\ row'[s].owner = row[s].owner
                       /\ row'[s].lease = row[s].lease
                       /\ row'[s].attempts = row[s].attempts
    /\ \A s \in Runs \ {r} : row'[s] = row[s]

\* To the memory of the processes: when it ends, its own no longer holds the run.
MemFrame(t) ==
    \A p \in Procs :
        /\ mem'[p].recon = mem[p].recon
        /\ mem'[p].hand = mem[p].hand
        /\ \/ mem'[p].held = mem[p].held
           \/ /\ p = task[t].at
              /\ ~Running(t)'
              /\ mem'[p].held = mem[p].held \ {task[t].run}

\* The steps that lead to, or are part of, the waiting for a decision.
WaitPCs  == {"open", "poll", "local"}
Waits(t) == HoldPark(t) \/ HoldOpen(t) \/ WaitClaim(t) \/ WaitLocal(t)

\* To the coroutines: it ends, or goes on with the same run, past its beginning or to the
\* admission.
TaskFrame(t) ==
    /\ \A u \in Tasks \ {t} : task'[u] = task[u]
    /\ Running(t)' => task'[t].run = task[t].run /\ task'[t].at = task[t].at
    /\ task'[t].pc # "begin"
    /\ task'[t].pc = "admit" => Begin(t)
    /\ task'[t].pc \in WaitPCs => Waits(t)

\* A failure that was passed over stays on record.
LEMMA LapsesGrow == [Next]_vars => lapses \subseteq lapses'
<1> SUFFICES ASSUME [Next]_vars PROVE lapses \subseteq lapses'
  OBVIOUS
<1>1. ASSUME NEW t \in Tasks, TaskStep(t) \/ WaitTimeout(t) PROVE lapses \subseteq lapses'
  BY <1>1 DEF TaskStep, WaitTimeout, Begin, Admit, ExecPack, ExecPrompt, Finish, HoldClaim,
         HoldRegister, HoldPark, HoldOpen, WaitClaim, WaitLocal, WaitSlot, Decided,
         RewritePending, DispatchGate2, CompleteGate, ResumeRun, Lapse, histVars
<1>2. ASSUME NEW p \in Procs, ProcStep(p) \/ Boot(p) \/ Crash(p) \/ Heartbeat(p)
      PROVE  lapses \subseteq lapses'
  BY <1>2 DEF ProcStep, Boot, Crash, Heartbeat, ClaimNext, DispatchClaimed, ReconcileRun, Lapse, histVars
<1>3. ASSUME NEW q \in Reqs, RequestStep(q) PROVE lapses \subseteq lapses'
  BY <1>3 DEF RequestStep, DecideCheck, CancelMark, RecordDecision, ResolveWaiter, CancelWrite,
         CancelFails, histVars
<1>4. ASSUME NEW r \in Runs, LeaseExpires(r) PROVE lapses \subseteq lapses'
  BY <1>4 DEF LeaseExpires, histVars
<1>5. CASE UNCHANGED vars \/ Rest
  BY <1>5 DEF Rest, vars
<1> QED
  BY <1>1, <1>2, <1>3, <1>4, <1>5 DEF Next, Environment

LEMMA SameFrames ==
    ASSUME NEW t \in Tasks, NEW r
    PROVE  (row' = row => RowFrame(r)) /\ (mem' = mem => MemFrame(t))
  BY DEF RowFrame, MemFrame

LEMMA EndFrame ==
    ASSUME RowInv, NEW r \in Runs, NEW s, End(r, s)
    PROVE  RowFrame(r)
  BY DEF RowInv, Row, End, RowFrame

LEMMA WriteFrame ==
    ASSUME RowInv, NEW r \in Runs, NEW s, NEW y,
           \/ row' = [row EXCEPT ![r].status = s]
           \/ row' = [row EXCEPT ![r].status = s, ![r].pending = y]
           \/ row' = [row EXCEPT ![r].pending = y]
    PROVE  RowFrame(r)
  BY DEF RowInv, Row, RowFrame

LEMMA GotoFrame ==
    ASSUME TaskInv, NEW t \in Tasks, NEW x \in Task, task' = [task EXCEPT ![t] = x],
           x.run = task[t].run, x.at = task[t].at, x.pc \notin {"begin", "admit"},
           x.pc \in WaitPCs => Waits(t)
    PROVE  TaskFrame(t)
  BY DEF TaskInv, TaskFrame, Running

LEMMA MemoryFrame ==
    ASSUME TypeInv, NEW t \in Tasks, Running(t), NEW m,
           m.recon = Mine(t).recon, m.hand = Mine(t).hand, m.held = Mine(t).held,
           mem' = [mem EXCEPT ![task[t].at] = m]
    PROVE  MemFrame(t)
<1>1. task[t].at \in Procs
  BY MineTyped DEF TypeInv, Running
<1> QED
  BY <1>1 DEF TypeInv, MemInv, MemFrame, Mine

LEMMA LeaveFrame ==
    ASSUME TypeInv, NEW t \in Tasks, Running(t), NEW m \in Memory, Leave(t, m),
           m.recon = Mine(t).recon, m.hand = Mine(t).hand, m.held = Mine(t).held
    PROVE  MemFrame(t) /\ TaskFrame(t)
<1> DEFINE r == task[t].run
           n == [m EXCEPT !.held = @ \ {r}]
<1>1. n.recon = m.recon /\ n.hand = m.hand /\ n.held = m.held \ {r}
  BY DEF Memory
<1>2. task[t].at \in Procs
  BY MineTyped DEF TypeInv, Running
<1>3. mem' = [mem EXCEPT ![task[t].at] = n] /\ task' = [task EXCEPT ![t] = NoTask]
  BY DEF Leave
<1> HIDE DEF n
<1>4. task'[t] = NoTask /\ NoTask.pc = "idle" /\ \A u \in Tasks \ {t} : task'[u] = task[u]
  BY <1>3 DEF TypeInv, TaskInv, NoTask
<1>5. ~Running(t)'
  BY <1>4 DEF Running
<1> QED
  BY <1>1, <1>2, <1>3, <1>4, <1>5 DEF TypeInv, MemInv, MemFrame, TaskFrame, Mine, Running, WaitPCs

LEMMA MineFrame ==
    ASSUME TypeInv, NEW t \in Tasks, Running(t)
    PROVE  \A m \in {Mine(t), Forget(Mine(t), task[t].run), Unwait(Mine(t), task[t].run),
                     Unwait(Forget(Mine(t), task[t].run), task[t].run)} :
               /\ m \in Memory /\ m.recon = Mine(t).recon
               /\ m.hand = Mine(t).hand /\ m.held = Mine(t).held
<1> DEFINE r == task[t].run
<1>1. PICK m \in Memory : m = Mine(t)
  BY MineTyped DEF TypeInv, Running
<1>2. /\ Forget(m, r).recon = m.recon /\ Forget(m, r).hand = m.hand /\ Forget(m, r).held = m.held
      /\ Unwait(m, r).recon = m.recon /\ Unwait(m, r).hand = m.hand /\ Unwait(m, r).held = m.held
  BY DEF Forget, Unwait, Memory
<1>3. /\ Unwait(Forget(m, r), r).recon = m.recon
      /\ Unwait(Forget(m, r), r).hand = m.hand
      /\ Unwait(Forget(m, r), r).held = m.held
  BY DEF Forget, Unwait, Memory
<1> QED
  BY <1>1, <1>2, <1>3, MineTyped DEF TypeInv, Running

\* Every step of a coroutine keeps to its run and its process.
LEMMA TaskStepFrame ==
    ASSUME TypeInv, NEW t \in Tasks, TaskStep(t) \/ WaitTimeout(t)
    PROVE  /\ Running(t) /\ RowFrame(task[t].run) /\ MemFrame(t) /\ TaskFrame(t)
           /\ life' = life
<1> USE DEF TypeInv
<1> DEFINE r == task[t].run
           m == Mine(t)
<1>0. Running(t) /\ life' = life
  BY DEF TaskStep, WaitTimeout, Running, Begin, Admit, ExecPack, ExecPrompt, Finish, HoldClaim,
         HoldRegister, HoldPark, HoldOpen, WaitClaim, WaitLocal, WaitSlot, Decided,
         RewritePending, DispatchGate2, CompleteGate, ResumeRun
<1> SUFFICES RowFrame(r) /\ MemFrame(t) /\ TaskFrame(t)
  BY <1>0
<1>1. r \in Runs /\ task[t] \in Task /\ task[t].at \in Procs
  BY <1>0, MineTyped DEF Running, TaskInv
<1>2. ASSUME \/ Leave(t, m) \/ Leave(t, Forget(m, r)) \/ Leave(t, Unwait(m, r))
             \/ Leave(t, Unwait(Forget(m, r), r))
      PROVE  MemFrame(t) /\ TaskFrame(t)
  BY <1>0, <1>2, MineFrame, LeaveFrame
<1>3. ASSUME NEW pc \in TaskPCs \ {"begin", "admit"}, NEW x, pc \in WaitPCs => Waits(t),
             \/ x = [task[t] EXCEPT !.pc = pc]
             \/ \E q \in Reqs \cup {None} : x = [task[t] EXCEPT !.pc = pc, !.dec = q]
             \/ \E d \in Nat \cup {None} : x = [task[t] EXCEPT !.pc = pc, !.done = d]
             \/ \E d \in Nat \cup {None}, b \in Drafts :
                    x = [task[t] EXCEPT !.pc = pc, !.done = d, !.bytes = b, !.dec = None],
             task' = [task EXCEPT ![t] = x]
      PROVE  TaskFrame(t)
  <2>1. x \in Task /\ x.run = r /\ x.at = task[t].at /\ x.pc = pc
    BY <1>1, <1>3 DEF Task
  <2> QED
    BY <1>3, <2>1, GotoFrame
<1>4. ASSUME NEW pc \in TaskPCs \ {"begin", "admit"}, pc \in WaitPCs => Waits(t), Goto(t, pc)
      PROVE  TaskFrame(t)
  BY <1>3, <1>4 DEF Goto
<1>5. /\ row' = row => RowFrame(r)
      /\ mem' = mem => MemFrame(t)
      /\ \A s \in Terminal : End(r, s) => RowFrame(r)
  BY <1>1, SameFrames, EndFrame
<1>6. CASE Begin(t)
  <2>1. ASSUME NEW pc \in {"exec", "admit"}, Goto(t, pc) PROVE TaskFrame(t)
    <3> DEFINE x == [task[t] EXCEPT !.pc = pc]
    <3>1. x.run = r /\ x.at = task[t].at /\ x.pc = pc
      BY <1>1 DEF Task
    <3>2. task' = [task EXCEPT ![t] = x]
      BY <2>1 DEF Goto
    <3> HIDE DEF x
    <3> QED
      BY <1>6, <2>1, <3>1, <3>2 DEF TaskInv, TaskFrame, Running, WaitPCs
  <2> QED
    BY <1>2, <1>5, <1>6, <2>1 DEF Begin
<1>7. CASE Admit(t)
  <2>1. CASE Leave(t, m) /\ (row' = row \/ End(r, "failed"))
    BY <1>2, <1>5, <2>1 DEF Terminal
  <2>2. CASE /\ row' = [row EXCEPT ![r].status = "running"]
             /\ Goto(t, "exec") /\ UNCHANGED mem
    <3>1. RowFrame(r)
      BY <1>1, <2>2, WriteFrame
    <3> QED
      BY <1>4, <1>5, <2>2, <3>1 DEF TaskPCs, WaitPCs, Waits
  <2> QED
    BY <1>7, <2>1, <2>2 DEF Admit
<1>8. CASE ExecPack(t) \/ ExecPrompt(t)
  <2>1. RowFrame(r)
    BY <1>5, <1>8 DEF ExecPack, ExecPrompt, Terminal
  <2>2. CASE UNCHANGED mem
    <3>1. PICK pc \in {"claim", "register", "finish"}, d \in Nat \cup {None} :
            \/ \E b \in Drafts : task' = [task EXCEPT ![t] =
                   [@ EXCEPT !.pc = pc, !.done = d, !.bytes = b, !.dec = None]]
            \/ task' = [task EXCEPT ![t] = [@ EXCEPT !.pc = pc, !.done = d]]
            \/ Leave(t, m) \/ Leave(t, Forget(m, r))
      BY <1>1, <1>8, <2>2 DEF ExecPack, ExecPrompt, Task, RestInv
    <3>2. pc \in TaskPCs \ {"begin", "admit"} /\ pc \notin WaitPCs
      BY DEF TaskPCs, WaitPCs
    <3> QED
      BY <1>2, <1>3, <1>5, <2>1, <2>2, <3>1, <3>2
  <2>3. CASE Leave(t, m) \/ Leave(t, Forget(m, r))
    BY <1>2, <2>1, <2>3
  <2> QED
    BY <1>0, <1>8, <2>1, <2>2, <2>3 DEF ExecPack, ExecPrompt
<1>9. CASE Finish(t) \/ WaitTimeout(t)
  BY <1>2, <1>5, <1>9 DEF Finish, WaitTimeout, Terminal
<1>10. CASE HoldClaim(t)
  <2>1. PICK q \in Reqs \cup {None} :
          \/ task' = [task EXCEPT ![t] = [@ EXCEPT !.pc = "register", !.dec = q]]
          \/ Goto(t, "register")
    <3>1. CanClaim(t) => gate[r][NextGate(t)].by \in Reqs \cup {None}
      BY <1>1, <1>10 DEF HoldClaim, TaskInv, Proper, HoldingPCs, NextGate, GateInv, GateRow
    <3> QED
      BY <1>10, <3>1 DEF HoldClaim
  <2> QED
    <3>1. "register" \in TaskPCs \ {"begin", "admit"} /\ "register" \notin WaitPCs
      BY DEF TaskPCs, WaitPCs
    <3>2. TaskFrame(t)
      BY <1>3, <1>4, <2>1, <3>1
    <3> QED
      BY <1>5, <1>10, <3>2 DEF HoldClaim
<1>11. CASE HoldRegister(t)
  <2>1. CASE mem' = [mem EXCEPT ![task[t].at].waiting = @ \cup {r}]
    <3> DEFINE n == [m EXCEPT !.waiting = @ \cup {r}]
    <3>1. n.recon = m.recon /\ n.hand = m.hand /\ n.held = m.held
      BY <1>0, MineFrame DEF Memory
    <3>2. mem' = [mem EXCEPT ![task[t].at] = n]
      BY <2>1 DEF Mine
    <3> HIDE DEF n
    <3> QED
      BY <1>0, <1>2, <1>4, <1>5, <1>11, <3>1, <3>2, MemoryFrame DEF HoldRegister, TaskPCs, WaitPCs, Waits
  <2> QED
    BY <1>2, <1>5, <1>11, <2>1 DEF HoldRegister
<1>12. ASSUME mem' = [mem EXCEPT ![task[t].at] = Unwait(@, r)] PROVE MemFrame(t)
  <2>1. mem' = [mem EXCEPT ![task[t].at] = Unwait(m, r)]
    BY <1>12 DEF Mine
  <2> QED
    BY <1>0, <2>1, MineFrame, MemoryFrame
<1>13. CASE HoldPark(t)
  <2>1. CASE Leave(t, Unwait(Forget(m, r), r)) /\ UNCHANGED row
    BY <1>2, <1>5, <2>1
  <2>2. CASE /\ row' = [row EXCEPT ![r].status = "awaiting_approval", ![r].pending = task[t].bytes]
             /\ mem' = [mem EXCEPT ![task[t].at] = Unwait(@, r)] \/ UNCHANGED mem
             /\ Goto(t, "decided") \/ Goto(t, "open") \/ Goto(t, "poll")
    <3>1. RowFrame(r) /\ MemFrame(t)
      BY <1>1, <1>5, <1>12, <2>2, WriteFrame
    <3>2. TaskFrame(t)
      BY <1>4, <1>13, <2>2 DEF TaskPCs, Waits
    <3> QED
      BY <3>1, <3>2
  <2> QED
    BY <1>13, <2>1, <2>2 DEF HoldPark
<1>14. CASE WaitSlot(t) \/ HoldOpen(t)
  BY <1>4, <1>5, <1>12, <1>14 DEF WaitSlot, HoldOpen, TaskPCs, WaitPCs, Waits
<1>15. CASE WaitClaim(t) \/ WaitLocal(t)
  <2>1. RowFrame(r)
    BY <1>5, <1>15 DEF WaitClaim, WaitLocal
  <2>2. ASSUME NEW q \in Reqs \cup {None}, NEW n, Decide(t, q, n), n = [m EXCEPT !.decided[r] = None]
        PROVE  MemFrame(t) /\ TaskFrame(t)
    <3>1. n.recon = m.recon /\ n.hand = m.hand /\ n.held = m.held
      BY <1>0, <2>2, MineFrame DEF Memory
    <3>2. Unwait(n, r).recon = m.recon /\ Unwait(n, r).hand = m.hand /\ Unwait(n, r).held = m.held
      BY <1>0, <2>2, MineFrame DEF Memory, Unwait
    <3>3. MemFrame(t)
      BY <1>0, <2>2, <3>1, <3>2, MemoryFrame DEF Decide
    <3>4. PICK pc \in {"decided", "slot"} :
            task' = [task EXCEPT ![t] = [@ EXCEPT !.pc = pc, !.dec = q]]
      BY <2>2 DEF Decide
    <3> QED
      BY <1>3, <3>3, <3>4 DEF TaskPCs, WaitPCs, Waits
  <2>3. CASE WaitClaim(t)
    <3>1. gate[r][NextGate(t)].by \in Reqs \cup {None}
      BY <1>1, <2>3 DEF WaitClaim, IsPack, TaskInv, Proper, HoldingPCs, NextGate, GateInv, GateRow
    <3> QED
      BY <1>4, <1>5, <2>1, <2>2, <2>3, <3>1 DEF WaitClaim, TaskPCs, WaitPCs, Waits
  <2>4. CASE WaitLocal(t)
    <3>1. m.decided[r] \in Reqs \cup {None}
      BY <1>0, <1>1, MineFrame DEF Memory
    <3> QED
      BY <1>2, <1>4, <1>5, <2>1, <2>2, <2>4, <3>1 DEF WaitLocal, TaskPCs, WaitPCs, Waits
  <2> QED
    BY <1>15, <2>3, <2>4
<1>16. CASE Decided(t) \/ DispatchGate2(t)
  BY <1>2, <1>4, <1>5, <1>16 DEF Decided, DispatchGate2, Terminal, TaskPCs, WaitPCs, Waits
<1>17. CASE RewritePending(t)
  BY <1>1, <1>4, <1>5, <1>17, WriteFrame DEF RewritePending, TaskPCs, WaitPCs, Waits
<1>18. CASE CompleteGate(t) \/ ResumeRun(t)
  <2>1. RowFrame(r)
    BY <1>1, <1>5, <1>18, WriteFrame DEF CompleteGate, ResumeRun
  <2>2. PICK pc \in {"resume", "exec"}, d \in Nat \cup {None} :
          task' = [task EXCEPT ![t] = [@ EXCEPT !.pc = pc, !.done = d]]
    <3>1. task[t].done \in Nat \cup {None} /\ NextGate(t) \in Nat \cup {None}
      BY <1>1, <1>18 DEF CompleteGate, ResumeRun, Task, TaskInv, Proper, HoldingPCs, NextGate
    <3> QED
      BY <1>18, <3>1 DEF CompleteGate, ResumeRun
  <2> QED
    BY <1>3, <1>5, <1>18, <2>1, <2>2 DEF CompleteGate, ResumeRun, TaskPCs, WaitPCs, Waits
<1> QED
  BY <1>0, <1>6, <1>7, <1>8, <1>9, <1>10, <1>11, <1>13, <1>14, <1>15, <1>16, <1>17, <1>18
     DEF TaskStep

-----------------------------------------------------------------------------
\* One coroutine takes a step.
LEMMA TaskSole ==
    ASSUME TypeInv, SoleInv, NEW t \in Tasks, TaskStep(t) \/ WaitTimeout(t)
    PROVE  SoleInv'
<1> DEFINE r == task[t].run
           p == task[t].at
<1>1. Running(t) /\ r \in Runs /\ p \in Procs /\ Placed(t)
  BY TaskStepFrame, MineTyped DEF TypeInv, Running, SoleInv
<1>2. RowFrame(r) /\ MemFrame(t) /\ TaskFrame(t) /\ life' = life /\ RowKept
  BY TaskStepFrame, TaskRowKept
<1>0. lapses \subseteq lapses'
  BY LapsesGrow DEF Next, Environment
<1>3. OneUp'
  BY <1>2 DEF SoleInv, OneUp, Live
<1>4. \A u \in Tasks : Running(u)' => Running(u) /\ task'[u].run = task[u].run /\ task'[u].at = task[u].at
  BY <1>1, <1>2 DEF TaskFrame, Running
<1>5. OneExecutor'
  BY <1>0, <1>4 DEF SoleInv, OneExecutor, Running, Stamped
<1>6. ASSUME NEW s \in Runs, NEW q \in Procs, Served(s, q)
      PROVE  Served(s, q)'
  <2>1. row[s] \in Row /\ RowStep(s)
    BY <1>2 DEF TypeInv, RowInv, RowKept
  <2>2. row'[s].owner = row[s].owner /\ row'[s].lease = row[s].lease
    BY <1>2 DEF RowFrame
  <2>3. row[s].status \in Statuses
    BY <2>1 DEF Row
  <2> QED
    BY <1>6, <2>1, <2>2, <2>3 DEF Served, RowStep, Ended, Parked, Terminal, Statuses
<1>7. ASSUME NEW u \in Tasks, Running(u)' PROVE Placed(u)'
  <2>1. Running(u) /\ task'[u].run = task[u].run /\ task'[u].at = task[u].at
    BY <1>4, <1>7
  <2>2. task[u].run \in Runs /\ task[u].at \in Procs /\ Placed(u)
    BY <2>1, MineTyped DEF TypeInv, Running, SoleInv
  <2>3. Live(task[u].at)' /\ task[u].run \notin mem'[task[u].at].recon
    BY <1>2, <2>1, <2>2 DEF Placed, Live, MemFrame
  <2>4. ASSUME Stamped(task[u].run)
        PROVE  Served(task[u].run, task[u].at)' /\ task[u].run \in mem'[task[u].at].held
    <3>1. u # t => task[u].run # r
      BY <1>1, <2>1, <2>4 DEF SoleInv, OneExecutor, Running
    <3> QED
      BY <1>2, <1>6, <1>7, <2>1, <2>2, <2>4, <3>1 DEF Placed, MemFrame
  <2> QED
    BY <1>0, <2>1, <2>3, <2>4 DEF Placed, Served, Stamped
<1>8. ASSUME NEW q \in Procs PROVE Handed(q)'
  <2>1. Handed(q) /\ mem'[q].recon = mem[q].recon /\ mem'[q].hand = mem[q].hand
    BY <1>2 DEF SoleInv, MemFrame
  <2>2. Live(q) => Live(q)'
    BY <1>2 DEF Live
  <2>3. ASSUME mem[q].hand # None, Stamped(mem[q].hand.run)
        PROVE  Served(mem[q].hand.run, q)' /\ ~(Executed(mem[q].hand.run)')
    <3>1. mem[q].hand.run \in Runs
      BY <2>3 DEF TypeInv, MemInv, Memory, Claims
    <3>2. Served(mem[q].hand.run, q) /\ ~Executed(mem[q].hand.run)
      BY <2>1, <2>3 DEF Handed
    <3> QED
      BY <1>4, <1>6, <2>1, <3>1, <3>2 DEF Executed, Served, Running
  <2> QED
    BY <1>0, <2>1, <2>2, <2>3 DEF Handed, Served, Executed, Running, Stamped
<1> QED
  BY <1>3, <1>5, <1>7, <1>8 DEF SoleInv, Placed

\* What requests and beats do: leases and claims stay, and nobody starts or stops.
LEMMA QuietSole ==
    ASSUME TypeInv, SoleInv, life' = life, task' = task, lapses \subseteq lapses',
           \A s \in Runs, p \in Procs : Served(s, p) => Served(s, p)',
           \A p \in Procs : /\ mem'[p].recon = mem[p].recon
                            /\ mem'[p].hand = mem[p].hand
                            /\ mem'[p].held = mem[p].held
    PROVE  SoleInv'
<1>1. OneUp' /\ OneExecutor'
  BY DEF SoleInv, OneUp, Live, OneExecutor, Stamped
<1>2. ASSUME NEW t \in Tasks, Running(t) PROVE Placed(t)'
  <2>1. task[t].run \in Runs /\ task[t].at \in Procs /\ Placed(t)
    BY <1>2, MineTyped DEF TypeInv, Running, SoleInv
  <2>2. Live(task[t].at)' /\ (Stamped(task[t].run) => Served(task[t].run, task[t].at)')
    BY <1>2, <2>1 DEF Placed, Live
  <2> QED
    BY <1>2, <2>1, <2>2 DEF Placed, Served, Stamped
<1>3. ASSUME NEW p \in Procs PROVE Handed(p)'
  <2>1. Handed(p) /\ (Live(p) => Live(p)')
    BY DEF SoleInv, Live
  <2>2. mem[p].hand # None => mem[p].hand.run \in Runs
    BY DEF TypeInv, MemInv, Memory, Claims
  <2>3. ASSUME mem[p].hand # None, Stamped(mem[p].hand.run)
        PROVE  Served(mem[p].hand.run, p)' /\ ~(Executed(mem[p].hand.run)')
    BY <2>1, <2>2, <2>3 DEF Handed, Executed, Running
  <2> QED
    BY <2>1, <2>3 DEF Handed, Served, Executed, Running, Stamped
<1> QED
  BY <1>1, <1>2, <1>3 DEF SoleInv, Placed, Running

\* A row that is ended, or not written, is served as before.
LEMMA EndServed ==
    ASSUME TypeInv, NEW r \in Runs, NEW s \in Terminal, row' = row \/ End(r, s)
    PROVE  \A x \in Runs, p \in Procs : Served(x, p) => Served(x, p)'
<1>1. CASE row' = row
  BY <1>1 DEF Served
<1>2. CASE End(r, s)
  BY <1>2 DEF TypeInv, RowInv, Row, End, Served, Parked, Terminal
<1> QED
  BY <1>1, <1>2

\* Requests leave the work of the processes alone.
LEMMA RequestMemory ==
    ASSUME TypeInv, NEW q \in Reqs, RequestStep(q), NEW p \in Procs
    PROVE  mem'[p].recon = mem[p].recon /\ mem'[p].hand = mem[p].hand /\ mem'[p].held = mem[p].held
<1>1. ASSUME NEW m, NEW x \in Procs,
             m = mem[x] \/ (\E r, d : m = [mem[x] EXCEPT !.decided[r] = d])
                        \/ (\E c : m = [mem[x] EXCEPT !.cancelled = c]),
             mem' = [mem EXCEPT ![x] = m]
      PROVE  mem'[p].recon = mem[p].recon /\ mem'[p].hand = mem[p].hand /\ mem'[p].held = mem[p].held
  <2>1. m.recon = mem[x].recon /\ m.hand = mem[x].hand /\ m.held = mem[x].held
    BY <1>1 DEF TypeInv, MemInv, Memory
  <2> QED
    BY <1>1, <2>1 DEF TypeInv, MemInv
<1>2. \/ mem' = mem
      \/ \E x \in Procs : \E r, d : mem' = [mem EXCEPT ![x].decided[r] = d]
      \/ \E x \in Procs : \E c : mem' = [mem EXCEPT ![x].cancelled = c]
  <2>1. CASE ResolveWaiter(q)
    <3>1. req[q].at \in Procs
      BY <2>1 DEF ResolveWaiter, TypeInv, ReqInv, Addressed
    <3> QED
      BY <2>1, <3>1 DEF ResolveWaiter
  <2>2. ASSUME NEW y \in Procs, NEW r \in Runs, CancelMark(q, y, r)
        PROVE  \E x \in Procs : \E c : mem' = [mem EXCEPT ![x].cancelled = c]
    BY <2>2 DEF CancelMark
  <2> QED
    BY <2>1, <2>2 DEF RequestStep, DecideCheck, RecordDecision, CancelWrite, CancelFails
<1> QED
  BY <1>1, <1>2

LEMMA RequestRow ==
    ASSUME TypeInv, NEW q \in Reqs, RequestStep(q)
    PROVE  row' = row \/ \E r \in Runs : End(r, "canceled")
  BY DEF RequestStep, DecideCheck, CancelMark, RecordDecision, ResolveWaiter, CancelWrite, CancelFails,
         TypeInv, ReqInv, Addressed

LEMMA RequestSole ==
    ASSUME TypeInv, SoleInv, NEW q \in Reqs, RequestStep(q)
    PROVE  SoleInv'
<1>0. lapses \subseteq lapses'
  BY LapsesGrow DEF Next
<1>1. life' = life /\ task' = task
  BY DEF RequestStep, DecideCheck, CancelMark, RecordDecision, ResolveWaiter, CancelWrite, CancelFails
<1>2. \A x \in Runs, p \in Procs : Served(x, p) => Served(x, p)'
  BY RequestRow, EndServed DEF Terminal, Served
<1> QED
  BY <1>0, <1>1, <1>2, RequestMemory, QuietSole

\* A claim is of a run that nobody serves.
LEMMA ClaimNextSole ==
    ASSUME TypeInv, SoleInv, NEW p \in Procs, ClaimNext(p)
    PROVE  SoleInv'
<1> DEFINE tries(r) == IF row[r].status = "awaiting_approval" THEN row[r].attempts
                       ELSE row[r].attempts + 1
           first(r) == row[r].status = "queued"
<1>1. PICK r \in Runs :
        /\ Claimable(r)
        /\ row' = [row EXCEPT ![r].owner = p, ![r].lease = "fresh", ![r].attempts = tries(r),
                              ![r].status = IF @ = "queued" THEN "running" ELSE @]
        /\ mem' = [mem EXCEPT ![p].hand = [run |-> r, first |-> first(r), attempts |-> tries(r)]]
  BY DEF ClaimNext
<1> DEFINE n == tries(r)
           b == first(r)
<1> HIDE DEF tries, first
<1>2. /\ Live(p) /\ mem[p].recon = {} /\ mem[p].hand = None /\ life' = life /\ task' = task
      /\ lapses' = lapses
  BY DEF ClaimNext, Serving, histVars
<1>3. OneUp' /\ OneExecutor'
  BY <1>2 DEF SoleInv, OneUp, Live, OneExecutor, Stamped
<1>4. Served(r, p)' /\ \A s \in Runs \ {r}, q \in Procs : Served(s, q) => Served(s, q)'
  BY <1>1 DEF Served, TypeInv, RowInv, Row, Claimable, Parked
<1>5. \A t \in Tasks : Running(t) => task[t].at = p /\ (Stamped(r) => task[t].run # r)
  <2>1. ASSUME NEW t \in Tasks, Running(t) PROVE task[t].at = p /\ (Stamped(r) => task[t].run # r)
    <3>1. task[t].at \in Procs /\ Placed(t)
      BY <2>1, MineTyped DEF TypeInv, Running, SoleInv
    <3> QED
      BY <1>1, <1>2, <2>1, <3>1 DEF Placed, Served, Claimable, SoleInv, OneUp, Parked
  <2> QED
    BY <2>1
<1> DEFINE c == [run |-> r, first |-> b, attempts |-> n]
           m == [mem[p] EXCEPT !.hand = c]
<1>6. m.recon = mem[p].recon /\ m.held = mem[p].held /\ m.hand = c /\ c.run = r
  BY DEF TypeInv, MemInv, Memory
<1>7. mem' = [mem EXCEPT ![p] = m]
  BY <1>1
<1> HIDE DEF m, c
<1>8. /\ mem'[p].recon = mem[p].recon /\ mem'[p].held = mem[p].held /\ mem'[p].hand.run = r
      /\ \A q \in Procs \ {p} : mem'[q] = mem[q]
  BY <1>6, <1>7 DEF TypeInv, MemInv
<1>9. ASSUME NEW t \in Tasks, Running(t) PROVE Placed(t)'
  <2>1. task[t].run \in Runs /\ task[t].at \in Procs /\ Placed(t)
    BY <1>9, MineTyped DEF TypeInv, Running, SoleInv
  <2>2. Live(task[t].at)' /\ (Stamped(task[t].run) => Served(task[t].run, task[t].at)')
    BY <1>2, <1>4, <1>5, <1>9, <2>1 DEF Placed, Live
  <2> QED
    BY <1>2, <1>5, <1>8, <1>9, <2>1, <2>2 DEF Placed, Served, Stamped
<1>10. ASSUME NEW q \in Procs PROVE Handed(q)'
  <2>1. CASE q = p
    <3>1. /\ Live(q)' /\ mem'[q].recon = {} /\ mem'[q].hand.run = r
          /\ Stamped(r) => ~(Executed(r)')
      BY <1>2, <1>5, <1>8, <2>1 DEF Live, Executed, Running
    <3> QED
      BY <1>2, <1>4, <2>1, <3>1 DEF Handed, Served, Executed, Running, Stamped
  <2>2. CASE q # p
    BY <1>2, <1>8, <2>2 DEF SoleInv, Handed, OneUp, Live
  <2> QED
    BY <2>1, <2>2
<1> QED
  BY <1>2, <1>3, <1>9, <1>10 DEF SoleInv, Placed, Running

LEMMA SpawnBegins ==
    ASSUME TypeInv, NEW t \in Tasks, NEW p, NEW r, Spawn(t, p, r)
    PROVE  /\ task'[t].pc = "begin" /\ task'[t].run = r /\ task'[t].at = p
           /\ task[t].pc = "idle" /\ \A u \in Tasks \ {t} : task'[u] = task[u]
<1> DEFINE x == [NoTask EXCEPT !.pc = "begin", !.run = r, !.at = p]
<1>1. x.pc = "begin" /\ x.run = r /\ x.at = p
  BY DEF NoTask
<1>2. task' = [task EXCEPT ![t] = x] /\ task[t].pc = "idle"
  BY DEF Spawn
<1> HIDE DEF x
<1> QED
  BY <1>1, <1>2 DEF TypeInv, TaskInv

\* A process takes up a run that no coroutine executes: the spawn of dispatch_claimed and
\* of reconcile_gates.
LEMMA SpawnSole ==
    ASSUME TypeInv, SoleInv, NEW p \in Procs, NEW r \in Runs, NEW t \in Tasks, Spawn(t, p, r),
           Live(p), life' = life, lapses \subseteq lapses', Stamped(r)' => ~Executed(r),
           r \notin mem'[p].recon, mem'[p].recon \subseteq mem[p].recon,
           mem'[p].hand = None, mem'[p].held = mem[p].held \cup {r},
           \A q \in Procs \ {p} : mem'[q] = mem[q],
           Stamped(r)' => Served(r, p)',
           \A s \in Runs \ {r}, q \in Procs : Served(s, q) => Served(s, q)'
    PROVE  SoleInv'
<1>1. ~Running(t) /\ task'[t].pc = "begin" /\ task'[t].run = r /\ task'[t].at = p
  BY SpawnBegins DEF Running
<1>2. \A u \in Tasks \ {t} : task'[u] = task[u]
  BY SpawnBegins
<1>3. OneUp'
  BY DEF SoleInv, OneUp, Live
<1>4. OneExecutor'
  BY <1>1, <1>2 DEF SoleInv, OneExecutor, Executed, Running, Stamped
<1>5. ASSUME NEW u \in Tasks, Running(u)' PROVE Placed(u)'
  <2>1. CASE u = t
    BY <1>1, <2>1 DEF Placed, Served, Live, Stamped
  <2>2. CASE u # t
    <3>1. Running(u) /\ task'[u] = task[u]
      BY <1>2, <1>5, <2>2 DEF Running
    <3>2. task[u].run \in Runs /\ task[u].at \in Procs /\ Placed(u)
      BY <3>1, MineTyped DEF TypeInv, Running, SoleInv
    <3>3. Live(task[u].at) /\ Live(task[u].at)' /\ task[u].at = p
      BY <3>1, <3>2 DEF Placed, SoleInv, OneUp, Live
    <3>4. ASSUME <<task[u].run, 0>> \notin lapses'
          PROVE  Served(task[u].run, p)' /\ task[u].run \in mem'[p].held
      <4>1. Stamped(task[u].run) /\ task[u].run # r
        BY <3>1, <3>4 DEF Executed, Stamped
      <4> QED
        BY <3>1, <3>2, <3>3, <4>1 DEF Placed, Served
    <3> QED
      BY <3>1, <3>2, <3>3, <3>4 DEF Placed, Served, Stamped
  <2> QED
    BY <2>1, <2>2
<1>6. ASSUME NEW q \in Procs PROVE Handed(q)'
  <2>1. CASE q = p
    BY <2>1 DEF Handed, Live
  <2>2. CASE q # p
    <3>1. ~Live(q) /\ Handed(q)
      BY <2>2 DEF SoleInv, OneUp
    <3> QED
      BY <2>2, <3>1 DEF Handed, Live
  <2> QED
    BY <2>1, <2>2
<1> QED
  BY <1>3, <1>4, <1>5, <1>6 DEF SoleInv, Placed

\* A claim becomes the coroutine of its run, or ends it.
LEMMA DispatchClaimedSole ==
    ASSUME TypeInv, SoleInv, NEW p \in Procs, DispatchClaimed(p)
    PROVE  SoleInv'
<1> DEFINE r == mem[p].hand.run
<1>1. /\ Live(p) /\ mem[p].hand # None /\ r \in Runs /\ life' = life
      /\ mem[p].recon = {} /\ lapses' = lapses
      /\ Stamped(r) => Served(r, p) /\ ~Executed(r)
  BY DEF DispatchClaimed, TypeInv, MemInv, Memory, Claims, SoleInv, Handed, histVars
<1>2. \A s \in Runs, q \in Procs : Served(s, q) => Served(s, q)'
  BY <1>1, EndServed DEF DispatchClaimed, Terminal
<1>3. CASE mem' = [mem EXCEPT ![p].hand = None] /\ UNCHANGED task
  <2> DEFINE m == [mem[p] EXCEPT !.hand = None]
  <2>1. m.hand = None /\ m.recon = mem[p].recon /\ m.held = mem[p].held
    BY DEF TypeInv, MemInv, Memory
  <2>2. mem' = [mem EXCEPT ![p] = m]
    BY <1>3
  <2> HIDE DEF m
  <2>3. /\ mem'[p].hand = None /\ mem'[p].recon = {} /\ mem'[p].held = mem[p].held
        /\ \A q \in Procs \ {p} : mem'[q] = mem[q]
    BY <1>1, <2>1, <2>2 DEF TypeInv, MemInv
  <2>4. OneUp' /\ OneExecutor'
    BY <1>1, <1>3 DEF SoleInv, OneUp, Live, OneExecutor, Stamped
  <2>5. ASSUME NEW t \in Tasks, Running(t) PROVE Placed(t)'
    <3>1. task[t].run \in Runs /\ task[t].at \in Procs /\ Placed(t)
      BY <2>5, MineTyped DEF TypeInv, Running, SoleInv
    <3>2. Live(task[t].at)' /\ (Stamped(task[t].run) => Served(task[t].run, task[t].at)')
      BY <1>1, <1>2, <1>3, <2>5, <3>1 DEF Placed, Live
    <3>3. mem'[task[t].at].held = mem[task[t].at].held /\ mem'[task[t].at].recon = mem[task[t].at].recon
      BY <1>1, <2>3, <3>1
    <3> QED
      BY <1>1, <1>3, <2>5, <3>1, <3>2, <3>3 DEF Placed, Served, Stamped
  <2>6. ASSUME NEW q \in Procs PROVE Handed(q)'
    <3>1. q # p => ~Live(q) /\ Handed(q)
      BY <1>1 DEF SoleInv, OneUp
    <3> QED
      BY <1>1, <2>3, <3>1 DEF Handed, Live
  <2> QED
    BY <1>3, <2>4, <2>5, <2>6 DEF SoleInv, Placed, Running
<1>4. CASE /\ \E t \in Tasks : Spawn(t, p, r)
           /\ mem' = [mem EXCEPT ![p].hand = None, ![p].held = @ \cup {r}]
  <2> DEFINE m == [mem[p] EXCEPT !.hand = None, !.held = mem[p].held \cup {r}]
  <2>1. m.hand = None /\ m.recon = mem[p].recon /\ m.held = mem[p].held \cup {r}
    BY DEF TypeInv, MemInv, Memory
  <2>2. mem' = [mem EXCEPT ![p] = m]
    BY <1>4 DEF TypeInv, MemInv, Memory
  <2> HIDE DEF m
  <2>3. /\ mem'[p].hand = None /\ mem'[p].recon = {} /\ mem'[p].held = mem[p].held \cup {r}
        /\ \A q \in Procs \ {p} : mem'[q] = mem[q]
    BY <1>1, <2>1, <2>2 DEF TypeInv, MemInv
  <2> QED
    BY <1>1, <1>2, <1>4, <2>3, SpawnSole DEF Stamped
<1> QED
  BY <1>3, <1>4 DEF DispatchClaimed

LEMMA ReconcileRunSole ==
    ASSUME TypeInv, SoleInv, NEW p \in Procs, NEW r \in Runs, row[r].status # "queued",
           ReconcileRun(p, r)
    PROVE  SoleInv'
<1>1. /\ Live(p) /\ r \in mem[p].recon /\ mem[p].hand = None /\ life' = life
      /\ lapses \subseteq lapses'
  BY DEF ReconcileRun, SoleInv, Handed, Lapse
<1>2. ~Executed(r)
  <2>1. ASSUME NEW t \in Tasks, Running(t) PROVE task[t].run # r
    <3>1. task[t].at \in Procs /\ Placed(t)
      BY <2>1, MineTyped DEF TypeInv, Running, SoleInv
    <3> QED
      BY <1>1, <2>1, <3>1 DEF Placed, SoleInv, OneUp
  <2> QED
    BY <2>1 DEF Executed
<1>3. CASE /\ End(r, "failed") /\ UNCHANGED task
           /\ mem' = [mem EXCEPT ![p].recon = @ \ {r}]
  <2> DEFINE m == [mem[p] EXCEPT !.recon = @ \ {r}]
  <2>1. m.hand = None /\ m.recon \subseteq mem[p].recon /\ m.held = mem[p].held
    BY <1>1 DEF TypeInv, MemInv, Memory
  <2>2. mem' = [mem EXCEPT ![p] = m]
    BY <1>3
  <2> HIDE DEF m
  <2>3. /\ mem'[p].hand = None /\ mem'[p].recon \subseteq mem[p].recon /\ mem'[p].held = mem[p].held
        /\ \A q \in Procs \ {p} : mem'[q] = mem[q]
    BY <1>1, <2>1, <2>2 DEF TypeInv, MemInv
  <2>4. OneUp' /\ OneExecutor'
    BY <1>1, <1>3 DEF SoleInv, OneUp, Live, OneExecutor, Stamped
  <2>5. ASSUME NEW t \in Tasks, Running(t) PROVE Placed(t)'
    <3>1. task[t].run \in Runs /\ task[t].at \in Procs /\ Placed(t)
      BY <2>5, MineTyped DEF TypeInv, Running, SoleInv
    <3>2. Live(task[t].at)' /\ (Stamped(task[t].run) => Served(task[t].run, task[t].at)')
      BY <1>1, <1>3, <2>5, <3>1, EndServed DEF Placed, Live, Terminal
    <3>3. /\ mem'[task[t].at].held = mem[task[t].at].held
          /\ mem'[task[t].at].recon \subseteq mem[task[t].at].recon
      BY <2>3, <3>1
    <3> QED
      BY <1>1, <1>3, <2>5, <3>1, <3>2, <3>3 DEF Placed, Served, Stamped
  <2>6. ASSUME NEW q \in Procs PROVE Handed(q)'
    <3>1. q # p => ~Live(q) /\ Handed(q)
      BY <1>1 DEF SoleInv, OneUp
    <3> QED
      BY <1>1, <2>3, <3>1 DEF Handed, Live
  <2> QED
    BY <1>3, <2>4, <2>5, <2>6 DEF SoleInv, Placed, Running
<1>4. CASE /\ \/ row' = [row EXCEPT ![r].owner = p, ![r].lease = "fresh"]
              \/ Lapse(r, 0) /\ UNCHANGED row
           /\ \E t \in Tasks : Spawn(t, p, r)
           /\ mem' = [mem EXCEPT ![p].recon = @ \ {r}, ![p].held = @ \cup {r}]
  <2> DEFINE m == [mem[p] EXCEPT !.recon = mem[p].recon \ {r}, !.held = mem[p].held \cup {r}]
  <2>1. m.hand = None /\ m.recon = mem[p].recon \ {r} /\ m.held = mem[p].held \cup {r}
    BY <1>1 DEF TypeInv, MemInv, Memory
  <2>2. mem' = [mem EXCEPT ![p] = m]
    BY <1>4 DEF TypeInv, MemInv, Memory
  <2> HIDE DEF m
  <2>3. /\ mem'[p].hand = None /\ mem'[p].recon = mem[p].recon \ {r}
        /\ mem'[p].held = mem[p].held \cup {r} /\ \A q \in Procs \ {p} : mem'[q] = mem[q]
    BY <1>1, <2>1, <2>2 DEF TypeInv, MemInv
  <2>4. /\ Stamped(r)' => Served(r, p)'
        /\ \A s \in Runs \ {r}, q \in Procs : Served(s, q) => Served(s, q)'
    <3>1. CASE row' = [row EXCEPT ![r].owner = p, ![r].lease = "fresh"]
      BY <3>1 DEF Served, TypeInv, RowInv, Row, Parked
    <3>2. CASE Lapse(r, 0) /\ UNCHANGED row
      BY <3>2 DEF Served, Lapse, Stamped
    <3> QED
      BY <1>4, <3>1, <3>2
  <2> QED
    BY <1>1, <1>2, <1>4, <2>3, <2>4, SpawnSole
<1> QED
  BY <1>3, <1>4 DEF ReconcileRun

LEMMA BootSole ==
    ASSUME TypeInv, SoleInv, OneProcess, NEW p \in Procs, Boot(p)
    PROVE  SoleInv'
<1>1. \A q \in Procs : ~Live(q)
  <2> DEFINE up == {x \in Procs : Live(x)}
  <2>1. IsFiniteSet(up) /\ Cardinality(up) \in Nat /\ Cardinality(up) < 1
    BY FS_Subset, FS_CardinalityType DEF OneProcess, Boot
  <2>2. up = {}
    BY <2>1, FS_EmptySet
  <2> QED
    BY <2>2
<1>2. life' = [life EXCEPT ![p] = "live"] /\ task' = task /\ row' = row
  BY DEF Boot
<1>3. \A t \in Tasks : ~Running(t)
  BY <1>1, MineTyped DEF SoleInv, Placed, Running, TypeInv
<1> DEFINE m == [mem[p] EXCEPT !.recon = {r \in Runs : row[r].status = "awaiting_approval"}]
<1>4. mem' = [mem EXCEPT ![p] = m] /\ m.hand = mem[p].hand
  BY DEF Boot, TypeInv, MemInv, Memory
<1> HIDE DEF m
<1>5. OneUp' /\ OneExecutor' /\ Live(p)'
  BY <1>1, <1>2, <1>3 DEF OneUp, Live, OneExecutor, Running, TypeInv, RestInv
<1>6. ASSUME NEW q \in Procs PROVE Handed(q)'
  <2>1. mem[q].hand = None /\ mem[q].recon = {}
    BY <1>1 DEF SoleInv, Handed
  <2>2. mem'[q].hand = None /\ (q # p => mem'[q].recon = {})
    BY <1>4, <2>1 DEF TypeInv, MemInv
  <2> QED
    BY <1>5, <2>2 DEF Handed
<1> QED
  BY <1>2, <1>3, <1>5, <1>6 DEF SoleInv, Placed, Running

LEMMA CrashSole ==
    ASSUME TypeInv, SoleInv, NEW p \in Procs, Crash(p)
    PROVE  SoleInv'
<1>1. Live(p) /\ \A q \in Procs : Live(q) => q = p
  BY DEF Crash, SoleInv, OneUp
<1>2. \A q \in Procs : ~Live(q)'
  BY <1>1 DEF Crash, Live, TypeInv, RestInv
<1>3. \A t \in Tasks : ~Running(t)'
  <2>1. ASSUME NEW t \in Tasks PROVE ~Running(t)'
    <3>1. Running(t) => task[t].at = p
      BY <1>1, MineTyped DEF SoleInv, Placed, Running, TypeInv
    <3>2. task'[t] = IF task[t].at = p THEN NoTask ELSE task[t]
      BY DEF Crash
    <3> QED
      BY <3>1, <3>2 DEF Running, NoTask
  <2> QED
    BY <2>1
<1>4. ASSUME NEW q \in Procs PROVE Handed(q)'
  <2>1. mem' = [mem EXCEPT ![p] = Blank] /\ Blank.hand = None /\ Blank.recon = {}
    BY DEF Crash, Blank
  <2>2. q # p => mem[q].hand = None /\ mem[q].recon = {}
    BY <1>1 DEF SoleInv, Handed
  <2>3. mem'[q].hand = None /\ mem'[q].recon = {}
    BY <2>1, <2>2 DEF TypeInv, MemInv
  <2> QED
    BY <2>3 DEF Handed
<1> QED
  BY <1>2, <1>3, <1>4 DEF SoleInv, OneUp, OneExecutor, Placed, Running

LEMMA HeartbeatMemory ==
    ASSUME TypeInv, NEW p \in Procs, Heartbeat(p), NEW q \in Procs
    PROVE  mem'[q].recon = mem[q].recon /\ mem'[q].hand = mem[q].hand /\ mem'[q].held = mem[q].held
<1> DEFINE c == mem[p].cancelled \cup {r \in mem[p].held : row[r].status = "canceled"}
           m == [mem[p] EXCEPT !.cancelled = c]
<1>1. m.recon = mem[p].recon /\ m.hand = mem[p].hand /\ m.held = mem[p].held
  BY DEF TypeInv, MemInv, Memory
<1>2. mem' = [mem EXCEPT ![p] = m]
  BY DEF Heartbeat
<1> HIDE DEF m
<1> QED
  BY <1>1, <1>2 DEF TypeInv, MemInv

LEMMA HeartbeatSole ==
    ASSUME TypeInv, SoleInv, NEW p \in Procs, Heartbeat(p)
    PROVE  SoleInv'
<1>1. \A s \in Runs, q \in Procs : Served(s, q) => Served(s, q)'
  BY SMTT(60) DEF Heartbeat, Served, TypeInv, RowInv, Row
<1>2. life' = life /\ task' = task /\ lapses' = lapses
  BY DEF Heartbeat, histVars
<1> QED
  BY <1>1, <1>2, HeartbeatMemory, QuietSole

\* The lease of a run that is served does not expire: its process beats.
LEMMA LeaseExpiresSole ==
    ASSUME TypeInv, SoleInv, OneProcess, NEW r \in Runs, LeaseExpires(r)
    PROVE  SoleInv'
<1>1. /\ row[r].status \in Parked /\ Silent(row[r].owner)
      /\ row' = [row EXCEPT ![r].lease = "stale"]
      /\ mem' = mem /\ task' = task /\ life' = life /\ lapses' = lapses
  BY DEF LeaseExpires, OneProcess, histVars
<1>2. \A s \in Runs \ {r}, q \in Procs : Served(s, q) => Served(s, q)'
  BY <1>1 DEF Served, TypeInv, RowInv, Row
<1>3. ASSUME NEW t \in Tasks, Running(t), Stamped(task[t].run) PROVE task[t].run # r
  <2>1. task[t].at \in Procs /\ Placed(t)
    BY <1>3, MineTyped DEF TypeInv, Running, SoleInv
  <2> QED
    BY <1>1, <1>3, <2>1 DEF Placed, Served, Silent
<1>4. \A q \in Procs : mem[q].hand # None /\ Stamped(mem[q].hand.run) => mem[q].hand.run # r
  BY <1>1 DEF SoleInv, Handed, Served, Silent
<1>5. OneUp' /\ OneExecutor'
  BY <1>1 DEF SoleInv, OneUp, Live, OneExecutor, Stamped
<1>6. ASSUME NEW t \in Tasks, Running(t) PROVE Placed(t)'
  <2>1. task[t].run \in Runs /\ task[t].at \in Procs /\ Placed(t)
    BY <1>6, MineTyped DEF TypeInv, Running, SoleInv
  <2>2. Live(task[t].at)' /\ (Stamped(task[t].run) => Served(task[t].run, task[t].at)')
    BY <1>1, <1>2, <1>3, <1>6, <2>1 DEF Placed, Live
  <2> QED
    BY <1>1, <1>6, <2>1, <2>2 DEF Placed, Served, Stamped
<1>7. ASSUME NEW q \in Procs PROVE Handed(q)'
  <2>1. Handed(q) /\ (Live(q) => Live(q)')
    BY <1>1 DEF SoleInv, Live
  <2>2. mem[q].hand # None => mem[q].hand.run \in Runs
    BY DEF TypeInv, MemInv, Memory, Claims
  <2>3. ASSUME mem[q].hand # None, Stamped(mem[q].hand.run)
        PROVE  Served(mem[q].hand.run, q)' /\ ~(Executed(mem[q].hand.run)')
    BY <1>1, <1>2, <1>4, <2>1, <2>2, <2>3 DEF Handed, Executed, Running
  <2> QED
    BY <1>1, <2>1, <2>3 DEF Handed, Served, Executed, Running, Stamped
<1> QED
  BY <1>1, <1>5, <1>6, <1>7 DEF SoleInv, Placed, Running

-----------------------------------------------------------------------------
(* Starts and attempts, of the runs that were taken over.                  *)

Bounded(r)   == starts[r] <= row[r].attempts /\ starts[r] <= MaxAttempts
MayStart(r)  == starts[r] < row[r].attempts /\ row[r].attempts <= MaxAttempts
Resumable(r) == r \in PackRuns /\ row[r].status = "awaiting_approval"

\* A coroutine on its way to start_run has an attempt left; one that will read
\* awaiting_approval of a pack goes past it.
Licensed(t) ==
    /\ task[t].pc \in {"begin", "admit"}
    /\ Stamped(task[t].run)
    /\ ~Ended(task[t].run)
    /\ task[t].pc = "begin" => ~Resumable(task[t].run)
    => MayStart(task[t].run)

\* A claim knows the attempts of its row, and counted one unless the run awaits approval.
Counted(p) ==
    mem[p].hand # None /\ ~Ended(mem[p].hand.run) /\ Stamped(mem[p].hand.run) =>
        /\ mem[p].hand.attempts = row[mem[p].hand.run].attempts
        /\ row[mem[p].hand.run].status = "running"
               => starts[mem[p].hand.run] < row[mem[p].hand.run].attempts
        /\ row[mem[p].hand.run].status = "awaiting_approval" => ~mem[p].hand.first

\* What a reconciliation still has to visit waited at a gate.
Waited(p) == \A r \in mem[p].recon : row[r].status \in {"awaiting_approval"} \cup Terminal

StartInv ==
    /\ \A t \in Tasks : Licensed(t)
    /\ \A p \in Procs : Counted(p) /\ Waited(p)
    /\ \A r \in Runs : Stamped(r) => Bounded(r)

\* A step that is about run x only, but for runs that end.
LEMMA StartStep ==
    ASSUME TypeInv, StartInv, NEW x, lapses \subseteq lapses',
           \A s \in Runs \ {x} :
               /\ row'[s].attempts = row[s].attempts
               /\ starts'[s] = starts[s]
               /\ row'[s].status = row[s].status \/ row'[s].status \in Terminal,
           x \in Runs /\ Stamped(x)' => Bounded(x)',
           \A t \in Tasks : Licensed(t)' \/ (task'[t] = task[t] /\ task[t].run # x),
           \A p \in Procs : Counted(p)' \/ (mem'[p].hand = mem[p].hand /\ mem[p].hand.run # x),
           \A p \in Procs : Waited(p)' \/ (mem'[p].recon \subseteq mem[p].recon \ {x})
    PROVE  StartInv'
<1>1. ASSUME NEW t \in Tasks PROVE Licensed(t)'
  <2>1. CASE task'[t] = task[t] /\ task[t].run # x /\ task[t].pc # "idle"
    <3>1. task[t].run \in Runs \ {x}
      BY <2>1, MineTyped DEF TypeInv
    <3> QED
      BY <2>1, <3>1 DEF StartInv, Licensed, Ended, MayStart, Resumable, Stamped
  <2>2. CASE task'[t] = task[t] /\ task[t].pc = "idle"
    BY <2>2 DEF Licensed
  <2> QED
    BY <2>1, <2>2
<1>2. ASSUME NEW p \in Procs PROVE Counted(p)'
  <2>1. CASE mem'[p].hand = mem[p].hand /\ mem[p].hand.run # x /\ mem[p].hand # None
    <3>1. mem[p].hand.run \in Runs \ {x}
      BY <2>1 DEF TypeInv, MemInv, Memory, Claims
    <3> QED
      BY <2>1, <3>1 DEF StartInv, Counted, Ended, Terminal, Stamped
  <2>2. CASE mem'[p].hand = mem[p].hand /\ mem[p].hand = None
    BY <2>2 DEF Counted
  <2> QED
    BY <2>1, <2>2
<1>3. ASSUME NEW p \in Procs PROVE Waited(p)'
  <2>1. mem[p].recon \subseteq Runs
    BY DEF TypeInv, MemInv, Memory
  <2> QED
    BY <2>1 DEF StartInv, Waited, Terminal
<1>4. ASSUME NEW r \in Runs, Stamped(r)' PROVE Bounded(r)'
  BY <1>4 DEF StartInv, Bounded, Stamped
<1> QED
  BY <1>1, <1>2, <1>3, <1>4 DEF StartInv

\* A coroutine uses its attempt up at start_run, and there is no other of its run.
LEMMA TaskStart ==
    ASSUME TypeInv, SoleInv, StartInv, NEW t \in Tasks, TaskStep(t) \/ WaitTimeout(t)
    PROVE  StartInv'
<1>0. PICK r \in Runs, p \in Procs : r = task[t].run /\ p = task[t].at
  BY TaskStepFrame, MineTyped DEF TypeInv, Running
<1>1. Running(t) /\ Placed(t) /\ r = task[t].run /\ p = task[t].at
  BY <1>0, TaskStepFrame DEF SoleInv
<1>2. RowFrame(r) /\ MemFrame(t) /\ TaskFrame(t)
  BY <1>0, TaskStepFrame
<1>8. lapses \subseteq lapses'
  BY LapsesGrow DEF Next, Environment
<1>7. ASSUME NEW q \in Procs PROVE mem'[q].recon \subseteq mem[q].recon \ {r}
  <2>1. mem'[q].recon = mem[q].recon
    BY <1>2 DEF MemFrame
  <2>2. mem[q].recon # {} => q = p
    BY <1>1 DEF SoleInv, Handed, Placed, OneUp
  <2>3. r \notin mem[p].recon
    BY <1>1 DEF Placed
  <2> QED
    BY <2>1, <2>2, <2>3
<1>3. CASE starts' = starts
  <2>1. Stamped(r)' => Bounded(r)'
    BY <1>1, <1>2, <1>3, <1>8 DEF RowFrame, StartInv, Bounded, Stamped
  <2>2. ASSUME NEW u \in Tasks
        PROVE  Licensed(u)' \/ (task'[u] = task[u] /\ task[u].run # r)
    <3>1. CASE u = t /\ task'[t].pc # "admit"
      BY <1>2, <3>1 DEF TaskFrame, Licensed
    <3>2. CASE u = t /\ task'[t].pc = "admit"
      <4>1. Begin(t) /\ task'[t].run = r
        BY <1>1, <1>2, <3>2 DEF TaskFrame, Running
      <4>2. row' = row /\ task[t].pc = "begin" /\ ~Resumable(r)
        <5>1. task'[t].pc # "idle" /\ ~(task'[t].pc = "exec")
          BY <3>2
        <5>2. ~Leave(t, Forget(Mine(t), r)) /\ ~Goto(t, "exec")
          BY <1>1, <5>1 DEF Leave, Goto, NoTask, TypeInv, TaskInv, Task
        <5> QED
          BY <1>1, <4>1, <5>2 DEF Begin, Resumable, IsPack
      <4> QED
        BY <1>1, <1>3, <1>8, <3>2, <4>1, <4>2 DEF StartInv, Licensed, Ended, MayStart, Resumable, Stamped
    <3>3. CASE u # t /\ Running(u)
      BY <1>1, <1>2, <1>8, <3>3 DEF TaskFrame, SoleInv, OneExecutor, Running, Licensed, Stamped
    <3>4. CASE u # t /\ ~Running(u)
      BY <1>2, <3>4 DEF TaskFrame, Running, Licensed
    <3> QED
      BY <3>1, <3>2, <3>3, <3>4
  <2>3. ASSUME NEW q \in Procs
        PROVE  Counted(q)' \/ (mem'[q].hand = mem[q].hand /\ mem[q].hand.run # r)
    BY <1>1, <1>2, <1>8 DEF MemFrame, SoleInv, Handed, Executed, Counted, Stamped
  <2> QED
    BY <1>2, <1>3, <1>7, <1>8, <2>1, <2>2, <2>3, StartStep DEF RowFrame
<1>4. CASE /\ task[t].pc = "admit" /\ ~Ended(r) /\ Goto(t, "exec")
           /\ starts' = [starts EXCEPT ![r] = @ + 1]
  <2>1. Stamped(r) => MayStart(r)
    BY <1>1, <1>4 DEF StartInv, Licensed
  <2>2. Stamped(r)' => Bounded(r)'
    <3>1. starts'[r] = starts[r] + 1 /\ row'[r].attempts = row[r].attempts
      BY <1>1, <1>2, <1>4 DEF RowFrame, TypeInv, RestInv
    <3>2. starts[r] \in Nat /\ row[r].attempts \in Nat /\ MaxAttempts \in Nat
      BY <1>1, ParamsAssumption DEF TypeInv, RestInv, RowInv, Row
    <3> QED
      BY <1>8, <2>1, <3>1, <3>2 DEF MayStart, Bounded, Stamped
  <2>3. task'[t].pc = "exec"
    BY <1>4 DEF Goto, TypeInv, TaskInv, Task
  <2>4. ASSUME NEW u \in Tasks
        PROVE  Licensed(u)' \/ (task'[u] = task[u] /\ task[u].run # r)
    <3>1. CASE u = t
      BY <2>3, <3>1 DEF Licensed
    <3>2. CASE u # t /\ Running(u)
      BY <1>1, <1>2, <1>8, <3>2 DEF TaskFrame, SoleInv, OneExecutor, Running, Licensed, Stamped
    <3>3. CASE u # t /\ ~Running(u)
      BY <1>2, <3>3 DEF TaskFrame, Running, Licensed
    <3> QED
      BY <3>1, <3>2, <3>3
  <2>5. ASSUME NEW q \in Procs
        PROVE  Counted(q)' \/ (mem'[q].hand = mem[q].hand /\ mem[q].hand.run # r)
    BY <1>1, <1>2, <1>8 DEF MemFrame, SoleInv, Handed, Executed, Counted, Stamped
  <2>6. \A s \in Runs \ {r} : starts'[s] = starts[s]
    BY <1>4 DEF TypeInv, RestInv
  <2> QED
    BY <1>2, <1>7, <1>8, <2>2, <2>4, <2>5, <2>6, StartStep DEF RowFrame
<1>5. CASE ~Admit(t)
  BY <1>3, <1>5, TaskStepKept
<1>6. CASE Admit(t)
  BY <1>0, <1>3, <1>4, <1>6 DEF Admit
<1> QED
  BY <1>5, <1>6

\* Requests, beats and leases: rows end or keep their status, and nobody starts or stops.
LEMMA QuietStart ==
    ASSUME TypeInv, StartInv, starts' = starts, task' = task, lapses \subseteq lapses',
           \A s \in Runs : /\ row'[s].attempts = row[s].attempts
                           /\ row'[s].status = row[s].status \/ row'[s].status \in Terminal,
           \A p \in Procs : mem'[p].recon \subseteq mem[p].recon,
           \A p \in Procs : mem'[p].hand = mem[p].hand \/ mem'[p].hand = None
    PROVE  StartInv'
<1>1. PICK x : x \notin Runs /\ (\A t \in Tasks : Running(t) => task[t].run # x)
               /\ (\A p \in Procs : mem[p].hand # None => mem[p].hand.run # x)
  <2>1. \A t \in Tasks : Running(t) => task[t].run \in Runs
    BY MineTyped DEF TypeInv, Running
  <2>2. \A p \in Procs : mem[p].hand # None => mem[p].hand.run \in Runs
    BY DEF TypeInv, MemInv, Memory, Claims
  <2> QED
    BY <2>1, <2>2, ParamsAssumption
<1>2. \A t \in Tasks : Licensed(t)' \/ (task'[t] = task[t] /\ task[t].run # x)
  BY <1>1 DEF Licensed, Running
<1>3. \A p \in Procs : Counted(p)' \/ (mem'[p].hand = mem[p].hand /\ mem[p].hand.run # x)
  BY <1>1 DEF Counted
<1>4. \A p \in Procs : mem'[p].recon \subseteq mem[p].recon \ {x}
  BY <1>1 DEF TypeInv, MemInv, Memory
<1> QED
  BY <1>1, <1>2, <1>3, <1>4, StartStep

\* A coroutine more, that has its attempt.
LEMMA SpawnStart ==
    ASSUME TypeInv, StartInv, NEW p, NEW r, NEW t \in Tasks, Spawn(t, p, r), Licensed(t)',
           starts' = starts, lapses \subseteq lapses',
           \A s \in Runs : row'[s].attempts = row[s].attempts /\ row'[s].status = row[s].status,
           \A q \in Procs : /\ mem'[q].recon \subseteq mem[q].recon
                            /\ mem'[q].hand = mem[q].hand \/ mem'[q].hand = None
    PROVE  StartInv'
<1>1. \A u \in Tasks : Licensed(u)'
  <2>1. ASSUME NEW u \in Tasks, u # t, task[u].pc # "idle" PROVE Licensed(u)'
    <3>1. task[u].run \in Runs /\ task'[u] = task[u]
      BY <2>1, MineTyped, SpawnBegins DEF TypeInv
    <3> QED
      BY <3>1 DEF StartInv, Licensed, Ended, Resumable, MayStart, Stamped
  <2>2. ASSUME NEW u \in Tasks, u # t, task[u].pc = "idle" PROVE Licensed(u)'
    BY <2>2, SpawnBegins DEF Licensed
  <2> QED
    BY <2>1, <2>2
<1>2. ASSUME NEW q \in Procs PROVE Counted(q)' /\ Waited(q)'
  <2>1. Counted(q)'
    <3>1. CASE mem'[q].hand = None
      BY <3>1 DEF Counted
    <3>2. CASE mem'[q].hand = mem[q].hand /\ mem[q].hand # None
      <4>1. mem[q].hand.run \in Runs /\ Counted(q)
        BY <3>2 DEF StartInv, TypeInv, MemInv, Memory, Claims
      <4> QED
        BY <3>2, <4>1 DEF Counted, Ended, Stamped
    <3> QED
      BY <3>1, <3>2
  <2>2. Waited(q)'
    BY DEF StartInv, Waited, TypeInv, MemInv, Memory
  <2> QED
    BY <2>1, <2>2
<1> QED
  BY <1>1, <1>2 DEF StartInv, Bounded, Stamped

LEMMA EndStatus ==
    ASSUME TypeInv, NEW r \in Runs, NEW x \in Terminal, row' = row \/ End(r, x)
    PROVE  \A s \in Runs : /\ row'[s].attempts = row[s].attempts
                           /\ row'[s].status = row[s].status \/ row'[s].status \in Terminal
<1>1. CASE row' = row
  BY <1>1
<1>2. CASE End(r, x)
  BY <1>2 DEF TypeInv, RowInv, Row, End
<1> QED
  BY <1>1, <1>2

LEMMA RequestStart ==
    ASSUME TypeInv, StartInv, NEW q \in Reqs, RequestStep(q)
    PROVE  StartInv'
<1>1. task' = task /\ starts' = starts /\ lapses' = lapses
  BY DEF RequestStep, DecideCheck, CancelMark, RecordDecision, ResolveWaiter, CancelWrite, CancelFails,
         histVars
<1>2. row' = row \/ \E r \in Runs : End(r, "canceled")
  BY RequestRow
<1>3. \A s \in Runs : /\ row'[s].attempts = row[s].attempts
                      /\ row'[s].status = row[s].status \/ row'[s].status \in Terminal
  <2>1. CASE row' = row
    BY <2>1
  <2>2. CASE \E r \in Runs : End(r, "canceled")
    BY <2>2, EndStatus DEF Terminal
  <2> QED
    BY <1>2, <2>1, <2>2
<1>4. ASSUME NEW p \in Procs PROVE mem'[p].recon = mem[p].recon /\ mem'[p].hand = mem[p].hand
  BY RequestMemory
<1> QED
  BY <1>1, <1>3, <1>4, QuietStart

LEMMA ClaimNextStart ==
    ASSUME TypeInv, SoleInv, StartInv, NEW p \in Procs, ClaimNext(p)
    PROVE  StartInv'
<1> DEFINE tries(r) == IF row[r].status = "awaiting_approval" THEN row[r].attempts
                       ELSE row[r].attempts + 1
           first(r) == row[r].status = "queued"
<1>1. PICK r \in Runs :
        /\ Claimable(r)
        /\ row' = [row EXCEPT ![r].owner = p, ![r].lease = "fresh", ![r].attempts = tries(r),
                              ![r].status = IF @ = "queued" THEN "running" ELSE @]
        /\ mem' = [mem EXCEPT ![p].hand = [run |-> r, first |-> first(r), attempts |-> tries(r)]]
  BY DEF ClaimNext
<1>2. Live(p) /\ mem[p].recon = {} /\ task' = task /\ starts' = starts /\ lapses' = lapses
  BY DEF ClaimNext, Serving, histVars
<1>3. row[r] \in Row /\ starts[r] \in Nat /\ row[r].status \in Statuses /\ row[r].attempts \in Nat
  BY DEF TypeInv, RowInv, RestInv, Row
<1> DEFINE n == tries(r)
           b == first(r)
           s == IF row[r].status = "queued" THEN "running" ELSE row[r].status
           x == [row[r] EXCEPT !.owner = p, !.lease = "fresh", !.attempts = n, !.status = s]
           c == [run |-> r, first |-> b, attempts |-> n]
           m == [mem[p] EXCEPT !.hand = c]
<1>4. x.status = s /\ x.attempts = n /\ row' = [row EXCEPT ![r] = x]
  BY <1>1, <1>3 DEF Row
<1>5. m.hand = c /\ m.recon = mem[p].recon /\ mem' = [mem EXCEPT ![p] = m]
  BY <1>1 DEF TypeInv, MemInv, Memory
<1>6. n \in Nat /\ row[r].attempts <= n /\ (s = "running" /\ Stamped(r) => starts[r] < n)
  <2>1. Stamped(r) => starts[r] <= row[r].attempts
    BY DEF StartInv, Bounded
  <2>2. s = "running" => n = row[r].attempts + 1
    OBVIOUS
  <2> QED
    BY <1>3, <2>1, <2>2
<1>7. s = "awaiting_approval" => ~b
  OBVIOUS
<1>8. c.run = r /\ c.first = b /\ c.attempts = n
  OBVIOUS
<1> HIDE DEF x, m, c, n, b, s
<1>9. row'[r].status = s /\ row'[r].attempts = n /\ \A y \in Runs \ {r} : row'[y] = row[y]
  BY <1>4 DEF TypeInv, RowInv
<1>10. mem'[p].hand = c /\ mem'[p].recon = {} /\ \A q \in Procs \ {p} : mem'[q] = mem[q]
  BY <1>2, <1>5 DEF TypeInv, MemInv
<1>11. \A t \in Tasks : Running(t) /\ Stamped(r) => task[t].run # r
  <2>1. ASSUME NEW t \in Tasks, Running(t), Stamped(r) PROVE task[t].run # r
    <3>1. task[t].at \in Procs /\ Placed(t)
      BY <2>1, MineTyped DEF TypeInv, Running, SoleInv
    <3> QED
      BY <1>1, <2>1, <3>1 DEF Placed, Served, Claimable
  <2> QED
    BY <2>1
<1>12. Stamped(r)' => Bounded(r)'
  <2>1. Stamped(r)' => Bounded(r)
    BY <1>2 DEF StartInv, Stamped
  <2> QED
    BY <1>2, <1>3, <1>6, <1>9, <2>1, ParamsAssumption DEF Bounded
<1>13. ASSUME NEW t \in Tasks PROVE Licensed(t)' \/ (task'[t] = task[t] /\ task[t].run # r)
  BY <1>2, <1>11 DEF Licensed, Running, Stamped
<1>14. ASSUME NEW q \in Procs
       PROVE  Counted(q)' \/ (mem'[q].hand = mem[q].hand /\ mem[q].hand.run # r)
  <2>1. CASE q = p
    BY <1>2, <1>6, <1>7, <1>8, <1>9, <1>10, <2>1 DEF Counted, Stamped
  <2>2. CASE q # p
    BY <1>2, <1>10, <2>2 DEF SoleInv, Handed, OneUp, Counted
  <2> QED
    BY <2>1, <2>2
<1>15. ASSUME NEW q \in Procs PROVE mem'[q].recon \subseteq mem[q].recon \ {r}
  <2>1. q # p => mem[q].recon = {}
    BY <1>2 DEF SoleInv, Handed, OneUp
  <2> QED
    BY <1>10, <2>1
<1> QED
  BY <1>2, <1>9, <1>12, <1>13, <1>14, <1>15, StartStep

\* A claim whose attempts are used up, or of a prompt run that has started, starts nothing.
LEMMA DispatchClaimedStart ==
    ASSUME TypeInv, SoleInv, StartInv, NEW p \in Procs, DispatchClaimed(p)
    PROVE  StartInv'
<1>0. PICK r \in Runs : r = mem[p].hand.run
  BY DEF DispatchClaimed, TypeInv, MemInv, Memory, Claims
<1> DEFINE c == mem[p].hand
<1>1. /\ c # None /\ Live(p) /\ Counted(p) /\ c \in Claims /\ starts' = starts /\ lapses' = lapses
      /\ Stamped(r) => Served(r, p)
  BY <1>0 DEF DispatchClaimed, TypeInv, MemInv, Memory, SoleInv, Handed, StartInv, histVars
<1>2. \A q \in Procs : /\ mem'[q].recon = mem[q].recon
                       /\ mem'[q].hand = mem[q].hand \/ mem'[q].hand = None
  <2> DEFINE m == [mem[p] EXCEPT !.hand = None]
             n == [mem[p] EXCEPT !.hand = None, !.held = mem[p].held \cup {r}]
  <2>1. m.hand = None /\ m.recon = mem[p].recon /\ n.hand = None /\ n.recon = mem[p].recon
    BY DEF TypeInv, MemInv, Memory
  <2>2. mem' = [mem EXCEPT ![p] = m] \/ mem' = [mem EXCEPT ![p] = n]
    BY <1>0 DEF DispatchClaimed, TypeInv, MemInv, Memory
  <2> HIDE DEF m, n
  <2> QED
    BY <2>1, <2>2 DEF TypeInv, MemInv
<1>3. CASE End(r, "failed") /\ UNCHANGED task
  BY <1>1, <1>2, <1>3, EndStatus, QuietStart DEF Terminal
<1>4. CASE ~Refused(c) /\ row' = row /\ \E t \in Tasks : Spawn(t, p, r)
  <2>1. PICK t \in Tasks : Spawn(t, p, r)
    BY <1>4
  <2>2. ~Ended(r) /\ Stamped(r) /\ ~Resumable(r) => MayStart(r)
    <3> SUFFICES ASSUME ~Ended(r), Stamped(r), ~Resumable(r) PROVE MayStart(r)
      OBVIOUS
    <3>1. row[r].status \in Statuses
      BY DEF TypeInv, RowInv, Row
    <3>2. row[r].status \in Parked
      BY <1>1, <3>1 DEF Statuses, Served, Ended
    <3>3. /\ c.attempts = row[r].attempts
          /\ row[r].status = "running" => starts[r] < row[r].attempts
          /\ row[r].status = "awaiting_approval" => ~c.first
      BY <1>0, <1>1 DEF Counted
    <3>4. c.attempts <= MaxAttempts /\ (c.first \/ r \in PackRuns)
      BY <1>0, <1>1, <1>4, ParamsAssumption DEF Refused, Claims
    <3> QED
      BY <3>2, <3>3, <3>4 DEF Parked, Resumable, MayStart
  <2>3. Licensed(t)'
    BY <1>1, <1>4, <2>1, <2>2, SpawnBegins DEF Licensed, Ended, Resumable, MayStart, Stamped
  <2> QED
    BY <1>1, <1>2, <1>4, <2>1, <2>3, SpawnStart
<1> QED
  BY <1>0, <1>3, <1>4 DEF DispatchClaimed

LEMMA ReconcileRunStart ==
    ASSUME TypeInv, StartInv, NEW p \in Procs, NEW r \in Runs, ReconcileRun(p, r)
    PROVE  StartInv'
<1>1. r \in mem[p].recon /\ starts' = starts /\ lapses \subseteq lapses'
  BY DEF ReconcileRun, Lapse
<1>2. \A q \in Procs : mem'[q].recon \subseteq mem[q].recon /\ mem'[q].hand = mem[q].hand
  <2> DEFINE m == [mem[p] EXCEPT !.recon = mem[p].recon \ {r}]
             n == [mem[p] EXCEPT !.recon = mem[p].recon \ {r}, !.held = mem[p].held \cup {r}]
  <2>1. /\ m.hand = mem[p].hand /\ m.recon = mem[p].recon \ {r}
        /\ n.hand = mem[p].hand /\ n.recon = mem[p].recon \ {r}
    BY DEF TypeInv, MemInv, Memory
  <2>2. mem' = [mem EXCEPT ![p] = m] \/ mem' = [mem EXCEPT ![p] = n]
    BY DEF ReconcileRun, TypeInv, MemInv, Memory
  <2> HIDE DEF m, n
  <2> QED
    BY <2>1, <2>2 DEF TypeInv, MemInv
<1>3. CASE End(r, "failed") /\ UNCHANGED task
  BY <1>1, <1>2, <1>3, EndStatus, QuietStart DEF Terminal
<1>4. CASE /\ r \in PackRuns
           /\ row' = row \/ row' = [row EXCEPT ![r].owner = p, ![r].lease = "fresh"]
           /\ \E t \in Tasks : Spawn(t, p, r)
  <2>1. PICK t \in Tasks : Spawn(t, p, r)
    BY <1>4
  <2>2. \A s \in Runs : row'[s].attempts = row[s].attempts /\ row'[s].status = row[s].status
    BY <1>4 DEF TypeInv, RowInv, Row
  <2>3. Ended(r) \/ Resumable(r)
    BY <1>1, <1>4 DEF StartInv, Waited, Ended, Resumable
  <2>4. Licensed(t)'
    BY <2>1, <2>2, <2>3, SpawnBegins DEF Licensed, Ended, Resumable
  <2> QED
    BY <1>1, <1>2, <2>1, <2>2, <2>4, SpawnStart
<1> QED
  BY <1>3, <1>4 DEF ReconcileRun

LEMMA BootStart ==
    ASSUME TypeInv, SoleInv, StartInv, NEW p \in Procs, Boot(p)
    PROVE  StartInv'
<1> DEFINE m == [mem[p] EXCEPT !.recon = {r \in Runs : row[r].status = "awaiting_approval"}]
<1>1. row' = row /\ task' = task /\ starts' = starts /\ lapses' = lapses /\ mem' = [mem EXCEPT ![p] = m]
  BY DEF Boot, histVars
<1>2. m.hand = mem[p].hand /\ m.recon = {r \in Runs : row[r].status = "awaiting_approval"}
  BY DEF TypeInv, MemInv, Memory
<1> HIDE DEF m
<1>3. ASSUME NEW q \in Procs PROVE mem'[q].hand = mem[q].hand /\ (mem'[q].recon = mem[q].recon \/ Waited(q)')
  BY <1>1, <1>2 DEF TypeInv, MemInv, Waited
<1>4. \A t \in Tasks : Licensed(t)'
  BY <1>1 DEF StartInv, Licensed, Ended, Resumable, MayStart, Stamped
<1>5. \A q \in Procs : Counted(q)'
  BY <1>1, <1>3 DEF StartInv, Counted, Ended, Stamped
<1>6. \A q \in Procs : Waited(q)'
  BY <1>1, <1>3 DEF StartInv, Waited
<1> QED
  BY <1>1, <1>4, <1>5, <1>6 DEF StartInv, Bounded, Stamped

LEMMA CrashStart ==
    ASSUME TypeInv, StartInv, NEW p \in Procs, Crash(p)
    PROVE  StartInv'
<1>1. row' = row /\ starts' = starts /\ lapses' = lapses
  BY DEF Crash, histVars
<1>2. \A t \in Tasks : Licensed(t)'
  <2>1. ASSUME NEW t \in Tasks PROVE Licensed(t)'
    <3>1. task'[t] = task[t] \/ task'[t] = NoTask
      BY DEF Crash
    <3> QED
      BY <1>1, <3>1 DEF StartInv, Licensed, Ended, Resumable, MayStart, NoTask, Stamped
  <2> QED
    BY <2>1
<1>3. \A q \in Procs : mem'[q] = mem[q] \/ mem'[q] = Blank
  BY DEF Crash, TypeInv, MemInv
<1>4. \A q \in Procs : Counted(q)' /\ Waited(q)'
  BY <1>1, <1>3 DEF StartInv, Counted, Waited, Ended, Blank, Stamped
<1> QED
  BY <1>1, <1>2, <1>4 DEF StartInv, Bounded, Stamped

LEMMA EnvironmentStart ==
    ASSUME TypeInv, SoleInv, StartInv, Environment
    PROVE  StartInv'
<1>1. ASSUME NEW p \in Procs, Heartbeat(p) PROVE StartInv'
  <2>1. \A s \in Runs : row'[s].attempts = row[s].attempts /\ row'[s].status = row[s].status
    BY <1>1, SMTT(60) DEF Heartbeat, TypeInv, RowInv, Row
  <2>2. \A q \in Procs : mem'[q].recon = mem[q].recon /\ mem'[q].hand = mem[q].hand
    BY <1>1, HeartbeatMemory
  <2> QED
    BY <1>1, <2>1, <2>2, QuietStart DEF Heartbeat, histVars
<1>2. ASSUME NEW r \in Runs, LeaseExpires(r) PROVE StartInv'
  <2>1. \A s \in Runs : row'[s].attempts = row[s].attempts /\ row'[s].status = row[s].status
    BY <1>2 DEF LeaseExpires, TypeInv, RowInv, Row
  <2> QED
    BY <1>2, <2>1, QuietStart DEF LeaseExpires, histVars
<1> QED
  BY <1>1, <1>2, BootStart, CrashStart, TaskStart DEF Environment

-----------------------------------------------------------------------------
(* What a waiter holds is what the operator is shown.                      *)

Shown(t) ==
    /\ IsPack(t)
    /\ task[t].pc \in WaitPCs
    /\ ~Ended(task[t].run)
    /\ Stamped(task[t].run)
    => /\ row[task[t].run].pending = task[t].bytes
       /\ /\ task[t].pc # "open"
          /\ gate[task[t].run][NextGate(t)].state = "open"
          /\ <<task[t].run, NextGate(t)>> \notin lapses
          => gate[task[t].run][NextGate(t)].sha = task[t].bytes

ShownInv == \A t \in Tasks : Shown(t)

\* A step that leaves the drafts of a run, and its open gates, alone.
Quiet(r) ==
    /\ ~Ended(r)' => row'[r].pending = row[r].pending
    /\ \A g \in Gates : gate'[r][g].state = "open" =>
           gate[r][g].state = "open" /\ gate'[r][g].sha = gate[r][g].sha

LEMMA QuietShown ==
    ASSUME TypeInv, RowKept, NEW t \in Tasks, Shown(t), Running(t), task'[t] = task[t],
           Quiet(task[t].run), lapses \subseteq lapses'
    PROVE  Shown(t)'
<1>1. PICK r \in Runs : r = task[t].run
  BY MineTyped DEF TypeInv, Running
<1>2. ASSUME IsPack(t), task[t].pc \in WaitPCs PROVE NextGate(t) \in Gates
  BY <1>2 DEF TypeInv, TaskInv, Proper, HoldingPCs, WaitPCs, IsPack, NextGate
<1>3. ~Ended(r)' => ~Ended(r)
  BY DEF RowKept, RowStep, Ended
<1>4. /\ IsPack(t)' = IsPack(t) /\ NextGate(t)' = NextGate(t)
  BY DEF IsPack, NextGate
<1>5. Quiet(r)
  BY <1>1
<1> QED
  BY <1>1, <1>2, <1>3, <1>4, <1>5 DEF Shown, Quiet, Ended, Stamped

LEMMA TaskGate ==
    ASSUME TypeInv, NEW t \in Tasks, TaskStep(t) \/ WaitTimeout(t), NEW s \in Runs,
           s # task[t].run
    PROVE  gate'[s] = gate[s]
  BY DEF TaskStep, WaitTimeout, Begin, Admit, ExecPack, ExecPrompt, Finish, HoldClaim,
         HoldRegister, HoldPark, HoldOpen, WaitClaim, WaitLocal, WaitSlot, Decided,
         RewritePending, DispatchGate2, CompleteGate, ResumeRun, TypeInv, GateInv

\* The waiter parks on its draft, opens the gate over it, and waits.
LEMMA WaiterShown ==
    ASSUME TypeInv, NEW t \in Tasks, Shown(t), Waits(t)
    PROVE  Shown(t)'
<1>0. PICK r \in Runs : r = task[t].run
  BY MineTyped DEF TypeInv, Waits, HoldPark, HoldOpen, WaitClaim, WaitLocal
<1>7. lapses \subseteq lapses'
  BY LapsesGrow DEF Next, TaskStep, Waits
<1> SUFFICES ASSUME IsPack(t)', task'[t].pc \in WaitPCs, ~Ended(r)', task'[t].run = r, Stamped(r)'
             PROVE  Shown(t)'
  <2>1. TaskFrame(t)
    BY TaskStepFrame DEF Waits, TaskStep
  <2> QED
    BY <1>0, <2>1 DEF TaskFrame, Running, Shown, WaitPCs, Ended, Stamped
<1>1. IsPack(t) /\ task[t] \in Task /\ Stamped(r)
  BY <1>0, <1>7 DEF IsPack, TypeInv, TaskInv, Stamped
<1>2. ASSUME NEW m, Leave(t, m) PROVE FALSE
  BY <1>2 DEF Leave, NoTask, WaitPCs, TypeInv, TaskInv
<1>3. ASSUME NEW pc, Goto(t, pc)
      PROVE  /\ task'[t].pc = pc /\ task'[t].bytes = task[t].bytes
             /\ NextGate(t)' = NextGate(t) /\ IsPack(t)'
  <2> DEFINE x == [task[t] EXCEPT !.pc = pc]
  <2>1. x.pc = pc /\ x.bytes = task[t].bytes /\ x.done = task[t].done
    BY <1>1 DEF Task
  <2>2. task'[t] = x
    BY <1>3 DEF Goto, TypeInv, TaskInv
  <2> HIDE DEF x
  <2> QED
    BY <2>1, <2>2 DEF NextGate
<1>4. CASE HoldPark(t)
  <2>1. Goto(t, "decided") => FALSE
    BY <1>3 DEF WaitPCs
  <2>2. /\ Goto(t, "open")
        /\ row' = [row EXCEPT ![r].status = "awaiting_approval", ![r].pending = task[t].bytes]
    BY <1>0, <1>1, <1>2, <1>4, <2>1 DEF HoldPark
  <2>3. row'[r].pending = task[t].bytes
    BY <2>2 DEF TypeInv, RowInv, Row
  <2> QED
    BY <1>3, <2>2, <2>3 DEF Shown
<1>5. CASE HoldOpen(t)
  <2>1. Goto(t, "poll") /\ row' = row /\ task[t].pc = "open" /\ NextGate(t) \in Gates
    BY <1>1, <1>5 DEF HoldOpen, TypeInv, TaskInv, Proper, HoldingPCs, IsPack, NextGate
  <2>2. row[r].pending = task[t].bytes
    BY <1>0, <1>1, <2>1 DEF Shown, WaitPCs, Ended
  <2>3. gate'[r][NextGate(t)].state = "open" /\ <<r, NextGate(t)>> \notin lapses'
            => gate'[r][NextGate(t)].sha = task[t].bytes
    <3>1. CASE gate' = gate /\ CanClaim(t)
      BY <1>0, <3>1 DEF CanClaim
    <3>2. CASE gate' = gate /\ gate[r][NextGate(t)].sha = task[t].bytes
      BY <3>2
    <3>3. CASE gate' = [gate EXCEPT ![r][NextGate(t)] =
                           [NoGateRow EXCEPT !.state = "open", !.sha = task[t].bytes]]
      <4> DEFINE y == [NoGateRow EXCEPT !.state = "open", !.sha = task[t].bytes]
      <4>1. y.sha = task[t].bytes
        BY DEF NoGateRow
      <4> HIDE DEF y
      <4>2. gate'[r][NextGate(t)] = y
        BY <2>1, <3>3 DEF TypeInv, GateInv, y
      <4> QED
        BY <4>1, <4>2
    <3>4. CASE Lapse(r, NextGate(t))
      BY <3>4 DEF Lapse
    <3> QED
      BY <1>0, <1>5, <3>1, <3>2, <3>3, <3>4 DEF HoldOpen
  <2> QED
    BY <1>0, <1>3, <2>1, <2>2, <2>3 DEF Shown
<1>6. CASE WaitClaim(t) \/ WaitLocal(t)
  <2>1. ASSUME NEW q, NEW m, Decide(t, q, m) PROVE FALSE
    <3> DEFINE pc == IF req[q].kind = "reject" THEN "decided" ELSE "slot"
               x == [task[t] EXCEPT !.pc = pc, !.dec = q]
    <3>1. x.pc = pc /\ pc \notin WaitPCs
      BY <1>1 DEF Task, WaitPCs
    <3>2. task'[t] = x
      BY <2>1 DEF Decide, TypeInv, TaskInv
    <3> HIDE DEF x
    <3> QED
      BY <3>1, <3>2
  <2>2. /\ Goto(t, "local") \/ Goto(t, "poll")
        /\ row' = row /\ gate' = gate /\ task[t].pc \in {"poll", "local"}
    BY <1>0, <1>2, <1>6, <2>1 DEF WaitClaim, WaitLocal
  <2>3. ~Ended(r)
    BY <2>2 DEF Ended
  <2> QED
    BY <1>0, <1>1, <1>3, <1>7, <2>2, <2>3 DEF Shown, WaitPCs, Ended
<1> QED
  BY <1>4, <1>5, <1>6 DEF Waits

LEMMA TaskShown ==
    ASSUME TypeInv, SoleInv, ShownInv, NEW t \in Tasks, TaskStep(t) \/ WaitTimeout(t)
    PROVE  ShownInv'
<1>1. Running(t) /\ RowFrame(task[t].run) /\ TaskFrame(t) /\ RowKept
  BY TaskStepFrame, TaskRowKept
<1>5. lapses \subseteq lapses'
  BY LapsesGrow DEF Next, Environment
<1>2. ASSUME NEW u \in Tasks, u # t, Running(u) PROVE Shown(u)'
  <2>1. task'[u] = task[u] /\ task[u].run \in Runs
    BY <1>1, <1>2, MineTyped DEF TaskFrame, TypeInv, Running
  <2>2. CASE task[u].run = task[t].run
    <3>1. ~Stamped(task[u].run)
      BY <1>1, <1>2, <2>2 DEF SoleInv, OneExecutor, Running
    <3> QED
      BY <1>5, <2>1, <3>1 DEF Shown, Stamped
  <2>3. CASE task[u].run # task[t].run
    <3>1. Quiet(task[u].run)
      BY <1>1, <2>1, <2>3, TaskGate DEF RowFrame, Quiet
    <3> QED
      BY <1>1, <1>2, <1>5, <2>1, <3>1, QuietShown DEF ShownInv
  <2> QED
    BY <2>2, <2>3
<1>3. ASSUME NEW u \in Tasks, u # t, ~Running(u) PROVE Shown(u)'
  BY <1>1, <1>3 DEF TaskFrame, Running, Shown, WaitPCs
<1>4. Shown(t)'
  <2>1. CASE task'[t].pc \in WaitPCs
    BY <1>1, <2>1, WaiterShown DEF TaskFrame, ShownInv
  <2>2. CASE task'[t].pc \notin WaitPCs
    BY <2>2 DEF Shown
  <2> QED
    BY <2>1, <2>2
<1> QED
  BY <1>2, <1>3, <1>4 DEF ShownInv

\* Nobody else writes a draft, or opens a gate.
LEMMA OthersShown ==
    ASSUME TypeInv, ShownInv, RowKept, lapses \subseteq lapses', \A r \in Runs : Quiet(r),
           \A t \in Tasks : task'[t] = task[t] \/ task'[t].pc \notin WaitPCs
    PROVE  ShownInv'
<1>1. ASSUME NEW t \in Tasks PROVE Shown(t)'
  <2>1. CASE task'[t].pc \notin WaitPCs
    BY <2>1 DEF Shown
  <2>2. CASE task'[t] = task[t] /\ task[t].pc \in WaitPCs
    <3>1. Running(t) /\ task[t].run \in Runs
      BY <2>2, MineTyped DEF Running, WaitPCs, TypeInv
    <3> QED
      BY <2>2, <3>1, QuietShown DEF ShownInv
  <2> QED
    BY <2>1, <2>2
<1> QED
  BY <1>1 DEF ShownInv

LEMMA QuietRows ==
    ASSUME TypeInv, gate' = gate,
           \/ row' = row
           \/ \E r \in Runs, x \in Terminal : End(r, x)
           \/ \A r \in Runs : row'[r].pending = row[r].pending
    PROVE  \A r \in Runs : Quiet(r)
<1>1. ASSUME NEW r \in Runs, NEW x \in Terminal, End(r, x), NEW s \in Runs, ~Ended(s)'
      PROVE  row'[s].pending = row[s].pending
  BY <1>1 DEF End, Ended, TypeInv, RowInv, Row
<1> QED
  BY <1>1 DEF Quiet

LEMMA RequestShown ==
    ASSUME TypeInv, ShownInv, NEW q \in Reqs, RequestStep(q)
    PROVE  ShownInv'
<1>1. task' = task /\ RowKept /\ lapses \subseteq lapses'
  <2>1. lapses \subseteq lapses'
    BY LapsesGrow DEF Next
  <2> QED
    BY <2>1, RequestRowKept
       DEF RequestStep, DecideCheck, CancelMark, RecordDecision, ResolveWaiter, CancelWrite, CancelFails
<1>2. CASE RecordDecision(q)
  <2>1. PICK r \in Runs : r = req[q].run
    BY <1>2 DEF RecordDecision, TypeInv, ReqInv, Addressed
  <2>2. DecisionState(req[q].kind) # "open"
    BY DEF DecisionState
  <2>3. ASSUME NEW s \in Runs, NEW g \in Gates, gate'[s][g].state = "open"
        PROVE  gate'[s][g] = gate[s][g]
    <3> DEFINE y(h) == IF gate[r][h].state = "open"
                       THEN [gate[r][h] EXCEPT !.state = DecisionState(req[q].kind), !.by = q]
                       ELSE gate[r][h]
    <3>1. gate' = [gate EXCEPT ![r] = [h \in Gates |-> y(h)]]
      BY <1>2, <2>1 DEF RecordDecision
    <3>2. y(g).state = "open" => y(g) = gate[r][g]
      BY <2>2 DEF TypeInv, GateInv, GateRow
    <3> HIDE DEF y
    <3> QED
      BY <2>3, <3>1, <3>2 DEF TypeInv, GateInv
  <2>4. \A s \in Runs : Quiet(s)
    BY <1>2, <2>3 DEF RecordDecision, Quiet
  <2> QED
    BY <1>1, <2>4, OthersShown
<1>3. CASE CancelWrite(q)
  <2>1. PICK r \in Runs : r = req[q].run
    BY <1>3 DEF CancelWrite, TypeInv, ReqInv, Addressed
  <2>2. ASSUME NEW s \in Runs, NEW g \in Gates, gate'[s][g].state = "open"
        PROVE  gate'[s][g] = gate[s][g]
    <3> DEFINE y(h) == IF gate[r][h].state = "open"
                       THEN [gate[r][h] EXCEPT !.state = "rejected", !.applied = TRUE]
                       ELSE gate[r][h]
    <3>1. gate' = gate \/ gate' = [gate EXCEPT ![r] = [h \in Gates |-> y(h)]]
      BY <1>3, <2>1 DEF CancelWrite
    <3>2. y(g).state = "open" => y(g) = gate[r][g]
      BY DEF TypeInv, GateInv, GateRow
    <3> HIDE DEF y
    <3> QED
      BY <2>2, <3>1, <3>2 DEF TypeInv, GateInv
  <2>3. ASSUME NEW s \in Runs, ~Ended(s)' PROVE row'[s].pending = row[s].pending
    <3>1. End(r, "canceled")
      BY <1>3, <2>1 DEF CancelWrite
    <3> QED
      BY <2>3, <3>1 DEF End, Ended, Terminal, TypeInv, RowInv, Row
  <2>4. \A s \in Runs : Quiet(s)
    BY <2>2, <2>3 DEF Quiet
  <2> QED
    BY <1>1, <2>4, OthersShown
<1>4. CASE ~RecordDecision(q) /\ ~CancelWrite(q)
  <2>1. row' = row /\ gate' = gate
    BY <1>4 DEF RequestStep, DecideCheck, CancelMark, ResolveWaiter, CancelFails
  <2> QED
    BY <1>1, <2>1, QuietRows, OthersShown
<1> QED
  BY <1>2, <1>3, <1>4

LEMMA ProcShown ==
    ASSUME TypeInv, ShownInv, NEW p \in Procs,
           ProcStep(p) \/ Boot(p) \/ Crash(p) \/ Heartbeat(p)
    PROVE  ShownInv'
<1>5. lapses \subseteq lapses'
  BY LapsesGrow DEF Next, Environment
<1>1. gate' = gate /\ RowKept
  BY ProcRowKept DEF ProcStep, ClaimNext, DispatchClaimed, ReconcileRun, Boot, Crash, Heartbeat
<1>2. ASSUME NEW t \in Tasks, NEW r, Spawn(t, p, r), NEW u \in Tasks
      PROVE  task'[u] = task[u] \/ task'[u].pc \notin WaitPCs
  BY <1>2, SpawnBegins DEF WaitPCs
<1>3. ASSUME NEW u \in Tasks PROVE task'[u] = task[u] \/ task'[u].pc \notin WaitPCs
  <2>1. CASE Crash(p)
    BY <2>1 DEF Crash, NoTask, WaitPCs
  <2> QED
    BY <1>2, <2>1 DEF ProcStep, ClaimNext, DispatchClaimed, ReconcileRun, Boot, Heartbeat
<1>4. \/ row' = row
      \/ \E r \in Runs, x \in Terminal : End(r, x)
      \/ \A r \in Runs : row'[r].pending = row[r].pending
  <2>1. CASE ClaimNext(p)
    <3>1. ASSUME NEW r \in Runs, NEW n, NEW x,
                 row' = [row EXCEPT ![r].owner = p, ![r].lease = "fresh", ![r].attempts = n,
                                    ![r].status = x]
          PROVE  \A s \in Runs : row'[s].pending = row[s].pending
      BY <3>1 DEF TypeInv, RowInv, Row
    <3>2. PICK r \in Runs :
            row' = [row EXCEPT ![r].owner = p, ![r].lease = "fresh",
                               ![r].attempts = IF row[r].status = "awaiting_approval"
                                               THEN row[r].attempts ELSE row[r].attempts + 1,
                               ![r].status = IF @ = "queued" THEN "running" ELSE @]
      BY <2>1 DEF ClaimNext
    <3>3. row' = [row EXCEPT ![r].owner = p, ![r].lease = "fresh",
                             ![r].attempts = IF row[r].status = "awaiting_approval"
                                             THEN row[r].attempts ELSE row[r].attempts + 1,
                             ![r].status = IF row[r].status = "queued" THEN "running"
                                           ELSE row[r].status]
      BY <3>2 DEF TypeInv, RowInv, Row
    <3> QED
      BY <3>1, <3>3
  <2>2. CASE DispatchClaimed(p)
    <3>1. mem[p].hand.run \in Runs
      BY <2>2 DEF DispatchClaimed, TypeInv, MemInv, Memory, Claims
    <3> QED
      BY <2>2, <3>1 DEF DispatchClaimed, Terminal
  <2>3. ASSUME NEW r \in Runs, ReconcileRun(p, r),
               row' = [row EXCEPT ![r].owner = p, ![r].lease = "fresh"]
        PROVE  \A s \in Runs : row'[s].pending = row[s].pending
    BY <2>3 DEF TypeInv, RowInv, Row
  <2>4. CASE Heartbeat(p)
    BY <2>4, SMTT(60) DEF Heartbeat, TypeInv, RowInv, Row
  <2> QED
    BY <2>1, <2>2, <2>3, <2>4 DEF ProcStep, ReconcileRun, Boot, Crash, Terminal
<1> QED
  BY <1>1, <1>3, <1>4, <1>5, QuietRows, OthersShown

LEMMA NextShown == TypeInv /\ SoleInv /\ ShownInv /\ [Next]_vars => ShownInv'
<1> SUFFICES ASSUME TypeInv, SoleInv, ShownInv, [Next]_vars PROVE ShownInv'
  OBVIOUS
<1>4. lapses \subseteq lapses'
  BY LapsesGrow
<1>1. ASSUME NEW r \in Runs, LeaseExpires(r) PROVE ShownInv'
  <2>1. gate' = gate /\ task' = task /\ \A s \in Runs : row'[s].pending = row[s].pending
    BY <1>1 DEF LeaseExpires, TypeInv, RowInv, Row
  <2>2. RowKept
    BY NextRowKept
  <2> QED
    BY <1>4, <2>1, <2>2, QuietRows, OthersShown
<1>2. CASE Environment
  BY <1>1, <1>2, ProcShown, TaskShown DEF Environment
<1>3. CASE UNCHANGED vars
  <2>1. gate' = gate /\ task' = task /\ row' = row
    BY <1>3 DEF vars
  <2> QED
    BY <1>4, <2>1, NextRowKept, QuietRows, OthersShown
<1> QED
  BY <1>2, <1>3, ProcShown, TaskShown, RequestShown DEF Next, Rest

-----------------------------------------------------------------------------
ExecInv == SoleInv /\ StartInv

LEMMA InitExec == Init => ExecInv
<1> SUFFICES ASSUME Init PROVE SoleInv /\ StartInv
  BY DEF ExecInv
<1>1. /\ \A t \in Tasks : task[t].pc = "idle"
      /\ \A p \in Procs : ~Live(p) /\ mem[p].recon = {} /\ mem[p].hand = None
  BY DEF Init, NoTask, Blank, Live
<1>2. SoleInv
  BY <1>1 DEF SoleInv, OneUp, OneExecutor, Placed, Handed, Running
<1>3. StartInv
  BY <1>1, ParamsAssumption DEF Init, StartInv, Licensed, Counted, Waited, Bounded
<1> QED
  BY <1>2, <1>3

LEMMA NextExec == OneProcess /\ TypeInv /\ ExecInv /\ [Next]_vars => ExecInv'
<1> SUFFICES ASSUME OneProcess, TypeInv, ExecInv, [Next]_vars PROVE SoleInv' /\ StartInv'
  BY DEF ExecInv
<1> USE DEF ExecInv
<1>1. ASSUME NEW p \in Procs, NEW r \in Runs, ReconcileRun(p, r) PROVE SoleInv' /\ StartInv'
  <2>1. row[r].status # "queued"
    BY <1>1 DEF ReconcileRun, StartInv, Waited, Terminal
  <2> QED
    BY <1>1, <2>1, ReconcileRunSole, ReconcileRunStart
<1>2. ASSUME NEW p \in Procs, ProcStep(p) PROVE SoleInv' /\ StartInv'
  BY <1>1, <1>2, ClaimNextSole, ClaimNextStart, DispatchClaimedSole, DispatchClaimedStart DEF ProcStep
<1>3. CASE Environment
  BY <1>3, EnvironmentStart, BootSole, CrashSole, HeartbeatSole, LeaseExpiresSole, TaskSole
     DEF Environment
<1>4. CASE UNCHANGED vars
  <2>1. /\ row' = row /\ mem' = mem /\ task' = task /\ life' = life /\ starts' = starts
        /\ lapses' = lapses
    BY <1>4 DEF vars, histVars
  <2>2. SoleInv'
    BY <2>1, QuietSole DEF Served
  <2>3. StartInv'
    BY <2>1, QuietStart
  <2> QED
    BY <2>2, <2>3
<1> QED
  BY <1>2, <1>3, <1>4, TaskSole, TaskStart, RequestSole, RequestStart DEF Next, Rest

LEMMA ExecInvariant == OneProcess /\ Spec => []ExecInv
<1>1. Spec => []TypeInv
  BY InitTyped, NextTyped, PTL DEF Spec
<1> SUFFICES ASSUME OneProcess PROVE Spec => []ExecInv
  BY DEF OneProcess
<1>2. TypeInv /\ ExecInv /\ [Next]_vars => ExecInv'
  BY NextExec
<1> QED
  BY <1>1, <1>2, InitExec, PTL DEF Spec

\* With one process at a time, whose leases do not expire while it beats, no sequence of
\* crashes, reconciliations, claims and reclaims gives a run two executors, as long as each
\* of its resumptions took it over: a failed _take_ownership is the only way to a second.
THEOREM ExecutorIsAlone ==
    ASSUME OneProcess PROVE Spec => []OneExecutor
<1>1. ExecInv => OneExecutor
  BY DEF ExecInv, SoleInv
<1> QED
  BY <1>1, ExecInvariant, PTL

\* In the same deployment a job that kills its worker each time is started at most
\* MAX_ATTEMPTS times, as long as each of its resumptions took it over.
THEOREM CrashLoopsEnd ==
    ASSUME OneProcess PROVE Spec => []CrashLoopBounded
<1>1. ExecInv => CrashLoopBounded
  BY DEF ExecInv, StartInv, Bounded, CrashLoopBounded
<1> QED
  BY <1>1, ExecInvariant, PTL

\* H9 in the same deployment: of a run that was taken over, what the operator is shown is
\* what the waiter will act on, and so is what the open gate row has the hash of, unless a
\* failed opening (gates.py:112) left an older row.
THEOREM OperatorSeesWhatIsHeld ==
    ASSUME OneProcess PROVE Spec => []ShownIsHeld
<1>1. Init => ShownInv
  BY DEF Init, ShownInv, Shown, NoTask, WaitPCs
<1>2. Spec => []TypeInv
  BY InitTyped, NextTyped, PTL DEF Spec
<1>3. ExecInv => SoleInv
  BY DEF ExecInv
<1>4. ShownInv => ShownIsHeld
  BY DEF ShownInv, Shown, ShownIsHeld, WaitPCs
<1> QED
  BY <1>1, <1>2, <1>3, <1>4, NextShown, ExecInvariant, PTL DEF Spec

-----------------------------------------------------------------------------
(* Until the first restart: what a pack coroutine does between its draft   *)
(* and the manifest, and what Gate 2 has acted on.                         *)

GatePCs   == WaitPCs \cup {"slot", "decided", "rewrite", "dispatch", "flip"}
AtGate(r) == \E t \in Tasks : task[t].run = r /\ task[t].pc \in GatePCs
InHand(r) == \E p \in Procs : mem[p].hand # None /\ mem[p].hand.run = r

\* A coroutine's copy of the manifest is the file.
CopyOf(t) == Running(t) /\ IsPack(t) /\ task[t].done # None => task[t].done = manifest[task[t].run]
CopyInv   == \A t \in Tasks : CopyOf(t)

\* A rejected run is over: nobody executes it, claims it, or will reconcile it.
Over(r) == ~Executed(r) /\ ~InHand(r) /\ \A p \in Procs : r \notin mem[p].recon
OverInv == \A r \in Runs : row[r].status = "rejected" => Over(r)

\* No resumption has failed to take its run over: before a restart there is none.
AllStamped == \A r \in Runs : Stamped(r)

\* The moves of a pack coroutine t. Its run may leave awaiting_approval, not enter it:
Still(r) == row'[r].status = "awaiting_approval" => row[r].status = "awaiting_approval"
Books    == sent' = sent /\ manifest' = manifest
Holds(t) == task'[t].done = task[t].done /\ task'[t].bytes = task[t].bytes /\ manifest' = manifest

Ends(t) ==
    /\ ~Running(t)' /\ task[t].pc # "flip" /\ Books /\ Still(task[t].run)
    /\ task[t].pc \in GatePCs => row'[task[t].run].status \in Terminal
Prepares(t) ==
    /\ task[t].pc \notin GatePCs /\ task'[t].pc \notin GatePCs
    /\ Running(t)' /\ Books /\ Still(task[t].run)
    /\ task'[t].done \in {task[t].done, manifest[task[t].run]}
Parks(t) ==
    /\ task[t].pc = "park" /\ Holds(t) /\ sent' = sent
    /\ task'[t].pc = "open" \/ (task'[t].pc = "decided" /\ task[t].dec # None)
Awaits(t) == task[t].pc \in WaitPCs /\ task'[t].pc \in WaitPCs /\ Holds(t) /\ sent' = sent
Hears(t) ==
    /\ task[t].pc \in {"poll", "local"} /\ task'[t].pc \in {"slot", "decided"}
    /\ Holds(t) /\ sent' = sent /\ Says(task'[t].dec, task[t].run)
Obeys(t) ==
    /\ task[t].pc \in {"slot", "decided", "rewrite"}
    /\ task'[t].pc \in {"decided", "rewrite", "dispatch"}
    /\ Holds(t) /\ sent' = sent /\ task'[t].dec = task[t].dec
Sends(t) ==
    /\ task[t].pc = "dispatch" /\ task'[t].pc = "flip" /\ Holds(t)
    /\ sent' = sent \cup {[run |-> task[t].run, gate |-> NextGate(t), bytes |-> task[t].bytes,
                           by |-> task[t].dec]}
Flips(t) ==
    /\ task[t].pc = "flip" /\ task'[t].pc = "resume" /\ task'[t].done = NextGate(t)
    /\ manifest' = [manifest EXCEPT ![task[t].run] = NextGate(t)] /\ sent' = sent

PackMove(t) == Ends(t) \/ Prepares(t) \/ Parks(t) \/ Awaits(t) \/ Hears(t) \/ Obeys(t) \/ Sends(t) \/ Flips(t)

LEMMA GotoMove ==
    ASSUME TypeInv, NEW t \in Tasks, NEW pc, Goto(t, pc)
    PROVE  /\ task'[t].pc = pc /\ task'[t].done = task[t].done
           /\ task'[t].bytes = task[t].bytes /\ task'[t].dec = task[t].dec
<1> DEFINE x == [task[t] EXCEPT !.pc = pc]
<1>1. x.pc = pc /\ x.done = task[t].done /\ x.bytes = task[t].bytes /\ x.dec = task[t].dec
  BY DEF TypeInv, TaskInv, Task
<1>2. task'[t] = x
  BY DEF Goto, TypeInv, TaskInv
<1> HIDE DEF x
<1> QED
  BY <1>1, <1>2

LEMMA LeaveMove ==
    ASSUME TypeInv, NEW t \in Tasks, NEW m, Leave(t, m) PROVE ~Running(t)'
  BY DEF Leave, TypeInv, TaskInv, NoTask, Running

\* A write of the row that does not park it.
LEMMA StillRow ==
    ASSUME TypeInv, NEW r \in Runs
    PROVE  /\ row' = row => Still(r)
           /\ \A s \in Terminal : End(r, s) => Still(r) /\ row'[r].status \in Terminal
           /\ row' = [row EXCEPT ![r].status = "running"] => Still(r)
           /\ row' = [row EXCEPT ![r].status = "running", ![r].pending = None] => Still(r)
<1>1. row[r] \in Row /\ row = [s \in Runs |-> row[s]]
  BY DEF TypeInv, RowInv
<1>2. ASSUME NEW s \in Terminal, End(r, s) PROVE Still(r) /\ row'[r].status \in Terminal
  BY <1>1, <1>2 DEF End, Ended, Terminal, Still, Row
<1>3. ASSUME row' = [row EXCEPT ![r].status = "running"] PROVE Still(r)
  BY <1>1, <1>3 DEF Still, Row
<1>4. ASSUME row' = [row EXCEPT ![r].status = "running", ![r].pending = None] PROVE Still(r)
  BY <1>1, <1>4 DEF Still, Row
<1> QED
  BY <1>2, <1>3, <1>4 DEF Still

\* A turn of the pipeline writes the file it read, or its own copy of it.
LEMMA ExecReads ==
    ASSUME TypeInv, NEW t \in Tasks, ExecPack(t), IsPack(t), CopyOf(t),
           NEW r \in Runs, r = task[t].run
    PROVE  /\ task[t].pc = "exec" /\ sent' = sent /\ manifest' = manifest /\ Still(r)
           /\ \/ \E n : Leave(t, n)
              \/ task'[t].pc \in {"claim", "finish"} /\ task'[t].done = manifest[r]
<1> DEFINE d == IF task[t].done = None THEN manifest[r] ELSE task[t].done
<1>1. task[t].pc = "exec" /\ sent' = sent
  BY Zenon DEF ExecPack, histVars
<1>2. d = manifest[r]
  BY <1>1 DEF CopyOf, Running
<1>3. manifest' = [manifest EXCEPT ![r] = d]
  BY Zenon DEF ExecPack
<1>4. row' = row \/ End(r, "failed")
  BY Zenon DEF ExecPack
<1>5. \/ \E n : Leave(t, n)
      \/ \E b : task' = [task EXCEPT ![t] =
             [@ EXCEPT !.pc = "claim", !.done = d, !.bytes = b, !.dec = None]]
      \/ task' = [task EXCEPT ![t] = [@ EXCEPT !.pc = "finish", !.done = d]]
  BY Zenon DEF ExecPack
<1> HIDE DEF d
<1>6. manifest' = manifest
  BY <1>2, <1>3 DEF TypeInv, RestInv
<1>7. Still(r)
  BY <1>4, StillRow DEF Terminal
<1>8. ASSUME NEW b, task' = [task EXCEPT ![t] =
               [@ EXCEPT !.pc = "claim", !.done = d, !.bytes = b, !.dec = None]]
      PROVE  task'[t].pc = "claim" /\ task'[t].done = d
  BY <1>8 DEF TypeInv, TaskInv, Task
<1>9. ASSUME task' = [task EXCEPT ![t] = [@ EXCEPT !.pc = "finish", !.done = d]]
      PROVE  task'[t].pc = "finish" /\ task'[t].done = d
  BY <1>9 DEF TypeInv, TaskInv, Task
<1>10. \/ \E n : Leave(t, n)
       \/ task'[t].pc \in {"claim", "finish"} /\ task'[t].done = d
  BY Zenon, <1>5, <1>8, <1>9
<1> QED
  BY <1>1, <1>2, <1>6, <1>7, <1>10

\* Every step of a pack coroutine is one of the moves.
LEMMA EveryMove ==
    ASSUME TypeInv, SaysInv, NEW t \in Tasks, TaskStep(t) \/ WaitTimeout(t), IsPack(t), CopyOf(t)
    PROVE  PackMove(t)
<1>0. PICK r \in Runs : r = task[t].run
  BY TaskStepFrame, MineTyped DEF TypeInv, Running
<1> DEFINE m == Mine(t)
<1>1. /\ row' = row => Still(r)
      /\ \A s \in Terminal : End(r, s) => Still(r) /\ row'[r].status \in Terminal
      /\ row' = [row EXCEPT ![r].status = "running"] => Still(r)
      /\ row' = [row EXCEPT ![r].status = "running", ![r].pending = None] => Still(r)
  BY StillRow
<1>2. \A s \in {"failed", "rejected", "ok"} : s \in Terminal
  BY DEF Terminal
<1>3. ASSUME NEW n, Leave(t, n) PROVE ~Running(t)'
  BY <1>3, LeaveMove
<1>4. ASSUME NEW pc, Goto(t, pc)
      PROVE  /\ task'[t].pc = pc /\ task'[t].done = task[t].done
             /\ task'[t].bytes = task[t].bytes /\ task'[t].dec = task[t].dec
  BY <1>4, GotoMove
<1>5. /\ \A pc \in {"begin", "admit", "exec", "claim", "register", "park", "resume", "finish"} :
             pc \notin GatePCs /\ pc # "idle" /\ pc # "flip"
      /\ \A pc \in {"open", "poll", "local"} : pc \in WaitPCs /\ pc \in GatePCs
  BY DEF GatePCs, WaitPCs
<1> USE <1>0, <1>1, <1>2, <1>3, <1>4, <1>5
<1>6. CASE Begin(t) \/ Admit(t)
  <2>1. Books /\ Still(r) /\ task[t].pc \in {"begin", "admit"}
    BY <1>6 DEF Begin, Admit, histVars, Books
  <2>2. CASE \E n : Leave(t, n)
    BY <2>1, <2>2 DEF PackMove, Ends
  <2>3. CASE \E pc \in {"exec", "admit"} : Goto(t, pc)
    BY <2>1, <2>3 DEF PackMove, Prepares, Running
  <2> QED
    BY <1>6, <2>2, <2>3 DEF Begin, Admit
<1>7. CASE ExecPack(t)
  <2>1. /\ task[t].pc = "exec" /\ Books /\ Still(r)
        /\ \/ \E n : Leave(t, n)
           \/ task'[t].pc \in {"claim", "finish"} /\ task'[t].done = manifest[r]
    BY <1>7, ExecReads DEF Books
  <2>2. CASE \E n : Leave(t, n)
    BY <2>1, <2>2 DEF PackMove, Ends
  <2>3. CASE task'[t].pc \in {"claim", "finish"} /\ task'[t].done = manifest[r]
    BY <2>1, <2>3 DEF PackMove, Prepares, Running
  <2> QED
    BY <2>1, <2>2, <2>3
<1>8. CASE Finish(t) \/ WaitTimeout(t)
  <2>1. Books /\ Still(r) /\ task[t].pc \in {"finish", "poll"} /\ \E n : Leave(t, n)
    BY <1>8 DEF Finish, WaitTimeout, histVars, Books
  <2>2. task[t].pc = "poll" => row'[r].status \in Terminal
    BY <1>8 DEF Finish, WaitTimeout
  <2> QED
    BY <2>1, <2>2 DEF PackMove, Ends
<1>9. CASE HoldClaim(t)
  <2>1. Books /\ Still(r) /\ task[t].pc = "claim"
    BY <1>9 DEF HoldClaim, histVars, Books
  <2>2. \/ Goto(t, "register")
        \/ \E q : task' = [task EXCEPT ![t] = [@ EXCEPT !.pc = "register", !.dec = q]]
    BY Zenon, <1>9 DEF HoldClaim
  <2>3. ASSUME NEW q, task' = [task EXCEPT ![t] = [@ EXCEPT !.pc = "register", !.dec = q]]
        PROVE  task'[t].pc = "register" /\ task'[t].done = task[t].done
    BY <2>3 DEF TypeInv, TaskInv, Task
  <2>4. task'[t].pc = "register" /\ task'[t].done = task[t].done
    BY Zenon, <1>4, <2>2, <2>3
  <2> QED
    BY <2>1, <2>4 DEF PackMove, Prepares, Running
<1>10. CASE HoldRegister(t)
  <2>1. Books /\ Still(r) /\ task[t].pc = "register"
    BY <1>10 DEF HoldRegister, histVars, Books
  <2>2. (\E n : Leave(t, n)) \/ Goto(t, "park")
    BY <1>10 DEF HoldRegister
  <2> QED
    BY <2>1, <2>2 DEF PackMove, Ends, Prepares, Running
<1>11. CASE HoldPark(t)
  <2>1. Books /\ task[t].pc = "park"
    BY <1>11 DEF HoldPark, histVars, Books
  <2>2. CASE \E n : Leave(t, n) /\ row' = row
    BY <2>1, <2>2 DEF PackMove, Ends
  <2>3. CASE Goto(t, "open") \/ (Goto(t, "decided") /\ task[t].dec # None)
    BY <2>1, <2>3 DEF PackMove, Parks, Holds, Books
  <2> QED
    BY <1>11, <2>2, <2>3 DEF HoldPark
<1>12. CASE HoldOpen(t)
  <2>1. Books /\ task[t].pc = "open" /\ Goto(t, "poll")
    BY <1>12 DEF HoldOpen, histVars, Books
  <2> QED
    BY <2>1 DEF PackMove, Awaits, Holds, Books
<1>13. ASSUME NEW q, NEW n, Decide(t, q, n), Says(q, r), task[t].pc \in {"poll", "local"}, Books
       PROVE  PackMove(t)
  <2> DEFINE pc == IF req[q].kind = "reject" THEN "decided" ELSE "slot"
             x == [task[t] EXCEPT !.pc = pc, !.dec = q]
  <2>1. /\ x.pc = pc /\ pc \in {"slot", "decided"} /\ x.dec = q
        /\ x.done = task[t].done /\ x.bytes = task[t].bytes
    BY DEF TypeInv, TaskInv, Task
  <2>2. task'[t] = x
    BY <1>13 DEF Decide, TypeInv, TaskInv
  <2> HIDE DEF x, pc
  <2>3. task'[t].pc \in {"slot", "decided"} /\ Holds(t) /\ Says(task'[t].dec, task[t].run)
    BY <1>13, <2>1, <2>2 DEF Holds, Books
  <2> QED
    BY <1>13, <2>3 DEF PackMove, Hears, Books
<1>14. CASE WaitClaim(t)
  <2>1. Books /\ task[t].pc = "poll"
    BY <1>14 DEF WaitClaim, histVars, Books
  <2>2. CASE CanClaim(t) /\ Decide(t, gate[r][NextGate(t)].by, [m EXCEPT !.decided[r] = None])
    <3>1. NextGate(t) \in Gates
      BY <2>1 DEF TypeInv, TaskInv, Proper, HoldingPCs, NextGate, IsPack
    <3>2. Says(gate[r][NextGate(t)].by, r)
      BY <2>2, <3>1 DEF CanClaim, SaysInv, GateSays
    <3> QED
      BY <1>13, <2>1, <2>2, <3>2
  <2>3. CASE Goto(t, "local")
    BY <2>1, <2>3 DEF PackMove, Awaits, Holds, Books
  <2> QED
    BY <1>14, <2>2, <2>3 DEF WaitClaim
<1>15. CASE WaitLocal(t)
  <2>1. Books /\ task[t].pc = "local" /\ row' = row
    BY <1>15 DEF WaitLocal, histVars, Books
  <2>2. ASSUME NEW n, Decide(t, m.decided[r], n), m.decided[r] # None PROVE PackMove(t)
    <3>1. Says(m.decided[r], r)
      BY <2>1, <2>2, MineTyped DEF TypeInv, SaysInv, DictSays, Mine
    <3> QED
      BY <1>13, <2>1, <2>2, <3>1
  <2>3. CASE Ended(r) /\ \E n : Leave(t, n)
    BY <2>1, <2>3 DEF PackMove, Ends, Ended
  <2>4. CASE Goto(t, "poll")
    BY <2>1, <2>4 DEF PackMove, Awaits, Holds, Books
  <2> QED
    BY <1>15, <2>2, <2>3, <2>4 DEF WaitLocal
<1>16. CASE WaitSlot(t)
  <2>1. Books /\ task[t].pc = "slot" /\ Goto(t, "decided")
    BY <1>16 DEF WaitSlot, histVars, Books
  <2> QED
    BY <2>1 DEF PackMove, Obeys, Holds, Books
<1>17. CASE Decided(t) \/ RewritePending(t)
  <2>1. Books /\ task[t].pc \in {"decided", "rewrite"}
    BY <1>17 DEF Decided, RewritePending, histVars, Books
  <2>2. CASE \E n, s : s \in {"failed", "rejected"} /\ End(r, s) /\ Leave(t, n)
    BY <2>1, <2>2 DEF PackMove, Ends
  <2>3. CASE \E pc \in {"rewrite", "dispatch"} : Goto(t, pc)
    BY <2>1, <2>3 DEF PackMove, Obeys, Holds, Books
  <2> QED
    BY <1>17, <2>2, <2>3 DEF Decided, RewritePending
<1>18. CASE DispatchGate2(t)
  <2>1. manifest' = manifest /\ task[t].pc = "dispatch"
    BY <1>18 DEF DispatchGate2
  <2>2. CASE End(r, "failed") /\ (\E n : Leave(t, n)) /\ sent' = sent
    BY <2>1, <2>2 DEF PackMove, Ends, Books
  <2>3. CASE /\ sent' = sent \cup {[run |-> r, gate |-> NextGate(t), bytes |-> task[t].bytes,
                                    by |-> task[t].dec]}
             /\ Goto(t, "flip")
    BY <2>1, <2>3 DEF PackMove, Sends, Holds
  <2> QED
    BY <1>18, <2>2, <2>3 DEF DispatchGate2
<1>19. CASE CompleteGate(t)
  <2>1. task'[t].pc = "resume" /\ task'[t].done = NextGate(t)
    BY <1>19 DEF CompleteGate, TypeInv, TaskInv, Task
  <2> QED
    BY <1>19, <2>1 DEF CompleteGate, PackMove, Flips, histVars
<1>20. CASE ResumeRun(t)
  <2>1. Books /\ Still(r) /\ task[t].pc = "resume"
    BY <1>20 DEF ResumeRun, histVars, Books
  <2>2. task' = [task EXCEPT ![t] = [@ EXCEPT !.pc = "exec", !.done = task[t].done]]
    BY <1>20 DEF ResumeRun
  <2>3. task'[t].pc = "exec" /\ task'[t].done = task[t].done
    BY <2>2 DEF TypeInv, TaskInv, Task
  <2> QED
    BY <2>1, <2>3 DEF PackMove, Prepares, Running
<1> QED
  BY <1>6, <1>7, <1>8, <1>9, <1>10, <1>11, <1>12, <1>14, <1>15, <1>16, <1>17, <1>18, <1>19, <1>20
     DEF TaskStep, ExecPrompt

\* A prompt coroutine neither sends nor touches a manifest; nor does anyone the manifest
\* of another run.
LEMMA TaskBooks ==
    ASSUME TypeInv, SaysInv, CopyInv, NEW t \in Tasks, TaskStep(t) \/ WaitTimeout(t)
    PROVE  /\ IsPack(t) => PackMove(t)
           /\ ~IsPack(t) => Books
           /\ \A s \in Runs : s # task[t].run => manifest'[s] = manifest[s]
<1>1. IsPack(t) => PackMove(t)
  BY EveryMove DEF CopyInv
<1>2. ASSUME ~IsPack(t) PROVE Books
  <2>1. task[t].pc \notin {"dispatch", "flip"}
    BY <1>2 DEF TypeInv, TaskInv, Proper, IsPack
  <2>2. ~ExecPack(t) /\ ~DispatchGate2(t) /\ ~CompleteGate(t)
    BY Zenon, <1>2, <2>1 DEF ExecPack, DispatchGate2, CompleteGate
  <2> QED
    BY Zenon, <2>2 DEF TaskStep, WaitTimeout, Books, histVars, Begin, Admit, ExecPrompt, Finish, HoldClaim,
       HoldRegister, HoldPark, HoldOpen, WaitClaim, WaitLocal, WaitSlot, Decided, RewritePending, ResumeRun
<1>3. PackMove(t) => manifest' = manifest \/ manifest' = [manifest EXCEPT ![task[t].run] = NextGate(t)]
  BY DEF PackMove, Ends, Prepares, Parks, Awaits, Hears, Obeys, Sends, Flips, Books, Holds
<1> QED
  BY <1>1, <1>2, <1>3 DEF Books, TypeInv, RestInv

LEMMA TaskCopy ==
    ASSUME TypeInv, SaysInv, SoleInv, AllStamped, CopyInv, NEW t \in Tasks, TaskStep(t) \/ WaitTimeout(t)
    PROVE  CopyInv'
<1>1. PICK r \in Runs : r = task[t].run
  BY TaskStepFrame, MineTyped DEF TypeInv, Running
<1>2. Running(t) /\ TaskFrame(t)
  BY TaskStepFrame
<1>3. /\ IsPack(t) => PackMove(t)
      /\ \A s \in Runs : s # r => manifest'[s] = manifest[s]
  BY <1>1, TaskBooks
<1>4. ASSUME NEW u \in Tasks, u # t PROVE CopyOf(u)'
  <2>1. task'[u] = task[u]
    BY <1>2, <1>4 DEF TaskFrame
  <2>2. Running(u) => task[u].run \in Runs /\ task[u].run # r
    BY <1>1, <1>2, <1>4, MineTyped DEF TypeInv, SoleInv, OneExecutor, Running, AllStamped
  <2> QED
    BY <1>3, <2>1, <2>2 DEF CopyInv, CopyOf, Running, IsPack
<1>5. CopyOf(t)'
  <2> SUFFICES ASSUME Running(t)', IsPack(t)', task'[t].done # None
               PROVE  task'[t].done = manifest'[r] /\ task'[t].run = r
    BY DEF CopyOf
  <2>1. task'[t].run = r /\ IsPack(t) /\ PackMove(t)
    BY <1>1, <1>2, <1>3 DEF TaskFrame, IsPack
  <2>2. task[t].done # None => task[t].done = manifest[r]
    BY <1>1, <1>2, <2>1 DEF CopyInv, CopyOf
  <2>3. CASE Flips(t)
    BY <1>1, <2>1, <2>3 DEF Flips, TypeInv, RestInv
  <2>4. CASE ~Flips(t)
    BY <1>1, <2>1, <2>2, <2>4
       DEF PackMove, Ends, Prepares, Parks, Awaits, Hears, Obeys, Sends, Books, Holds
  <2> QED
    BY <2>1, <2>3, <2>4
<1> QED
  BY <1>4, <1>5 DEF CopyInv

\* Only the coroutine that was told so writes "rejected", and that is its last step.
LEMMA Rejecting ==
    ASSUME TypeInv, NEW t \in Tasks, TaskStep(t) \/ WaitTimeout(t), NEW r \in Runs,
           r = task[t].run, row[r].status # "rejected", row'[r].status = "rejected"
    PROVE  ~Running(t)'
<1>1. row[r] \in Row
  BY DEF TypeInv, RowInv
<1>2. row' = row => FALSE
  OBVIOUS
<1>3. \A s \in {"failed", "ok"} : End(r, s) => FALSE
  BY DEF End, TypeInv, RowInv, Row
<1>4. \A s \in {"running", "awaiting_approval"} : \A y :
          row' = [row EXCEPT ![r].status = s, ![r].pending = y] => FALSE
  BY DEF TypeInv, RowInv, Row
<1>5. row' = [row EXCEPT ![r].status = "running"] => FALSE
  BY DEF TypeInv, RowInv, Row
<1>6. \A y : row' = [row EXCEPT ![r].pending = y] => FALSE
  BY DEF TypeInv, RowInv, Row
<1>7. CASE Decided(t)
  BY <1>2, <1>3, <1>7, LeaveMove DEF Decided
<1>8. CASE Begin(t) \/ Admit(t) \/ Finish(t) \/ WaitTimeout(t) \/ DispatchGate2(t)
  BY <1>2, <1>3, <1>5, <1>8 DEF Begin, Admit, Finish, WaitTimeout, DispatchGate2
<1>9. CASE ExecPack(t) \/ ExecPrompt(t)
  BY Zenon, <1>2, <1>3, <1>9 DEF ExecPack, ExecPrompt
<1>10. CASE HoldClaim(t) \/ HoldRegister(t) \/ HoldOpen(t) \/ WaitClaim(t) \/ WaitLocal(t)
            \/ WaitSlot(t) \/ CompleteGate(t)
  BY Zenon, <1>2, <1>10
     DEF HoldClaim, HoldRegister, HoldOpen, WaitClaim, WaitLocal, WaitSlot, CompleteGate
<1>11. CASE HoldPark(t) \/ RewritePending(t) \/ ResumeRun(t)
  BY <1>2, <1>4, <1>6, <1>11 DEF HoldPark, RewritePending, ResumeRun
<1> QED
  BY <1>7, <1>8, <1>9, <1>10, <1>11 DEF TaskStep

LEMMA TaskOver ==
    ASSUME TypeInv, SoleInv, AllStamped, OverInv, NEW t \in Tasks, TaskStep(t) \/ WaitTimeout(t)
    PROVE  OverInv'
<1>1. PICK r \in Runs : r = task[t].run
  BY TaskStepFrame, MineTyped DEF TypeInv, Running
<1>2. Running(t) /\ RowFrame(r) /\ MemFrame(t) /\ TaskFrame(t) /\ Placed(t)
  BY <1>1, TaskStepFrame DEF SoleInv
<1>3. \A s \in Runs : InHand(s)' => InHand(s)
  BY <1>2 DEF MemFrame, InHand
<1>4. \A s : Executed(s)' => Executed(s)
  BY <1>2 DEF TaskFrame, Executed, Running
<1>5. ASSUME NEW s \in Runs, row'[s].status = "rejected", row[s].status = "rejected"
      PROVE  Over(s)'
  BY <1>2, <1>3, <1>4, <1>5 DEF OverInv, Over, MemFrame
<1>6. ASSUME row'[r].status = "rejected", row[r].status # "rejected"
      PROVE  Over(r)'
  <2>1. ~Running(t)'
    BY <1>1, <1>6, Rejecting
  <2>2. ~(Executed(r)')
    BY <1>1, <1>2, <2>1 DEF TaskFrame, Executed, SoleInv, OneExecutor, Running, AllStamped
  <2>3. ~InHand(r)
    BY <1>1, <1>2 DEF SoleInv, Handed, InHand, Executed, AllStamped
  <2>4. \A p \in Procs : r \notin mem[p].recon
    BY <1>1, <1>2, MineTyped DEF SoleInv, Handed, Placed, OneUp, TypeInv, Running
  <2> QED
    BY <1>2, <1>3, <2>2, <2>3, <2>4 DEF Over, MemFrame
<1>7. \A s \in Runs : s # r => row'[s] = row[s]
  BY <1>2 DEF RowFrame
<1> QED
  BY <1>5, <1>6, <1>7 DEF OverInv

\* Nobody was asked about run r, and nobody can be.
Unasked(r) == row[r].status # "awaiting_approval" /\ \A q \in Reqs : ~Says(q, r)

\* So it is while the run, not dead, is on its way to its first gate.
Early(r) ==
    /\ manifest[r] = 0
    /\ ~AtGate(r)
    /\ ~Ended(r) \/ Executed(r) \/ InHand(r)
    => Unasked(r)

\* At the first gate all who decided saw what the waiter holds, so did the one it obeys.
Looking(t) ==
    IsPack(t) /\ task[t].done = 0 =>
        /\ task[t].pc \in WaitPCs =>
               \A q \in Reqs : Says(q, task[t].run) => req[q].saw = task[t].bytes
        /\ task[t].pc \in {"slot", "decided", "rewrite", "dispatch"} =>
               req[task[t].dec].saw = task[t].bytes

\* A gate that was acted on is complete in the file, or about to be.
Acted(e) ==
    \/ e.gate <= manifest[e.run]
    \/ \E t \in Tasks : task[t].pc = "flip" /\ task[t].run = e.run /\ e.gate = NextGate(t)
Authorised(e) == e.gate = 1 => e.by \in Reqs /\ req[e.by].saw = e.bytes
ActedOnce     == \A e, f \in sent : e.run = f.run /\ e.gate = f.gate => e = f

\* Before the first boot nothing has happened; before a restart nothing is reconciled.
Unborn ==
    (\A p \in Procs : ~Live(p)) =>
        (\A r \in Runs : row[r].status = "queued") /\ (\A q \in Reqs : req[q].pc = "idle")

FirstInv ==
    /\ \A p \in Procs : mem[p].recon = {}
    /\ AllStamped
    /\ CopyInv /\ OverInv
    /\ Unborn
    /\ \A r \in PackRuns : Early(r)
    /\ \A t \in Tasks : Looking(t)
    /\ \A e \in sent : Acted(e) /\ Authorised(e)
    /\ ActedOnce

LifeInv == FirstLife => FirstInv

\* The opening of a gate is not the taking over of a run.
LEMMA TaskStamps ==
    ASSUME TypeInv, AllStamped, NEW t \in Tasks, TaskStep(t) \/ WaitTimeout(t)
    PROVE  AllStamped'
<1>1. CASE HoldOpen(t)
  <2>1. NextGate(t) # 0
    <3>1. task[t].done \in Nat
      BY <1>1 DEF HoldOpen, TypeInv, TaskInv, Proper, HoldingPCs
    <3> QED
      BY <3>1 DEF NextGate
  <2>2. lapses' = lapses \/ lapses' = lapses \cup {<<task[t].run, NextGate(t)>>}
    BY <1>1, Zenon DEF HoldOpen, Lapse
  <2>3. \A r : <<r, 0>> # <<task[t].run, NextGate(t)>>
    BY <2>1
  <2> QED
    <3>1. ASSUME NEW r \in Runs PROVE <<r, 0>> \notin lapses'
      <4>1. <<r, 0>> \notin lapses
        BY DEF AllStamped, Stamped
      <4>2. <<r, 0>> # <<task[t].run, NextGate(t)>>
        BY <2>3
      <4> QED
        BY <2>2, <4>1, <4>2, Zenon
    <3> QED
      BY <3>1 DEF AllStamped, Stamped
<1>2. CASE ~HoldOpen(t)
  <2>1. lapses' = lapses
    BY <1>2, Zenon DEF TaskStep, WaitTimeout, Begin, Admit, ExecPack, ExecPrompt, Finish, HoldClaim,
       HoldRegister, HoldPark, WaitClaim, WaitLocal, WaitSlot, Decided, RewritePending,
       DispatchGate2, CompleteGate, ResumeRun, histVars
  <2> QED
    BY <2>1 DEF AllStamped, Stamped
<1> QED
  BY <1>1, <1>2

\* A coroutine takes a step: the run of t moves towards its gate, or stays past it.
LEMMA TaskEarly ==
    ASSUME TypeInv, SoleInv, AllStamped, CopyInv, NEW t \in Tasks, TaskStep(t) \/ WaitTimeout(t), SaysInv,
           NEW s \in PackRuns, Early(s), req' = req
    PROVE  Early(s)'
<1>1. PICK r \in Runs : r = task[t].run
  BY TaskStepFrame, MineTyped DEF TypeInv, Running
<1>2. Running(t) /\ RowFrame(r) /\ MemFrame(t) /\ TaskFrame(t) /\ Placed(t)
  BY <1>1, TaskStepFrame DEF SoleInv
<1>3. s \in Runs
  BY ParamsAssumption
<1>4. (\A q \in Reqs : ~Says(q, s)) => \A q \in Reqs : ~(Says(q, s)')
  BY DEF Says
<1>5. InHand(s)' => InHand(s)
  BY <1>2 DEF MemFrame, InHand
<1>6. CASE s # r
  <2>1. row'[s] = row[s] /\ manifest'[s] = manifest[s]
    BY <1>1, <1>2, <1>3, <1>6, TaskBooks DEF RowFrame
  <2>2. AtGate(s) => AtGate(s)'
    BY <1>1, <1>2, <1>6 DEF AtGate, TaskFrame
  <2>3. Executed(s)' => Executed(s)
    BY <1>2 DEF TaskFrame, Executed, Running
  <2> QED
    BY <1>4, <1>5, <2>1, <2>2, <2>3 DEF Early, Unasked, Ended
<1>7. CASE s = r
  <2>1. PackMove(t) /\ Executed(r) /\ ~InHand(r)
    BY <1>1, <1>2, <1>7, TaskBooks DEF IsPack, Executed, SoleInv, Handed, InHand, AllStamped
  <2>2. \A u \in Tasks : task[u].run = r /\ Running(u) => u = t
    BY <1>1, <1>2 DEF SoleInv, OneExecutor, Running, AllStamped
  <2>3. AtGate(r) => task[t].pc \in GatePCs
    BY <2>2 DEF AtGate, GatePCs, WaitPCs, Running
  <2>4. task'[t].pc \in GatePCs => AtGate(r)'
    <3>1. task'[t].pc \in GatePCs => Running(t)'
      BY DEF GatePCs, WaitPCs, Running
    <3> QED
      BY <1>1, <1>2, <3>1 DEF TaskFrame, AtGate
  <2>5. CASE Ends(t)
    <3>1. ~(Executed(r)')
      BY <1>1, <1>2, <2>2, <2>5 DEF TaskFrame, Executed, Ends, Running
    <3>2. CASE task[t].pc \in GatePCs
      BY <1>1, <1>5, <1>7, <2>1, <2>5, <3>1, <3>2 DEF Early, Ends, Ended
    <3>3. CASE task[t].pc \notin GatePCs
      BY <1>1, <1>4, <1>7, <2>1, <2>3, <2>5, <3>3 DEF Early, Unasked, Ends, Books, Still
    <3> QED
      BY <3>2, <3>3
  <2>6. CASE Prepares(t)
    BY <1>1, <1>4, <1>7, <2>1, <2>3, <2>6 DEF Early, Unasked, Prepares, Books, Still
  <2>7. CASE Flips(t)
    <3>1. task[t].done \in Nat
      BY <2>7 DEF Flips, TypeInv, TaskInv, Proper, HoldingPCs
    <3>2. manifest'[r] = task[t].done + 1
      BY <1>1, <2>7 DEF Flips, NextGate, TypeInv, RestInv
    <3> QED
      BY <1>7, <3>1, <3>2 DEF Early
  <2>8. CASE Parks(t) \/ Awaits(t) \/ Hears(t) \/ Obeys(t) \/ Sends(t)
    <3>1. task'[t].pc \in GatePCs
      BY <2>8 DEF Parks, Awaits, Hears, Obeys, Sends, GatePCs, WaitPCs
    <3> QED
      BY <1>7, <2>4, <3>1 DEF Early
  <2> QED
    BY <2>1, <2>5, <2>6, <2>7, <2>8 DEF PackMove
<1> QED
  BY <1>6, <1>7

LEMMA TaskLooking ==
    ASSUME TypeInv, SaysInv, SoleInv, AllStamped, CopyInv, NEW t \in Tasks, TaskStep(t) \/ WaitTimeout(t),
           req' = req, \A s \in PackRuns : Early(s), NEW u \in Tasks, Looking(u)
    PROVE  Looking(u)'
<1>1. PICK r \in Runs : r = task[t].run
  BY TaskStepFrame, MineTyped DEF TypeInv, Running
<1>2. Running(t) /\ TaskFrame(t)
  BY TaskStepFrame
<1>3. \A q : Says(q, r)' => Says(q, r)
  BY DEF Says
<1>4. CASE u # t
  <2>1. task'[u] = task[u]
    BY <1>2, <1>4 DEF TaskFrame
  <2> QED
    BY <2>1 DEF Looking, IsPack, Says
<1>5. CASE u = t
  <2> SUFFICES ASSUME IsPack(t)', task'[t].done = 0, Running(t)' PROVE Looking(t)'
    BY <1>5 DEF Looking, Running, WaitPCs
  <2>1. task'[t].run = r /\ IsPack(t) /\ PackMove(t)
    BY <1>1, <1>2, TaskBooks DEF TaskFrame, IsPack
  <2>2. CASE Ends(t) \/ Prepares(t) \/ Sends(t) \/ Flips(t)
    <3>1. task'[t].pc \notin WaitPCs \cup {"slot", "decided", "rewrite", "dispatch"}
      BY <2>2 DEF Ends, Prepares, Sends, Flips, GatePCs, WaitPCs
    <3> QED
      BY <3>1 DEF Looking
  <2>3. CASE Parks(t)
    <3>1. task[t].done = 0 /\ manifest[r] = 0 /\ task[t].pc = "park" /\ r \in PackRuns
      BY <1>1, <1>2, <2>1, <2>3, ParamsAssumption DEF Parks, Holds, CopyInv, CopyOf, IsPack
    <3>2. ~AtGate(r)
      BY <1>1, <1>2, <3>1 DEF AtGate, GatePCs, WaitPCs, SoleInv, OneExecutor, Running, AllStamped
    <3>3. \A q \in Reqs : ~Says(q, r)
      BY <1>1, <1>2, <3>1, <3>2 DEF Early, Executed, Unasked
    <3>4. task'[t].pc = "open"
      <4>1. task[t].dec # None => Says(task[t].dec, r) /\ task[t].dec \in Reqs
        BY <1>1, <3>1 DEF SaysInv, TaskSays, CarrierOf, Says
      <4> QED
        BY <2>3, <3>3, <4>1 DEF Parks
    <3> QED
      BY <1>3, <2>1, <3>3, <3>4 DEF Looking
  <2>4. CASE Awaits(t)
    <3>1. task[t].done = 0 /\ task'[t].bytes = task[t].bytes /\ task'[t].pc \in WaitPCs
          /\ task[t].pc \in WaitPCs
      BY <2>4 DEF Awaits, Holds
    <3>2. \A q \in Reqs : Says(q, r) => req[q].saw = task[t].bytes
      BY <1>1, <1>5, <2>1, <3>1 DEF Looking
    <3> QED
      BY <1>3, <2>1, <3>1, <3>2 DEF Looking, WaitPCs
  <2>5. CASE Hears(t)
    <3>1. task[t].done = 0 /\ task'[t].bytes = task[t].bytes /\ task'[t].pc \in {"slot", "decided"}
          /\ task[t].pc \in WaitPCs /\ Says(task'[t].dec, r)
      BY <1>1, <2>5 DEF Hears, Holds, WaitPCs
    <3>2. req[task'[t].dec].saw = task[t].bytes
      BY <1>1, <1>5, <2>1, <3>1 DEF Looking, Says
    <3> QED
      BY <3>1, <3>2 DEF Looking, WaitPCs
  <2>6. CASE Obeys(t)
    <3>1. task[t].done = 0 /\ task'[t].bytes = task[t].bytes /\ task'[t].dec = task[t].dec
      BY <2>6 DEF Obeys, Holds
    <3>2. req[task[t].dec].saw = task[t].bytes /\ task'[t].pc \notin WaitPCs
      BY <1>5, <2>1, <2>6, <3>1 DEF Looking, Obeys, WaitPCs
    <3> QED
      BY <3>1, <3>2 DEF Looking
  <2> QED
    BY <2>1, <2>2, <2>3, <2>4, <2>5, <2>6 DEF PackMove
<1> QED
  BY <1>4, <1>5

LEMMA TaskActs ==
    ASSUME TypeInv, SaysInv, SoleInv, AllStamped, CopyInv, NEW t \in Tasks, TaskStep(t) \/ WaitTimeout(t),
           req' = req, Looking(t), \A e \in sent : Acted(e) /\ Authorised(e), ActedOnce
    PROVE  (\A e \in sent' : Acted(e)' /\ Authorised(e)') /\ ActedOnce'
<1>1. PICK r \in Runs : r = task[t].run
  BY TaskStepFrame, MineTyped DEF TypeInv, Running
<1>2. Running(t) /\ TaskFrame(t)
  BY TaskStepFrame
<1>3. \A e \in sent : e.run \in Runs /\ e.gate \in Nat
  BY DEF TypeInv, RestInv
<1>4. \A u \in Tasks : task[u].run = r /\ Running(u) => u = t
  BY <1>1, <1>2 DEF SoleInv, OneExecutor, Running, AllStamped
<1>5. /\ IsPack(t) => PackMove(t)
      /\ ~IsPack(t) => Books
      /\ \A s \in Runs : s # r => manifest'[s] = manifest[s]
  BY <1>1, TaskBooks
<1>6. \A e \in sent : Authorised(e)'
  BY DEF Authorised
<1>7. ASSUME NEW e \in sent, task[t].pc # "flip" \/ e.run # r, manifest'[e.run] = manifest[e.run]
      PROVE  Acted(e)'
  <2>1. CASE e.gate <= manifest[e.run]
    BY <1>7, <2>1 DEF Acted
  <2>2. ASSUME NEW u \in Tasks, task[u].pc = "flip", task[u].run = e.run, e.gate = NextGate(u)
        PROVE  Acted(e)'
    <3>1. u # t /\ task'[u] = task[u]
      BY <1>1, <1>2, <1>7, <2>2 DEF TaskFrame
    <3> QED
      BY <2>2, <3>1 DEF Acted, NextGate
  <2> QED
    BY <2>1, <2>2 DEF Acted
<1>8. CASE sent' = sent
  <2>1. ActedOnce'
    BY <1>8 DEF ActedOnce
  <2>2. ASSUME NEW e \in sent PROVE Acted(e)'
    <3>1. CASE task[t].pc # "flip" \/ e.run # r
      <4>1. e.run = r => manifest'[r] = manifest[r]
        BY <1>5, <3>1 DEF PackMove, Ends, Prepares, Parks, Awaits, Hears, Obeys, Sends, Flips, Books, Holds
      <4> QED
        BY <1>3, <1>5, <1>7, <3>1, <4>1
    <3>2. CASE task[t].pc = "flip" /\ e.run = r
      <4>1. IsPack(t) /\ task[t].done \in Nat /\ task[t].done = manifest[r] /\ manifest[r] \in Nat
        <5>1. IsPack(t) /\ task[t].done \in Nat
          BY <3>2 DEF TypeInv, TaskInv, Proper, HoldingPCs, IsPack
        <5> QED
          BY <1>1, <1>2, <5>1, ParamsAssumption DEF CopyInv, CopyOf, TypeInv, RestInv
      <4>2. Flips(t)
        BY <1>5, <3>2, <4>1
           DEF PackMove, Ends, Prepares, Parks, Awaits, Hears, Obeys, Sends, GatePCs, WaitPCs
      <4>3. manifest'[r] = manifest[r] + 1
        BY <1>1, <4>1, <4>2 DEF Flips, NextGate, TypeInv, RestInv
      <4>4. e.gate <= manifest[r] \/ e.gate = manifest[r] + 1
        <5>1. \A u \in Tasks : task[u].pc = "flip" => Running(u)
          BY DEF Running
        <5> QED
          BY <1>4, <3>2, <4>1, <5>1 DEF Acted, NextGate
      <4> QED
        BY <1>3, <3>2, <4>1, <4>3, <4>4 DEF Acted
    <3> QED
      BY <3>1, <3>2
  <2> QED
    BY <1>6, <1>8, <2>1, <2>2
<1>9. CASE sent' # sent
  <2>1. IsPack(t) /\ Sends(t)
    BY <1>5, <1>9 DEF PackMove, Ends, Prepares, Parks, Awaits, Hears, Obeys, Flips, Books, Holds
  <2>2. /\ task[t].pc = "dispatch" /\ task'[t].pc = "flip" /\ task'[t].done = task[t].done
        /\ manifest' = manifest
    BY <2>1 DEF Sends, Holds
  <2>3. PICK n : n = [run |-> r, gate |-> NextGate(t), bytes |-> task[t].bytes, by |-> task[t].dec]
    OBVIOUS
  <2>4. sent' = sent \cup {n} /\ n.run = r /\ n.gate = NextGate(t) /\ n.bytes = task[t].bytes
        /\ n.by = task[t].dec
    BY <1>1, <2>1, <2>3 DEF Sends
  <2>5. task[t].done \in Nat /\ task[t].done = manifest[r]
    <3>1. task[t].done \in Nat
      BY <2>2 DEF TypeInv, TaskInv, Proper, HoldingPCs
    <3> QED
      BY <1>1, <1>2, <2>1, <3>1, ParamsAssumption DEF CopyInv, CopyOf
  <2>6. \A e \in sent : Acted(e)'
    BY <1>7, <2>2
  <2>7. Acted(n)'
    <3>1. task'[t].run = r
      BY <1>1, <1>2, <2>2 DEF TaskFrame, Running
    <3> QED
      BY <2>2, <2>4, <3>1 DEF Acted, NextGate
  <2>8. Authorised(n)'
    <3>1. Says(task[t].dec, r)
      BY <1>1, <2>2 DEF SaysInv, TaskSays, CarrierOf, Consents
    <3>2. n.gate = 1 => task[t].done = 0
      BY <2>4, <2>5 DEF NextGate
    <3> QED
      BY <2>1, <2>2, <2>4, <3>1, <3>2 DEF Authorised, Looking, Says
  <2>9. ASSUME NEW e \in sent, e.run = r PROVE e.gate # n.gate
    <3>1. e.gate <= manifest[r]
      <4>1. \A u \in Tasks : task[u].pc = "flip" => Running(u)
        BY DEF Running
      <4> QED
        BY <1>4, <2>2, <2>9, <4>1 DEF Acted
    <3> QED
      BY <1>3, <2>4, <2>5, <3>1 DEF NextGate
  <2>10. ActedOnce'
    BY <2>4, <2>9 DEF ActedOnce
  <2> QED
    BY <1>6, <2>4, <2>6, <2>7, <2>8, <2>10
<1> QED
  BY <1>8, <1>9

LEMMA TaskLife ==
    ASSUME TypeInv, SaysInv, SoleInv, LifeInv, NEW t \in Tasks, TaskStep(t) \/ WaitTimeout(t)
    PROVE  LifeInv'
<1>2. life' = life /\ MemFrame(t) /\ Placed(t) /\ Running(t)
  BY TaskStepFrame DEF SoleInv
<1>3. req' = req
  BY Zenon DEF TaskStep, WaitTimeout, Begin, Admit, ExecPack, ExecPrompt, Finish, HoldClaim, HoldRegister,
     HoldPark, HoldOpen, WaitClaim, WaitLocal, WaitSlot, Decided, RewritePending,
     DispatchGate2, CompleteGate, ResumeRun
<1>4. ASSUME FirstLife' PROVE FirstInv'
  <2>1. FirstInv
    BY <1>2, <1>4 DEF FirstLife, LifeInv
  <2>6. AllStamped' /\ CopyInv' /\ OverInv'
    BY <2>1, TaskStamps, TaskCopy, TaskOver DEF FirstInv
  <2>2. \A p \in Procs : mem'[p].recon = {}
    BY <1>2, <2>1 DEF MemFrame, FirstInv
  <2>3. Unborn'
    BY <1>2, MineTyped DEF Placed, Unborn, Live, TypeInv, Running
  <2>4. (\A s \in PackRuns : Early(s)') /\ (\A u \in Tasks : Looking(u)')
    BY <1>3, <2>1, TaskEarly, TaskLooking DEF FirstInv
  <2>5. (\A e \in sent' : Acted(e)' /\ Authorised(e)') /\ ActedOnce'
    BY <1>3, <2>1, TaskActs DEF FirstInv
  <2> QED
    BY <2>2, <2>3, <2>4, <2>5, <2>6 DEF FirstInv
<1> QED
  BY <1>4 DEF LifeInv

\* What everybody else does. Coroutines only begin, for runs that were claimed or are being
\* reconciled, or die with their process:
CalmTasks ==
    \A u \in Tasks :
        \/ task'[u] = task[u]
        \/ ~Running(u)' /\ ~FirstLife'
        \/ /\ ~Running(u) /\ task'[u].pc = "begin" /\ task'[u].done = None
           /\ \/ InHand(task'[u].run)
              \/ \E p \in Procs : task'[u].run \in mem[p].recon
\* rows neither start to wait at a gate nor become rejected, and stay ended,
CalmRows ==
    \A s \in Runs :
        /\ row'[s].status \in {"awaiting_approval", "rejected"} => row'[s].status = row[s].status
        /\ Ended(s) => Ended(s)'
\* what is claimed has not ended, what a boot will reconcile awaits approval,
CalmClaims ==
    \A p \in Procs :
        /\ mem'[p].hand \in {mem[p].hand, None} \/ ~Ended(mem'[p].hand.run)
        /\ \A s \in mem'[p].recon :
               s \in mem[p].recon \/ (row[s].status = "awaiting_approval" /\ life' # life)
\* and an operator who decides sees the pending draft of a run that awaits it.
CalmReqs ==
    \A q \in Reqs, s \in Runs :
        /\ Says(q, s) => Says(q, s)' /\ req'[q].saw = req[q].saw
        /\ Says(q, s)' => Says(q, s) \/ (row[s].status = "awaiting_approval" /\ req'[q].saw = row[s].pending)
Calm == Books /\ CalmTasks /\ CalmRows /\ CalmClaims /\ (FirstLife' => CalmReqs)

LEMMA CalmHand ==
    ASSUME TypeInv, CalmClaims, NEW s \in Runs, InHand(s)'
    PROVE  InHand(s) \/ ~Ended(s)
  BY DEF CalmClaims, InHand

LEMMA CalmOver == ASSUME TypeInv, CopyInv, OverInv, Calm PROVE CopyInv' /\ OverInv'
<1>1. ASSUME NEW u \in Tasks PROVE CopyOf(u)'
  BY DEF Calm, CalmTasks, CopyInv, CopyOf, Books, Running, IsPack
<1>2. ASSUME NEW s \in Runs, row'[s].status = "rejected" PROVE Over(s)'
  <2>1. row[s].status = "rejected" /\ Over(s) /\ Ended(s)
    BY <1>2 DEF Calm, CalmRows, OverInv, Ended, Terminal
  <2>2. ~(Executed(s)')
    BY <2>1 DEF Calm, CalmTasks, Over, Executed, Running
  <2>3. ~(InHand(s)')
    BY <2>1, CalmHand DEF Calm, Over
  <2>4. \A p \in Procs : s \notin mem'[p].recon
    BY <2>1 DEF Calm, CalmClaims, Over
  <2> QED
    BY <2>2, <2>3, <2>4 DEF Over
<1> QED
  BY <1>1, <1>2 DEF CopyInv, OverInv

LEMMA CalmFirst ==
    ASSUME TypeInv, SaysInv, SoleInv, ShownInv, FirstInv, Calm, FirstLife', Unborn',
           AllStamped', \A p \in Procs : mem'[p].recon = {}
    PROVE  FirstInv'
<1> USE DEF Calm
<1>1. \A u \in Tasks : task'[u] = task[u] \/ (~Running(u) /\ task'[u].pc = "begin")
  BY DEF CalmTasks
<1>2. ASSUME NEW s \in PackRuns PROVE Early(s)'
  <2>1. s \in Runs /\ manifest'[s] = manifest[s]
    BY ParamsAssumption DEF Books
  <2>2. AtGate(s) => AtGate(s)'
    BY <1>1 DEF AtGate, GatePCs, WaitPCs, Running
  <2>3. Ended(s) => Ended(s)'
    BY <2>1 DEF CalmRows
  <2>4. Executed(s)' => Executed(s) \/ InHand(s)
    BY DEF CalmTasks, Executed, Running, FirstInv
  <2>5. InHand(s)' => InHand(s) \/ ~Ended(s)
    BY <2>1, CalmHand
  <2>6. Unasked(s) => Unasked(s)'
    BY <2>1 DEF Unasked, CalmRows, CalmReqs
  <2> QED
    BY <2>1, <2>2, <2>3, <2>4, <2>5, <2>6 DEF Early, FirstInv
<1>3. ASSUME NEW u \in Tasks PROVE Looking(u)'
  <2>1. CASE task'[u].pc = "begin" \/ ~(IsPack(u)') \/ ~Running(u)'
    BY <2>1 DEF Looking, WaitPCs, Running
  <2>2. CASE task'[u] = task[u] /\ IsPack(u) /\ Running(u)
    <3>1. PICK r \in Runs : r = task[u].run
      BY <2>2, MineTyped DEF TypeInv, Running
    <3>2. ASSUME NEW q \in Reqs, task[u].done = 0, task[u].pc \in WaitPCs, Says(q, r)'
          PROVE  req'[q].saw = task[u].bytes
      <4>1. CASE Says(q, r)
        BY <2>2, <3>1, <3>2, <4>1 DEF CalmReqs, FirstInv, Looking
      <4>2. CASE row[r].status = "awaiting_approval" /\ req'[q].saw = row[r].pending
        BY <2>2, <3>1, <3>2, <4>2 DEF ShownInv, Shown, Ended, Terminal, FirstInv, AllStamped
      <4> QED
        BY <3>2, <4>1, <4>2 DEF CalmReqs
    <3>3. ASSUME task[u].done = 0, task[u].pc \in {"slot", "decided", "rewrite", "dispatch"}
          PROVE  req'[task[u].dec].saw = task[u].bytes
      <4>1. Says(task[u].dec, r) /\ task[u].dec \in Reqs
        BY <3>1, <3>3 DEF SaysInv, TaskSays, CarrierOf, Consents, Says
      <4> QED
        BY <2>2, <3>3, <4>1 DEF CalmReqs, FirstInv, Looking
    <3> QED
      BY <2>2, <3>1, <3>2, <3>3 DEF Looking
  <2> QED
    BY <1>1, <2>1, <2>2 DEF IsPack, Running
<1>4. ASSUME NEW e \in sent PROVE Acted(e)' /\ Authorised(e)'
  <2>1. Says(e.by, e.run) /\ e.by \in Reqs /\ e.run \in Runs
    BY DEF SaysInv, SentSays, Consents, Says, TypeInv, RestInv
  <2>2. Authorised(e)'
    BY <2>1 DEF Authorised, FirstInv, CalmReqs
  <2>3. ASSUME NEW u \in Tasks, task[u].pc = "flip" PROVE task'[u] = task[u]
    BY <1>1, <2>3 DEF Running
  <2>4. Acted(e)'
    BY <2>3 DEF FirstInv, Acted, Books, NextGate
  <2> QED
    BY <2>2, <2>4
<1>6. CopyInv' /\ OverInv'
  BY CalmOver DEF FirstInv
<1>5. ActedOnce'
  BY DEF FirstInv, ActedOnce, Books
<1> QED
  BY <1>2, <1>3, <1>4, <1>5, <1>6 DEF FirstInv, Books

\* Requests, processes and leases are calm.
LEMMA RequestCalm ==
    ASSUME TypeInv, NEW q \in Reqs, RequestStep(q) PROVE Calm
<1>1. task' = task /\ Books
  <2>1. /\ \A p \in Procs, r \in Runs : DecideCheck(q, p, r) \/ CancelMark(q, p, r)
                => task' = task /\ Books
        /\ RecordDecision(q) \/ ResolveWaiter(q) \/ CancelWrite(q) \/ CancelFails(q)
                => task' = task /\ Books
    BY Zenon DEF DecideCheck, CancelMark, RecordDecision, ResolveWaiter, CancelWrite, CancelFails,
                 histVars, Books
  <2> QED
    BY <2>1 DEF RequestStep
<1>2. CalmClaims
  BY RequestMemory DEF CalmClaims
<1>3. CalmRows
  <2>1. ASSUME NEW r \in Runs, End(r, "canceled") PROVE CalmRows
    BY <2>1 DEF End, CalmRows, Ended, Terminal, TypeInv, RowInv, Row
  <2> QED
    BY <2>1, RequestRow DEF CalmRows, Ended
<1>4. CASE \E p \in Procs, r \in Runs : DecideCheck(q, p, r)
  <2>1. PICK p \in Procs, r \in Runs : DecideCheck(q, p, r)
    BY <1>4
  <2>2. PICK kind \in Decisions : Ask(q, "checked", kind, r, p, row[r].pending)
    BY <2>1 DEF DecideCheck
  <2> DEFINE x == [NoRequest EXCEPT !.pc = "checked", !.kind = kind, !.run = r, !.at = p,
                                    !.saw = row[r].pending]
  <2>3. x.run = r /\ x.saw = row[r].pending /\ req' = [req EXCEPT ![q] = x]
    BY <2>2 DEF Ask, NoRequest
  <2> HIDE DEF x
  <2>4. req[q].pc = "idle" /\ row[r].status = "awaiting_approval"
    BY <2>1 DEF DecideCheck
  <2>5. req'[q] = x /\ \A y \in Reqs : y # q => req'[y] = req[y]
    BY <2>3 DEF TypeInv, ReqInv
  <2>6. CalmReqs
    BY <2>3, <2>4, <2>5 DEF CalmReqs, Says
  <2> QED
    BY <1>1, <1>2, <1>3, <2>6 DEF Calm, CalmTasks
<1>5. CASE \E p \in Procs, r \in Runs : CancelMark(q, p, r)
  <2>1. PICK p \in Procs, r \in Runs : CancelMark(q, p, r)
    BY <1>5
  <2> DEFINE x == [NoRequest EXCEPT !.pc = "marked", !.kind = "cancel", !.run = r, !.at = p,
                                    !.saw = None]
  <2>2. x.kind = "cancel" /\ req' = [req EXCEPT ![q] = x] /\ req[q].pc = "idle"
    BY <2>1 DEF CancelMark, Ask, NoRequest
  <2> HIDE DEF x
  <2>3. req'[q] = x /\ \A y \in Reqs : y # q => req'[y] = req[y]
    BY <2>2 DEF TypeInv, ReqInv
  <2>4. CalmReqs
    BY <2>2, <2>3 DEF CalmReqs, Says, Decisions
  <2> QED
    BY <1>1, <1>2, <1>3, <2>4 DEF Calm, CalmTasks
<1>6. ASSUME NEW pc, pc # "idle", req[q].pc # "idle", Answer(q, pc) PROVE CalmReqs
  <2> DEFINE x == [req[q] EXCEPT !.pc = pc]
  <2>1. /\ x.pc = pc /\ x.kind = req[q].kind /\ x.run = req[q].run /\ x.saw = req[q].saw
        /\ req' = [req EXCEPT ![q] = x]
    BY <1>6 DEF Answer, TypeInv, ReqInv, Request
  <2> HIDE DEF x
  <2>2. req'[q] = x /\ \A y \in Reqs : y # q => req'[y] = req[y]
    BY <2>1 DEF TypeInv, ReqInv
  <2> QED
    BY <1>6, <2>1, <2>2 DEF CalmReqs, Says
<1>7. CASE RecordDecision(q) \/ ResolveWaiter(q) \/ CancelWrite(q) \/ CancelFails(q)
  <2>1. \E pc \in {"recorded", "unrecorded", "accepted", "refused", "lost"} :
            Answer(q, pc) /\ req[q].pc # "idle"
    <3>1. CASE RecordDecision(q)
      <4> DEFINE open == {g \in Gates : gate[req[q].run][g].state = "open"}
                 a == IF open = {} THEN "unrecorded" ELSE "recorded"
      <4>1. Answer(q, a) /\ req[q].pc = "checked"
        BY <3>1, Zenon DEF RecordDecision
      <4>2. a \in {"unrecorded", "recorded"}
        OBVIOUS
      <4> HIDE DEF a
      <4> QED
        BY <4>1, <4>2
    <3>2. CASE ResolveWaiter(q)
      BY <3>2 DEF ResolveWaiter
    <3>3. CASE CancelWrite(q) \/ CancelFails(q)
      <4>1. req[q].pc = "marked" /\ (Answer(q, "accepted") \/ Answer(q, "lost"))
        BY <3>3, Zenon DEF CancelWrite, CancelFails
      <4> QED
        BY <4>1
    <3> QED
      BY <1>7, <3>1, <3>2, <3>3
  <2>2. CalmReqs
    BY <1>6, <2>1
  <2> QED
    BY <1>1, <1>2, <1>3, <2>2 DEF Calm, CalmTasks
<1> QED
  BY <1>4, <1>5, <1>7 DEF RequestStep

\* The rows after a claim, a beat, an adoption, or a lease that ran out.
LEMMA RowsCalm ==
    ASSUME TypeInv, \/ row' = row
                    \/ \E r \in Runs, s \in Terminal \ {"rejected"} : End(r, s)
                    \/ \A r \in Runs : \/ row'[r].status = row[r].status
                                       \/ row[r].status = "queued" /\ row'[r].status = "running"
    PROVE  CalmRows
<1>1. ASSUME NEW r \in Runs, NEW s \in Terminal \ {"rejected"}, End(r, s) PROVE CalmRows
  BY <1>1 DEF End, CalmRows, Ended, Terminal, TypeInv, RowInv, Row
<1> QED
  BY <1>1 DEF CalmRows, Ended, Terminal

LEMMA SpawnCalm ==
    ASSUME TypeInv, NEW t \in Tasks, NEW p, NEW r, Spawn(t, p, r),
           InHand(r) \/ \E x \in Procs : r \in mem[x].recon
    PROVE  CalmTasks
<1> DEFINE x == [NoTask EXCEPT !.pc = "begin", !.run = r, !.at = p]
<1>1. x.pc = "begin" /\ x.run = r /\ x.done = None /\ task' = [task EXCEPT ![t] = x]
  BY DEF Spawn, NoTask
<1> HIDE DEF x
<1>2. task'[t] = x /\ ~Running(t) /\ \A u \in Tasks : u # t => task'[u] = task[u]
  BY <1>1 DEF Spawn, TypeInv, TaskInv, Running
<1> QED
  BY <1>1, <1>2 DEF CalmTasks

LEMMA ProcCalm ==
    ASSUME TypeInv, NEW p \in Procs,
           ProcStep(p) \/ Boot(p) \/ Crash(p) \/ Heartbeat(p)
    PROVE  Calm
<1>1. Books /\ (~Crash(p) => req' = req)
  <2>1. /\ ClaimNext(p) \/ DispatchClaimed(p) \/ Boot(p) \/ Heartbeat(p) => Books /\ req' = req
        /\ \A r \in Runs : ReconcileRun(p, r) => Books /\ req' = req
        /\ Crash(p) => Books
    BY Zenon DEF ClaimNext, DispatchClaimed, ReconcileRun, Boot, Crash, Heartbeat, histVars, Books
  <2> QED
    BY <2>1 DEF ProcStep
<1>2. req' = req => CalmReqs
  BY DEF CalmReqs, Says
<1>3. Crash(p) => ~FirstLife'
  BY DEF Crash, FirstLife, TypeInv, RestInv
<1>4. PICK w \in Memory : w = mem[p]
  BY DEF TypeInv, MemInv
<1>5. ASSUME NEW m, mem' = [mem EXCEPT ![p] = m],
             m.hand \in {w.hand, None} \/ ~Ended(m.hand.run),
             \A s \in m.recon :
                 s \in w.recon \/ (row[s].status = "awaiting_approval" /\ life' # life)
      PROVE  CalmClaims
  BY <1>4, <1>5 DEF CalmClaims, TypeInv, MemInv
<1>6. CASE ClaimNext(p)
  <2>1. PICK r \in Runs :
          LET tries == IF row[r].status = "awaiting_approval" THEN row[r].attempts
                       ELSE row[r].attempts + 1
          IN  /\ Claimable(r)
              /\ row' = [row EXCEPT ![r].owner = p, ![r].lease = "fresh", ![r].attempts = tries,
                                    ![r].status = IF @ = "queued" THEN "running" ELSE @]
              /\ mem' = [mem EXCEPT ![p].hand =
                            [run |-> r, first |-> row[r].status = "queued", attempts |-> tries]]
    BY <1>6, Zenon DEF ClaimNext
  <2>2. \A s \in Runs : \/ row'[s].status = row[s].status
                        \/ row[s].status = "queued" /\ row'[s].status = "running"
    <3>1. PICK x \in Row : x = row[r]
      BY DEF TypeInv, RowInv
    <3> DEFINE n == IF row[r].status = "awaiting_approval" THEN row[r].attempts
                    ELSE row[r].attempts + 1
               y == [x EXCEPT !.owner = p, !.lease = "fresh", !.attempts = n,
                              !.status = IF x.status = "queued" THEN "running" ELSE x.status]
    <3>2. y.status = IF x.status = "queued" THEN "running" ELSE x.status
      BY DEF Row
    <3>3. row' = [row EXCEPT ![r] = y]
      BY <2>1, <3>1 DEF TypeInv, RowInv, Row
    <3> HIDE DEF y
    <3> QED
      BY <3>1, <3>2, <3>3 DEF TypeInv, RowInv
  <2>3. CalmClaims
    <3> DEFINE n == IF row[r].status = "awaiting_approval" THEN row[r].attempts
                    ELSE row[r].attempts + 1
               c == [run |-> r, first |-> row[r].status = "queued", attempts |-> n]
               m == [w EXCEPT !.hand = c]
    <3>1. mem' = [mem EXCEPT ![p] = m]
      BY <1>4, <2>1
    <3>2. c.run = r /\ m.hand = c /\ m.recon = w.recon
      BY DEF Memory
    <3>3. ~Ended(r)
      BY <2>1 DEF Claimable, Ended, Parked, Terminal
    <3> HIDE DEF c, m
    <3> QED
      BY <1>5, <3>1, <3>2, <3>3
  <2>4. task' = task /\ req' = req
    BY <1>6 DEF ClaimNext
  <2> QED
    BY <1>1, <1>2, <2>2, <2>3, <2>4, RowsCalm DEF Calm, CalmTasks
<1>7. CASE DispatchClaimed(p)
  <2>1. mem[p].hand # None /\ mem[p].hand.run \in Runs /\ InHand(mem[p].hand.run)
    BY <1>7 DEF DispatchClaimed, TypeInv, MemInv, Memory, Claims, InHand
  <2>2. CalmRows
    BY <1>7, <2>1, RowsCalm DEF DispatchClaimed, Terminal
  <2>3. CalmTasks
    <3>1. task' = task \/ \E t \in Tasks : Spawn(t, p, mem[p].hand.run)
      BY <1>7 DEF DispatchClaimed
    <3> QED
      BY <2>1, <3>1, SpawnCalm DEF CalmTasks
  <2>4. CalmClaims
    <3>1. ASSUME mem' = [mem EXCEPT ![p].hand = None] PROVE CalmClaims
      <4> DEFINE m == [w EXCEPT !.hand = None]
      <4>1. m.hand = None /\ m.recon = w.recon /\ mem' = [mem EXCEPT ![p] = m]
        BY <1>4, <3>1 DEF Memory
      <4> HIDE DEF m
      <4> QED
        BY <1>5, <4>1
    <3>2. ASSUME NEW c, mem' = [mem EXCEPT ![p].hand = None, ![p].held = @ \cup {c}]
          PROVE  CalmClaims
      <4> DEFINE m == [w EXCEPT !.hand = None, !.held = w.held \cup {c}]
      <4>1. m.hand = None /\ m.recon = w.recon
        BY DEF Memory
      <4>2. mem' = [mem EXCEPT ![p] = m]
        BY <1>4, <3>2 DEF TypeInv, MemInv, Memory
      <4> HIDE DEF m
      <4> QED
        BY <1>5, <4>1, <4>2
    <3> QED
      BY <1>7, <3>1, <3>2 DEF DispatchClaimed
  <2> QED
    BY <1>1, <1>2, <1>7, <2>2, <2>3, <2>4 DEF Calm, DispatchClaimed
<1>8. ASSUME NEW r \in Runs, ReconcileRun(p, r) PROVE Calm
  <2>1. r \in mem[p].recon
    BY <1>8 DEF ReconcileRun
  <2>2. CalmRows
    <3>1. ASSUME row' = [row EXCEPT ![r].owner = p, ![r].lease = "fresh"]
          PROVE  \A s \in Runs : row'[s].status = row[s].status
      BY <3>1 DEF TypeInv, RowInv, Row
    <3> QED
      BY <1>8, <3>1, RowsCalm DEF ReconcileRun, Terminal
  <2>3. CalmTasks
    <3>1. task' = task \/ \E t \in Tasks : Spawn(t, p, r)
      BY <1>8 DEF ReconcileRun
    <3> QED
      BY <2>1, <3>1, SpawnCalm DEF CalmTasks
  <2>4. CalmClaims
    <3>1. ASSUME mem' = [mem EXCEPT ![p].recon = @ \ {r}] PROVE CalmClaims
      <4> DEFINE m == [w EXCEPT !.recon = w.recon \ {r}]
      <4>1. m.hand = w.hand /\ m.recon = w.recon \ {r} /\ mem' = [mem EXCEPT ![p] = m]
        BY <1>4, <3>1 DEF Memory
      <4> HIDE DEF m
      <4> QED
        BY <1>5, <4>1
    <3>2. ASSUME mem' = [mem EXCEPT ![p].recon = @ \ {r}, ![p].held = @ \cup {r}]
          PROVE  CalmClaims
      <4> DEFINE m == [w EXCEPT !.recon = w.recon \ {r}, !.held = w.held \cup {r}]
      <4>1. m.hand = w.hand /\ m.recon = w.recon \ {r}
        BY DEF Memory
      <4>2. mem' = [mem EXCEPT ![p] = m]
        BY <1>4, <3>2 DEF TypeInv, MemInv, Memory
      <4> HIDE DEF m
      <4> QED
        BY <1>5, <4>1, <4>2
    <3> QED
      BY <1>8, <3>1, <3>2 DEF ReconcileRun
  <2> QED
    BY <1>1, <1>2, <1>8, <2>2, <2>3, <2>4 DEF Calm, ReconcileRun
<1>9. CASE Boot(p)
  <2> DEFINE m == [w EXCEPT !.recon = {r \in Runs : row[r].status = "awaiting_approval"}]
  <2>1. /\ m.hand = w.hand /\ m.recon = {r \in Runs : row[r].status = "awaiting_approval"}
        /\ mem' = [mem EXCEPT ![p] = m]
    BY <1>4, <1>9 DEF Boot, Memory
  <2> HIDE DEF m
  <2>2. life' # life
    BY <1>9 DEF Boot, TypeInv, RestInv
  <2>3. CalmClaims
    BY <1>5, <2>1, <2>2
  <2>4. task' = task /\ row' = row /\ req' = req
    BY <1>9 DEF Boot
  <2> QED
    BY <1>1, <1>2, <2>3, <2>4, RowsCalm DEF Calm, CalmTasks
<1>10. CASE Crash(p)
  <2>1. mem' = [mem EXCEPT ![p] = Blank] /\ Blank.hand = None /\ Blank.recon = {} /\ row' = row
    BY <1>10 DEF Crash, Blank
  <2>2. CalmClaims
    BY <1>5, <2>1
  <2>3. CalmTasks
    BY <1>3, <1>10 DEF Crash, CalmTasks, Running, NoTask
  <2> QED
    BY <1>1, <1>3, <1>10, <2>1, <2>2, <2>3, RowsCalm DEF Calm
<1>11. CASE Heartbeat(p)
  <2>1. PICK c : mem' = [mem EXCEPT ![p].cancelled = c]
    BY <1>11 DEF Heartbeat
  <2> DEFINE m == [w EXCEPT !.cancelled = c]
  <2>2. m.hand = w.hand /\ m.recon = w.recon /\ mem' = [mem EXCEPT ![p] = m]
    BY <1>4, <2>1 DEF Memory
  <2> HIDE DEF m
  <2>3. CalmClaims
    BY <1>5, <2>2
  <2>4. \A s \in Runs : row'[s].status = row[s].status
    <3> DEFINE y(s) == [row[s] EXCEPT !.lease = "fresh"]
    <3>1. \A s \in Runs : y(s).status = row[s].status
      BY DEF TypeInv, RowInv, Row
    <3>2. \A s \in Runs : row'[s] = row[s] \/ row'[s] = y(s)
      BY <1>11 DEF Heartbeat
    <3> HIDE DEF y
    <3> QED
      BY <3>1, <3>2
  <2>5. task' = task /\ req' = req
    BY <1>11 DEF Heartbeat
  <2> QED
    BY <1>1, <1>2, <2>3, <2>4, <2>5, RowsCalm DEF Calm, CalmTasks
<1> QED
  BY <1>6, <1>7, <1>8, <1>9, <1>10, <1>11 DEF ProcStep

LEMMA LeaseCalm ==
    ASSUME TypeInv, NEW r \in Runs, LeaseExpires(r) PROVE Calm
<1>1. task' = task /\ mem' = mem /\ req' = req /\ Books
  BY DEF LeaseExpires, histVars, Books
<1>2. row' = [row EXCEPT ![r].lease = "stale"]
  BY DEF LeaseExpires
<1>3. \A s \in Runs : row'[s].status = row[s].status
  BY <1>2 DEF TypeInv, RowInv, Row
<1>4. CalmRows
  BY <1>3, RowsCalm
<1> QED
  BY <1>1, <1>4 DEF Calm, CalmTasks, CalmClaims, CalmReqs, Says

\* What the steps that are calm leave of the first life: nothing is reconciled before a
\* restart, and nothing has happened before the first boot.
LEMMA CalmLife ==
    ASSUME TypeInv, SaysInv, SoleInv, ShownInv, LifeInv, Calm,
           FirstLife' => FirstLife,
           FirstLife /\ FirstLife' =>
               Unborn' /\ lapses' = lapses /\ \A p \in Procs : mem'[p].recon = {}
    PROVE  LifeInv'
<1>1. ASSUME FirstLife' PROVE FirstInv'
  <2>1. FirstInv /\ AllStamped'
    BY <1>1 DEF LifeInv, FirstInv, AllStamped, Stamped
  <2> QED
    BY <1>1, <2>1, CalmFirst
<1> QED
  BY <1>1 DEF LifeInv

LEMMA RequestLife ==
    ASSUME TypeInv, SaysInv, SoleInv, ShownInv, LifeInv, NEW q \in Reqs, RequestStep(q)
    PROVE  LifeInv'
<1>1. Calm
  BY RequestCalm
<1>2. life' = life /\ lapses' = lapses
  BY Zenon DEF RequestStep, DecideCheck, CancelMark, RecordDecision, ResolveWaiter, CancelWrite,
               CancelFails, histVars
<1>3. ASSUME FirstLife PROVE Unborn' /\ \A p \in Procs : mem'[p].recon = {}
  <2>1. \E p \in Procs : Live(p)
    <3>1. CASE \E p \in Procs, r \in Runs : DecideCheck(q, p, r) \/ CancelMark(q, p, r)
      BY <3>1 DEF DecideCheck, CancelMark, Serving
    <3>2. CASE RecordDecision(q) \/ ResolveWaiter(q) \/ CancelWrite(q) \/ CancelFails(q)
      <4>1. req[q].pc # "idle"
        <5>1. req[q].pc \in {"checked", "recorded", "unrecorded", "marked"}
          BY <3>2, Zenon DEF RecordDecision, ResolveWaiter, CancelWrite, CancelFails
        <5> QED
          BY <5>1
      <4> QED
        BY <1>3, <4>1 DEF LifeInv, FirstInv, Unborn
    <3> QED
      BY <3>1, <3>2 DEF RequestStep
  <2>2. Unborn'
    BY <1>2, <2>1 DEF Unborn, Live
  <2>3. \A p \in Procs : mem'[p].recon = mem[p].recon
    BY RequestMemory
  <2> QED
    BY <1>3, <2>2, <2>3 DEF LifeInv, FirstInv
<1> QED
  BY <1>1, <1>2, <1>3, CalmLife DEF FirstLife

\* The first boot finds every run queued: it has nothing to reconcile.
LEMMA BootLife ==
    ASSUME TypeInv, SaysInv, SoleInv, ShownInv, LifeInv, OneProcess, NEW p \in Procs, Boot(p)
    PROVE  LifeInv'
<1>1. Calm
  BY ProcCalm
<1>2. \A q \in Procs : ~Live(q)
  <2> DEFINE up == {x \in Procs : Live(x)}
  <2>1. IsFiniteSet(up) /\ Cardinality(up) \in Nat /\ Cardinality(up) < 1
    BY FS_Subset, FS_CardinalityType DEF OneProcess, Boot
  <2>2. up = {}
    BY <2>1, FS_EmptySet
  <2> QED
    BY <2>2
<1>3. life' = [life EXCEPT ![p] = "live"] /\ life[p] = "off" /\ lapses' = lapses
  BY DEF Boot, histVars
<1>4. Live(p)' /\ (FirstLife' => FirstLife)
  BY <1>3 DEF Live, FirstLife, TypeInv, RestInv
<1>5. ASSUME FirstLife PROVE \A q \in Procs : mem'[q].recon = {}
  <2> DEFINE m == [mem[p] EXCEPT !.recon = {r \in Runs : row[r].status = "awaiting_approval"}]
  <2>1. mem' = [mem EXCEPT ![p] = m] /\ m.recon = {r \in Runs : row[r].status = "awaiting_approval"}
    BY DEF Boot, TypeInv, MemInv, Memory
  <2>2. \A r \in Runs : row[r].status = "queued"
    BY <1>2, <1>5 DEF LifeInv, FirstInv, Unborn
  <2>3. m.recon = {}
    BY <2>1, <2>2
  <2> HIDE DEF m
  <2> QED
    BY <1>5, <2>1, <2>3 DEF LifeInv, FirstInv, TypeInv, MemInv
<1> QED
  BY <1>1, <1>3, <1>4, <1>5, CalmLife DEF Unborn

LEMMA LeaseLife ==
    ASSUME TypeInv, SaysInv, SoleInv, ShownInv, LifeInv, NEW r \in Runs, LeaseExpires(r)
    PROVE  LifeInv'
<1>1. Calm
  BY LeaseCalm
<1>2. life' = life /\ mem' = mem /\ req' = req /\ row' = [row EXCEPT ![r].lease = "stale"]
      /\ lapses' = lapses
  BY DEF LeaseExpires, histVars
<1>3. \A s \in Runs : row'[s].status = row[s].status
  BY <1>2 DEF TypeInv, RowInv, Row
<1>4. FirstLife => Unborn'
  BY <1>2, <1>3 DEF LifeInv, FirstInv, Unborn, Live
<1> QED
  BY <1>1, <1>2, <1>4, CalmLife DEF FirstLife, LifeInv, FirstInv

LEMMA ProcLife ==
    ASSUME TypeInv, SaysInv, SoleInv, ShownInv, LifeInv, NEW p \in Procs,
           ProcStep(p) \/ Crash(p) \/ Heartbeat(p)
    PROVE  LifeInv'
<1>1. Calm
  BY ProcCalm
<1>2. CASE Crash(p)
  <2>1. ~(FirstLife')
    BY <1>2 DEF Crash, FirstLife, TypeInv, RestInv
  <2> QED
    BY <1>1, <2>1, CalmLife
<1>3. CASE ProcStep(p) \/ Heartbeat(p)
  <2>1. life' = life /\ Live(p)
    BY <1>3, Zenon DEF ProcStep, ClaimNext, DispatchClaimed, ReconcileRun, Heartbeat, Serving
  <2>2. \A q \in Procs : mem'[q].recon \subseteq mem[q].recon
    BY <1>1, <2>1 DEF Calm, CalmClaims
  <2>3. Unborn'
    BY <2>1 DEF Unborn, Live
  <2>4. FirstLife => lapses' = lapses
    <3>1. \A r \in Runs : ReconcileRun(p, r) => ~FirstLife
      BY DEF ReconcileRun, LifeInv, FirstInv
    <3>2. ClaimNext(p) \/ DispatchClaimed(p) \/ Heartbeat(p) => lapses' = lapses
      BY Zenon DEF ClaimNext, DispatchClaimed, Heartbeat, histVars
    <3> QED
      BY <1>3, <3>1, <3>2 DEF ProcStep
  <2> QED
    BY <1>1, <2>1, <2>2, <2>3, <2>4, CalmLife DEF FirstLife, LifeInv, FirstInv
<1> QED
  BY <1>2, <1>3

LEMMA InitLife == Init => LifeInv
<1> SUFFICES ASSUME Init PROVE LifeInv
  OBVIOUS
<1>1. (\A r \in Runs : row[r].status = "queued") /\ \A q \in Reqs : req[q].pc = "idle"
  BY DEF Init, NoRequest
<1>2. \A t \in Tasks : task[t].pc = "idle"
  BY DEF Init, NoTask
<1>3. \A p \in Procs : mem[p].recon = {}
  BY DEF Init, Blank
<1>4. sent = {}
  BY DEF Init
<1>5. CopyInv /\ OverInv
  BY <1>1, <1>2 DEF CopyInv, CopyOf, Running, OverInv
<1>6. FirstInv
  <2>1. \A s \in PackRuns : Early(s)
    BY <1>1, ParamsAssumption DEF Early, Unasked, Says
  <2>2. \A t \in Tasks : Looking(t)
    BY <1>2 DEF Looking, WaitPCs
  <2>3. AllStamped
    BY DEF Init, AllStamped, Stamped
  <2> QED
    BY <1>1, <1>3, <1>4, <1>5, <2>1, <2>2, <2>3 DEF FirstInv, Unborn, ActedOnce
<1> QED
  BY <1>6 DEF LifeInv

LEMMA NextLife ==
    OneProcess /\ TypeInv /\ SaysInv /\ SoleInv /\ ShownInv /\ LifeInv /\ [Next]_vars => LifeInv'
<1> SUFFICES ASSUME OneProcess, TypeInv, SaysInv, SoleInv, ShownInv, LifeInv, [Next]_vars
             PROVE  LifeInv'
  OBVIOUS
<1>1. ASSUME NEW t \in Tasks, TaskStep(t) \/ WaitTimeout(t) PROVE LifeInv'
  BY <1>1, TaskLife
<1>2. ASSUME NEW p \in Procs, ProcStep(p) \/ Boot(p) \/ Crash(p) \/ Heartbeat(p) PROVE LifeInv'
  BY <1>2, ProcLife, BootLife
<1>3. ASSUME NEW q \in Reqs, RequestStep(q) PROVE LifeInv'
  BY <1>3, RequestLife
<1>4. ASSUME NEW r \in Runs, LeaseExpires(r) PROVE LifeInv'
  BY <1>4, LeaseLife
<1>5. CASE UNCHANGED vars
  <2>1. /\ row' = row /\ manifest' = manifest /\ life' = life /\ mem' = mem /\ task' = task
        /\ req' = req /\ sent' = sent /\ lapses' = lapses
    BY <1>5 DEF vars, histVars
  <2>2. Calm
    BY <2>1, RowsCalm DEF Calm, Books, CalmTasks, CalmClaims, CalmReqs, Says
  <2> QED
    BY <2>1, <2>2, CalmLife DEF FirstLife, LifeInv, FirstInv, Unborn, Live
<1> QED
  BY <1>1, <1>2, <1>3, <1>4, <1>5 DEF Next, Environment, Rest

LEMMA LifeInvariant == OneProcess /\ Spec => [](TypeInv /\ SaysInv /\ SoleInv /\ LifeInv)
<1> SUFFICES ASSUME OneProcess PROVE Spec => [](TypeInv /\ SaysInv /\ SoleInv /\ LifeInv)
  BY DEF OneProcess
<1>1. Spec => []TypeInv
  BY InitTyped, NextTyped, PTL DEF Spec
<1>2. Spec => []SaysInv
  BY <1>1, InitSays, NextSays, PTL DEF Spec
<1>3. ExecInv => SoleInv
  BY DEF ExecInv
<1>4. Spec => []SoleInv
  BY <1>3, ExecInvariant, PTL
<1>5. Init => ShownInv
  BY DEF Init, ShownInv, Shown, NoTask, WaitPCs
<1>6. Spec => []ShownInv
  BY <1>1, <1>4, <1>5, NextShown, PTL DEF Spec
<1>7. TypeInv /\ SaysInv /\ SoleInv /\ ShownInv /\ LifeInv /\ [Next]_vars => LifeInv'
  BY NextLife
<1> QED
  BY <1>1, <1>2, <1>4, <1>6, <1>7, InitLife, PTL DEF Spec

\* H9 where the code keeps it. With one process at a time, and until it is restarted, what
\* Gate 2 sends at the first gate of a run is what the operator who let it pass was looking
\* at: nobody can have decided about that run before its draft was parked, and the waiter,
\* the row and the operator then share one draft. After a restart this is false.
THEOREM FirstGateSendsWhatWasSeen ==
    ASSUME OneProcess PROVE Spec => []FirstGateAuthorised
<1>1. LifeInv => FirstGateAuthorised
  BY DEF LifeInv, FirstInv, Authorised, FirstGateAuthorised
<1> QED
  BY <1>1, LifeInvariant, PTL

\* In the same deployment an approved gate is acted on once before a restart: the coroutine
\* that sent completes the gated node in its manifest before it looks for the next one.
THEOREM GateSendsOnce ==
    ASSUME OneProcess PROVE Spec => []SentOnce
<1>1. LifeInv => SentOnce
  BY DEF LifeInv, FirstInv, ActedOnce, SentOnce
<1> QED
  BY <1>1, LifeInvariant, PTL

\* In the same deployment a run that ends rejected before a restart has sent nothing from the
\* gate it was rejected at: a gate that sent is complete, or its coroutine is about to
\* complete it, and a rejected run has no coroutine.
THEOREM RejectedRunsSendNothing ==
    ASSUME OneProcess PROVE Spec => []RejectedSentNothing
<1>1. ASSUME TypeInv, SaysInv, LifeInv, FirstLife, NEW e \in sent, row[e.run].status = "rejected"
      PROVE  manifest[e.run] >= e.gate
  <2>1. e.run \in Runs /\ e.gate \in Nat /\ manifest[e.run] \in Nat
    BY <1>1 DEF SaysInv, SentSays, Consents, Says, TypeInv, RestInv, ReqInv, Request
  <2>2. ~Executed(e.run)
    BY <1>1, <2>1 DEF LifeInv, FirstInv, OverInv, Over
  <2>3. e.gate <= manifest[e.run]
    BY <1>1, <2>2 DEF LifeInv, FirstInv, Acted, Executed, Running
  <2> QED
    BY <2>1, <2>3
<1>2. TypeInv /\ SaysInv /\ LifeInv => RejectedSentNothing
  BY <1>1 DEF RejectedSentNothing
<1> QED
  BY <1>2, LifeInvariant, PTL
=============================================================================
