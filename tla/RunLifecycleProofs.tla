------------------------- MODULE RunLifecycleProofs -------------------------
(***************************************************************************)
(* Theorems about RunLifecycle for every set of runs, processes, tasks and *)
(* requests, every number of gates and attempts, with and without stalls:  *)
(* it is well typed, acts on decisions only, and implements GatedRun.      *)
(***************************************************************************)
EXTENDS RunRefinement, TLAPS

HoldingPCs == {"claim", "register", "park", "open", "poll", "local", "slot", "decided",
               "rewrite", "dispatch", "flip"}

\* A coroutine belongs to a run and a process, knows its manifest once it has run a
\* node, is at a gate that exists while it holds one, and flips a gate only in a pack.
Proper(x) ==
    /\ x.pc # "idle" => x.run \in Runs /\ x.at \in Procs
    /\ x.pc \in HoldingPCs \cup {"resume", "finish"} => x.done \in Nat
    /\ x.pc \in HoldingPCs /\ x.run \in PackRuns => x.done + 1 \in Gates
    /\ x.pc \in {"claim", "open", "local", "dispatch", "flip"} => x.run \in PackRuns

\* A request that was made is about a run, and one process serves it.
Addressed(x) ==
    /\ x.pc = "idle" => x.at = None
    /\ x.pc # "idle" => x.run \in Runs /\ x.at \in Procs

TaskInv == task \in [Tasks -> Task] /\ \A t \in Tasks : Proper(task[t])
ReqInv  == req \in [Reqs -> Request] /\ \A q \in Reqs : Addressed(req[q])
RowInv  == row \in [Runs -> Row]
GateInv == gate \in [Runs -> [Gates -> GateRow]]
MemInv  == mem \in [Procs -> Memory]
RestInv ==
    /\ manifest \in [Runs -> Nat]
    /\ life \in [Procs -> {"off", "live", "down"}]
    /\ sent \subseteq [run: Runs, gate: Nat, bytes: Drafts \cup {None}, by: Reqs \cup {None}]
    /\ starts \in [Runs -> Nat]
    /\ lapses \subseteq Runs \X Nat

TypeInv == RowInv /\ GateInv /\ TaskInv /\ ReqInv /\ MemInv /\ RestInv

-----------------------------------------------------------------------------
(* The operators the actions are built from.                               *)

LEMMA EndTyped ==
    ASSUME RowInv, NEW r \in Runs, NEW s \in Terminal, End(r, s)
    PROVE  RowInv'
  BY ZenonT(60) DEF RowInv, End, Row, Statuses

LEMMA TaskTyped ==
    ASSUME TaskInv, NEW t \in Tasks, NEW x \in Task, Proper(x),
           task' = [task EXCEPT ![t] = x]
    PROVE  TaskInv'
  BY DEF TaskInv

LEMMA GotoTyped ==
    ASSUME TaskInv, NEW t \in Tasks, NEW pc \in TaskPCs, Goto(t, pc),
           task[t].pc # "idle",
           pc \in HoldingPCs \cup {"resume", "finish"} => task[t].pc \in HoldingPCs,
           pc \in {"claim", "open", "local", "dispatch", "flip"} => task[t].run \in PackRuns
    PROVE  TaskInv'
<1> DEFINE x == [task[t] EXCEPT !.pc = pc]
<1>1. x \in Task /\ Proper(x)
  BY DEF TaskInv, Task, Proper, HoldingPCs
<1> QED
  BY <1>1, TaskTyped DEF Goto

LEMMA LeaveTyped ==
    ASSUME TaskInv, MemInv, NEW t \in Tasks, task[t].pc # "idle", NEW m \in Memory, Leave(t, m)
    PROVE  TaskInv' /\ MemInv'
<1>1. NoTask \in Task /\ Proper(NoTask)
  BY DEF NoTask, Task, TaskPCs, Proper, HoldingPCs
<1>2. [m EXCEPT !.held = @ \ {task[t].run}] \in Memory
  BY DEF Memory
<1> QED
  BY <1>1, <1>2, TaskTyped DEF Leave, MemInv

LEMMA MineTyped ==
    ASSUME TaskInv, MemInv, NEW t \in Tasks, task[t].pc # "idle"
    PROVE  /\ task[t].run \in Runs /\ task[t].at \in Procs /\ Mine(t) \in Memory
           /\ Forget(Mine(t), task[t].run) \in Memory
           /\ Unwait(Mine(t), task[t].run) \in Memory
           /\ Unwait(Forget(Mine(t), task[t].run), task[t].run) \in Memory
  BY ZenonT(60) DEF TaskInv, Proper, MemInv, Mine, Memory, Forget, Unwait

LEMMA GateRowTyped ==
    ASSUME GateInv, NEW r \in Runs, NEW g \in Gates, NEW y \in GateRow,
           gate' = [gate EXCEPT ![r][g] = y]
    PROVE  GateInv'
  BY DEF GateInv

LEMMA AppliedTyped ==
    ASSUME GateInv, NEW r \in Runs, NEW g \in Gates,
           gate' = [gate EXCEPT ![r][g].applied = TRUE]
    PROVE  GateInv'
<1>1. PICK z \in GateRow : z = gate[r][g]
  BY DEF GateInv
<1>2. PICK y \in GateRow : y = [z EXCEPT !.applied = TRUE]
  BY DEF GateRow
<1>3. gate' = [gate EXCEPT ![r][g] = y]
  BY <1>1, <1>2
<1> QED
  BY <1>3, GateRowTyped

-----------------------------------------------------------------------------
(* Type correctness: one lemma for each action.                            *)

LEMMA BeginTyped ==
    ASSUME TypeInv, NEW t \in Tasks, Begin(t)
    PROVE  TypeInv'
<1> USE DEF TypeInv
<1>1. task[t].pc = "begin" /\ Forget(Mine(t), task[t].run) \in Memory
  BY MineTyped DEF Begin
<1>2. TaskInv' /\ MemInv'
  <2>1. CASE Leave(t, Forget(Mine(t), task[t].run))
    BY <1>1, <2>1, LeaveTyped
  <2>2. CASE Goto(t, "exec") /\ UNCHANGED mem
    BY <1>1, <2>2, GotoTyped DEF MemInv, TaskPCs, HoldingPCs
  <2>3. CASE Goto(t, "admit") /\ UNCHANGED mem
    BY <1>1, <2>3, GotoTyped DEF MemInv, TaskPCs, HoldingPCs
  <2> QED
    BY <2>1, <2>2, <2>3 DEF Begin
<1>3. RowInv' /\ GateInv' /\ ReqInv' /\ RestInv'
  BY DEF Begin, histVars, RowInv, GateInv, ReqInv, RestInv
<1> QED
  BY <1>2, <1>3

LEMMA HoldClaimTyped ==
    ASSUME TypeInv, NEW t \in Tasks, HoldClaim(t)
    PROVE  TypeInv'
<1> USE DEF TypeInv
<1> DEFINE r == task[t].run
           g == NextGate(t)
           x == [task[t] EXCEPT !.pc = "register", !.dec = gate[r][g].by]
<1>1. task[t].pc = "claim" /\ r \in Runs /\ g \in Gates /\ gate[r][g] \in GateRow
  BY DEF HoldClaim, TaskInv, Proper, HoldingPCs, NextGate, GateInv
<1>2. TaskInv'
  <2>1. CASE task' = [task EXCEPT ![t] = x]
    <3>1. x \in Task /\ Proper(x)
      BY ZenonT(60), <1>1 DEF TaskInv, Task, TaskPCs, Proper, HoldingPCs, GateRow
    <3> QED
      BY <2>1, <3>1, TaskTyped
  <2>2. CASE Goto(t, "register")
    BY <1>1, <2>2, GotoTyped DEF TaskPCs, HoldingPCs
  <2> QED
    BY <2>1, <2>2 DEF HoldClaim
<1>3. GateInv'
  BY <1>1, AppliedTyped DEF HoldClaim, GateInv
<1>4. RestInv'
  BY DEF HoldClaim, histVars, RestInv
<1>5. RowInv' /\ MemInv' /\ ReqInv'
  BY DEF HoldClaim, RowInv, MemInv, ReqInv
<1> QED
  BY <1>2, <1>3, <1>4, <1>5

LEMMA AdmitTyped ==
    ASSUME TypeInv, NEW t \in Tasks, Admit(t)
    PROVE  TypeInv'
<1> USE DEF TypeInv
<1> DEFINE r == task[t].run
<1>1. task[t].pc = "admit" /\ r \in Runs /\ Mine(t) \in Memory
  BY MineTyped DEF Admit
<1>2. CASE Leave(t, Mine(t)) /\ UNCHANGED starts /\ (End(r, "failed") \/ UNCHANGED row)
  <2>1. TaskInv' /\ MemInv'
    BY <1>1, <1>2, LeaveTyped
  <2>2. RowInv'
    BY <1>1, <1>2, EndTyped DEF RowInv, Terminal
  <2> QED
    BY <1>2, <2>1, <2>2 DEF Admit, GateInv, ReqInv, RestInv
<1>3. CASE /\ row' = [row EXCEPT ![r].status = "running"]
           /\ starts' = [starts EXCEPT ![r] = @ + 1]
           /\ Goto(t, "exec") /\ UNCHANGED mem
  <2>1. TaskInv'
    BY <1>1, <1>3, GotoTyped DEF TaskPCs, HoldingPCs
  <2>2. RowInv'
    BY <1>1, <1>3 DEF RowInv, Row, Statuses, Parked
  <2>3. RestInv'
    BY SMTT(40), <1>1, <1>3 DEF Admit, RestInv
  <2> QED
    BY <1>3, <2>1, <2>2, <2>3 DEF Admit, GateInv, ReqInv, MemInv
<1> QED
  BY <1>2, <1>3 DEF Admit

LEMMA ExecPackTyped ==
    ASSUME TypeInv, NEW t \in Tasks, ExecPack(t)
    PROVE  TypeInv'
<1> USE DEF TypeInv
<1> DEFINE r == task[t].run
           d == IF task[t].done = None THEN manifest[r] ELSE task[t].done
<1>1. /\ task[t].pc = "exec" /\ r \in Runs /\ r \in PackRuns /\ d \in Nat
      /\ Mine(t) \in Memory /\ Forget(Mine(t), r) \in Memory
  BY MineTyped DEF ExecPack, IsPack, RestInv, TaskInv, Task
<1>2. RestInv'
  BY <1>1 DEF ExecPack, histVars, RestInv
<1>3. GateInv' /\ ReqInv'
  BY DEF ExecPack, GateInv, ReqInv
<1>4. CASE Leave(t, Forget(Mine(t), r)) /\ UNCHANGED row
  BY <1>1, <1>2, <1>3, <1>4, LeaveTyped DEF RowInv
<1>5. CASE Leave(t, Mine(t)) /\ End(r, "failed")
  BY <1>1, <1>2, <1>3, <1>5, LeaveTyped, EndTyped DEF Terminal
<1>6. CASE UNCHANGED <<row, mem>> /\ d < NGates /\ \E b \in Drafts :
            task' = [task EXCEPT ![t] = [@ EXCEPT !.pc = "claim", !.done = d, !.bytes = b,
                                                  !.dec = None]]
  <2>1. PICK b \in Drafts : task' = [task EXCEPT ![t] =
            [task[t] EXCEPT !.pc = "claim", !.done = d, !.bytes = b, !.dec = None]]
    BY <1>6
  <2> DEFINE x == [task[t] EXCEPT !.pc = "claim", !.done = d, !.bytes = b, !.dec = None]
  <2>2. d + 1 \in Gates
    BY <1>1, <1>6, ParamsAssumption DEF Gates
  <2>3. x \in Task
    BY ZenonT(60), <1>1 DEF TaskInv, Task, TaskPCs
  <2>4. Proper(x)
    <3> HIDE DEF d
    <3> QED
      BY <1>1, <2>2 DEF TaskInv, Task, Proper, HoldingPCs
  <2> QED
    BY <1>2, <1>3, <1>6, <2>1, <2>3, <2>4, TaskTyped DEF RowInv, MemInv
<1>7. CASE UNCHANGED <<row, mem>> /\ task' = [task EXCEPT ![t] =
                                        [@ EXCEPT !.pc = "finish", !.done = d]]
  <2> DEFINE x == [task[t] EXCEPT !.pc = "finish", !.done = d]
  <2>1. x \in Task
    BY ZenonT(60), <1>1 DEF TaskInv, Task, TaskPCs
  <2>2. Proper(x)
    <3> HIDE DEF d
    <3> QED
      BY <1>1 DEF TaskInv, Task, Proper, HoldingPCs
  <2> QED
    BY <1>2, <1>3, <1>7, <2>1, <2>2, TaskTyped DEF RowInv, MemInv
<1> QED
  BY <1>4, <1>5, <1>6, <1>7 DEF ExecPack

LEMMA ExecPromptTyped ==
    ASSUME TypeInv, NEW t \in Tasks, ExecPrompt(t)
    PROVE  TypeInv'
<1> USE DEF TypeInv
<1> DEFINE r == task[t].run
           d == IF task[t].done = None THEN 0 ELSE task[t].done
<1>1. /\ task[t].pc = "exec" /\ r \in Runs /\ r \notin PackRuns /\ d \in Nat
      /\ Mine(t) \in Memory /\ Forget(Mine(t), r) \in Memory
  BY MineTyped DEF ExecPrompt, IsPack, TaskInv, Task
<1>2. GateInv' /\ ReqInv' /\ RestInv'
  BY DEF ExecPrompt, histVars, GateInv, ReqInv, RestInv
<1>3. CASE Leave(t, Forget(Mine(t), r)) /\ UNCHANGED row
  BY <1>1, <1>2, <1>3, LeaveTyped DEF RowInv
<1>4. CASE Leave(t, Mine(t)) /\ End(r, "failed")
  BY <1>1, <1>2, <1>4, LeaveTyped, EndTyped DEF Terminal
<1>5. CASE UNCHANGED <<row, mem>> /\ \E b \in Drafts :
            task' = [task EXCEPT ![t] = [@ EXCEPT !.pc = "register", !.done = d, !.bytes = b,
                                                  !.dec = None]]
  <2>1. PICK b \in Drafts : task' = [task EXCEPT ![t] =
            [task[t] EXCEPT !.pc = "register", !.done = d, !.bytes = b, !.dec = None]]
    BY <1>5
  <2> DEFINE x == [task[t] EXCEPT !.pc = "register", !.done = d, !.bytes = b, !.dec = None]
  <2>2. x \in Task
    BY ZenonT(60), <1>1 DEF TaskInv, Task, TaskPCs
  <2>3. Proper(x)
    <3> HIDE DEF d
    <3> QED
      BY <1>1 DEF TaskInv, Task, Proper, HoldingPCs
  <2> QED
    BY <1>2, <1>5, <2>1, <2>2, <2>3, TaskTyped DEF RowInv, MemInv
<1>6. CASE UNCHANGED <<row, mem>> /\ task' = [task EXCEPT ![t] =
                                        [@ EXCEPT !.pc = "finish", !.done = d]]
  <2> DEFINE x == [task[t] EXCEPT !.pc = "finish", !.done = d]
  <2>1. x \in Task
    BY ZenonT(60), <1>1 DEF TaskInv, Task, TaskPCs
  <2>2. Proper(x)
    <3> HIDE DEF d
    <3> QED
      BY <1>1 DEF TaskInv, Task, Proper, HoldingPCs
  <2> QED
    BY <1>2, <1>6, <2>1, <2>2, TaskTyped DEF RowInv, MemInv
<1> QED
  BY <1>3, <1>4, <1>5, <1>6 DEF ExecPrompt

LEMMA FinishTyped ==
    ASSUME TypeInv, NEW t \in Tasks, Finish(t)
    PROVE  TypeInv'
<1> USE DEF TypeInv
<1>1. /\ task[t].pc = "finish" /\ task[t].run \in Runs
      /\ Forget(Mine(t), task[t].run) \in Memory
  BY MineTyped DEF Finish
<1>2. TaskInv' /\ MemInv'
  BY <1>1, LeaveTyped DEF Finish
<1>3. RowInv'
  BY <1>1, EndTyped DEF Finish, RowInv, Terminal
<1> QED
  BY <1>2, <1>3 DEF Finish, histVars, GateInv, ReqInv, RestInv

LEMMA HoldRegisterTyped ==
    ASSUME TypeInv, NEW t \in Tasks, HoldRegister(t)
    PROVE  TypeInv'
<1> USE DEF TypeInv
<1> DEFINE r == task[t].run
<1>1. /\ task[t].pc = "register" /\ r \in Runs /\ task[t].at \in Procs
      /\ Unwait(Forget(Mine(t), r), r) \in Memory
  BY MineTyped DEF HoldRegister
<1>2. TaskInv' /\ MemInv'
  <2>1. CASE Leave(t, Unwait(Forget(Mine(t), r), r))
    BY <1>1, <2>1, LeaveTyped
  <2>2. CASE Goto(t, "park") /\ mem' = [mem EXCEPT ![task[t].at].waiting = @ \cup {r}]
    <3>1. TaskInv'
      BY <1>1, <2>2, GotoTyped DEF TaskPCs, HoldingPCs
    <3>2. MemInv'
      BY ZenonT(60), <1>1, <2>2 DEF MemInv, Memory
    <3> QED
      BY <3>1, <3>2
  <2> QED
    BY <2>1, <2>2 DEF HoldRegister
<1> QED
  BY <1>2 DEF HoldRegister, histVars, RowInv, GateInv, ReqInv, RestInv

LEMMA HoldParkTyped ==
    ASSUME TypeInv, NEW t \in Tasks, HoldPark(t)
    PROVE  TypeInv'
<1> USE DEF TypeInv
<1> DEFINE r == task[t].run
<1>1. /\ task[t].pc = "park" /\ r \in Runs /\ task[t].at \in Procs /\ task[t] \in Task
      /\ Unwait(Forget(Mine(t), r), r) \in Memory
      /\ Unwait(mem[task[t].at], r) \in Memory
  BY MineTyped DEF HoldPark, TaskInv, Mine
<1>2. GateInv' /\ ReqInv' /\ RestInv'
  BY DEF HoldPark, histVars, GateInv, ReqInv, RestInv
<1>3. CASE Leave(t, Unwait(Forget(Mine(t), r), r)) /\ UNCHANGED row
  BY <1>1, <1>2, <1>3, LeaveTyped DEF RowInv
<1>4. CASE row' = [row EXCEPT ![r].status = "awaiting_approval", ![r].pending = task[t].bytes]
  <2>1. RowInv'
    BY <1>1, <1>4 DEF RowInv, Row, Statuses, Parked, Task
  <2>2. CASE Goto(t, "decided") /\ mem' = [mem EXCEPT ![task[t].at] = Unwait(@, r)]
    BY <1>1, <1>2, <2>1, <2>2, GotoTyped DEF TaskPCs, HoldingPCs, MemInv
  <2>3. CASE Goto(t, "open") /\ IsPack(t) /\ UNCHANGED mem
    BY <1>1, <1>2, <2>1, <2>3, GotoTyped DEF TaskPCs, HoldingPCs, MemInv, IsPack
  <2>4. CASE Goto(t, "poll") /\ UNCHANGED mem
    BY <1>1, <1>2, <2>1, <2>4, GotoTyped DEF TaskPCs, HoldingPCs, MemInv
  <2>5. CASE Leave(t, Unwait(Forget(Mine(t), r), r))
    BY <1>1, <1>2, <2>1, <2>5, LeaveTyped
  <2> QED
    BY <1>4, <2>2, <2>3, <2>4, <2>5 DEF HoldPark
<1> QED
  BY <1>3, <1>4 DEF HoldPark

LEMMA HoldOpenTyped ==
    ASSUME TypeInv, NEW t \in Tasks, HoldOpen(t)
    PROVE  TypeInv'
<1> USE DEF TypeInv
<1> DEFINE r == task[t].run
           g == NextGate(t)
           x == [NoGateRow EXCEPT !.state = "open", !.sha = task[t].bytes]
<1>1. /\ task[t].pc = "open" /\ r \in Runs /\ g \in Gates /\ task[t] \in Task
  BY DEF HoldOpen, TaskInv, Proper, HoldingPCs, NextGate
<1>2. TaskInv'
  BY <1>1, GotoTyped DEF HoldOpen, TaskPCs, HoldingPCs
<1>3. GateInv'
  <2>1. x \in GateRow
    BY <1>1 DEF NoGateRow, GateRow, Task
  <2>2. gate' = gate \/ gate' = [gate EXCEPT ![r][g] = x]
    BY DEF HoldOpen
  <2> HIDE DEF x
  <2> QED
    BY <1>1, <2>1, <2>2 DEF GateInv
<1>4. RestInv'
  <2>1. g \in Nat
    BY <1>1, ParamsAssumption DEF Gates
  <2> QED
    BY <1>1, <2>1 DEF HoldOpen, Lapse, RestInv
<1> QED
  BY <1>2, <1>3, <1>4 DEF HoldOpen, RowInv, MemInv, ReqInv

LEMMA DecideTyped ==
    ASSUME TypeInv, NEW t \in Tasks, NEW q \in Reqs \cup {None}, NEW m \in Memory,
           task[t].pc \in {"poll", "local"}, Decide(t, q, m)
    PROVE  TaskInv' /\ MemInv'
<1> USE DEF TypeInv
<1> DEFINE x == [task[t] EXCEPT !.pc = IF req[q].kind = "reject" THEN "decided" ELSE "slot",
                                !.dec = q]
<1>1. task[t].at \in Procs /\ Unwait(m, task[t].run) \in Memory
  BY MineTyped DEF Unwait, Memory
<1>2. x \in Task /\ Proper(x)
  BY ZenonT(60) DEF TaskInv, Task, TaskPCs, Proper, HoldingPCs
<1>3. TaskInv'
  BY <1>2, TaskTyped DEF Decide
<1>4. MemInv'
  BY <1>1 DEF Decide, MemInv
<1> QED
  BY <1>3, <1>4

LEMMA WaitClaimTyped ==
    ASSUME TypeInv, NEW t \in Tasks, WaitClaim(t)
    PROVE  TypeInv'
<1> USE DEF TypeInv
<1> DEFINE r == task[t].run
           g == NextGate(t)
           m == [Mine(t) EXCEPT !.decided[r] = None]
<1>1. /\ task[t].pc = "poll" /\ r \in Runs /\ r \in PackRuns /\ g \in Gates
      /\ gate[r][g] \in GateRow
  BY DEF WaitClaim, IsPack, TaskInv, Proper, HoldingPCs, NextGate, GateInv
<1>2. m \in Memory
  BY <1>1, MineTyped DEF Memory
<1>3. GateInv'
  BY <1>1, AppliedTyped DEF WaitClaim, GateInv
<1>4. TaskInv' /\ MemInv'
  <2>1. CASE Decide(t, gate[r][g].by, m)
    <3>1. gate[r][g].by \in Reqs \cup {None}
      BY <1>1 DEF GateRow
    <3> QED
      BY <1>1, <1>2, <2>1, <3>1, DecideTyped
  <2>2. CASE Goto(t, "local") /\ UNCHANGED mem
    BY <1>1, <2>2, GotoTyped DEF TaskPCs, HoldingPCs, MemInv
  <2> QED
    BY <2>1, <2>2 DEF WaitClaim
<1> QED
  BY <1>3, <1>4 DEF WaitClaim, histVars, RowInv, ReqInv, RestInv

LEMMA WaitLocalTyped ==
    ASSUME TypeInv, NEW t \in Tasks, WaitLocal(t)
    PROVE  TypeInv'
<1> USE DEF TypeInv
<1> DEFINE r == task[t].run
           q == Mine(t).decided[r]
           m == [Mine(t) EXCEPT !.decided[r] = None]
<1>1. /\ task[t].pc \in {"poll", "local"} /\ r \in Runs
      /\ Mine(t) \in Memory /\ Unwait(Mine(t), r) \in Memory
  BY MineTyped DEF WaitLocal
<1>2. m \in Memory /\ q \in Reqs \cup {None}
  BY <1>1 DEF Memory
<1>3. TaskInv' /\ MemInv'
  <2>1. CASE Decide(t, q, m)
    BY <1>1, <1>2, <2>1, DecideTyped
  <2>2. CASE Leave(t, Unwait(Mine(t), r))
    BY <1>1, <2>2, LeaveTyped
  <2>3. CASE Goto(t, "poll") /\ UNCHANGED mem
    BY <1>1, <2>3, GotoTyped DEF TaskPCs, HoldingPCs, MemInv
  <2> QED
    BY <2>1, <2>2, <2>3 DEF WaitLocal
<1> QED
  BY <1>3 DEF WaitLocal, histVars, RowInv, GateInv, ReqInv, RestInv

LEMMA WaitSlotTyped ==
    ASSUME TypeInv, NEW t \in Tasks, WaitSlot(t)
    PROVE  TypeInv'
<1> USE DEF TypeInv
<1>1. /\ task[t].pc = "slot" /\ task[t].at \in Procs
      /\ Unwait(mem[task[t].at], task[t].run) \in Memory
  BY MineTyped DEF WaitSlot, Mine
<1>2. TaskInv'
  BY <1>1, GotoTyped DEF WaitSlot, TaskPCs, HoldingPCs
<1>3. MemInv'
  BY <1>1 DEF WaitSlot, MemInv
<1> QED
  BY <1>2, <1>3 DEF WaitSlot, histVars, RowInv, GateInv, ReqInv, RestInv

LEMMA WaitTimeoutTyped ==
    ASSUME TypeInv, NEW t \in Tasks, WaitTimeout(t)
    PROVE  TypeInv'
<1> USE DEF TypeInv
<1>1. /\ task[t].pc = "poll" /\ task[t].run \in Runs
      /\ Unwait(Mine(t), task[t].run) \in Memory
  BY MineTyped DEF WaitTimeout
<1>2. TaskInv' /\ MemInv'
  BY <1>1, LeaveTyped DEF WaitTimeout
<1>3. RowInv'
  BY <1>1, EndTyped DEF WaitTimeout, Terminal
<1> QED
  BY <1>2, <1>3 DEF WaitTimeout, histVars, GateInv, ReqInv, RestInv

LEMMA DecidedTyped ==
    ASSUME TypeInv, NEW t \in Tasks, Decided(t)
    PROVE  TypeInv'
<1> USE DEF TypeInv
<1> DEFINE r == task[t].run
<1>1. task[t].pc = "decided" /\ r \in Runs /\ Mine(t) \in Memory
  BY MineTyped DEF Decided
<1>2. GateInv' /\ ReqInv' /\ RestInv'
  BY DEF Decided, histVars, GateInv, ReqInv, RestInv
<1>3. CASE Leave(t, Mine(t)) /\ (End(r, "rejected") \/ End(r, "failed"))
  BY <1>1, <1>2, <1>3, LeaveTyped, EndTyped DEF Terminal
<1>4. CASE UNCHANGED <<row, mem>>
          /\ (Goto(t, "rewrite") \/ (IsPack(t) /\ Goto(t, "dispatch")) \/ Goto(t, "resume"))
  <2>1. TaskInv'
    BY <1>1, <1>4, GotoTyped DEF TaskPCs, HoldingPCs, IsPack
  <2> QED
    BY <1>2, <1>4, <2>1 DEF RowInv, MemInv
<1> QED
  BY <1>3, <1>4 DEF Decided

LEMMA RewritePendingTyped ==
    ASSUME TypeInv, NEW t \in Tasks, RewritePending(t)
    PROVE  TypeInv'
<1> USE DEF TypeInv
<1>1. task[t].pc = "rewrite" /\ task[t].run \in Runs /\ task[t] \in Task
  BY MineTyped DEF RewritePending, TaskInv
<1>2. TaskInv'
  BY <1>1, GotoTyped DEF RewritePending, TaskPCs, HoldingPCs, IsPack
<1>3. RowInv'
  BY <1>1 DEF RewritePending, RowInv, Row, Task
<1> QED
  BY <1>2, <1>3 DEF RewritePending, histVars, GateInv, ReqInv, MemInv, RestInv

LEMMA DispatchGate2Typed ==
    ASSUME TypeInv, NEW t \in Tasks, DispatchGate2(t)
    PROVE  TypeInv'
<1> USE DEF TypeInv
<1> DEFINE r == task[t].run
           e == [run |-> r, gate |-> NextGate(t), bytes |-> task[t].bytes, by |-> task[t].dec]
<1>1. /\ task[t].pc = "dispatch" /\ r \in Runs /\ task[t] \in Task /\ NextGate(t) \in Nat
      /\ Mine(t) \in Memory
  BY MineTyped DEF DispatchGate2, TaskInv, Proper, HoldingPCs, NextGate
<1>2. GateInv' /\ ReqInv'
  BY DEF DispatchGate2, GateInv, ReqInv
<1>3. CASE End(r, "failed") /\ Leave(t, Mine(t)) /\ UNCHANGED sent
  <2>1. TaskInv' /\ MemInv' /\ RowInv'
    BY <1>1, <1>3, LeaveTyped, EndTyped DEF Terminal
  <2> QED
    BY <1>2, <1>3, <2>1 DEF DispatchGate2, RestInv
<1>4. CASE sent' = sent \cup {e} /\ Goto(t, "flip") /\ UNCHANGED <<row, mem>>
  <2>1. TaskInv'
    BY <1>1, <1>4, GotoTyped DEF TaskPCs, HoldingPCs, TaskInv, Proper
  <2>2. e \in [run: Runs, gate: Nat, bytes: Drafts \cup {None}, by: Reqs \cup {None}]
    BY <1>1 DEF Task
  <2>3. RestInv'
    <3> HIDE DEF e
    <3> QED
      BY <1>4, <2>2 DEF DispatchGate2, RestInv
  <2> QED
    BY <1>2, <1>4, <2>1, <2>3 DEF RowInv, MemInv
<1> QED
  BY <1>3, <1>4 DEF DispatchGate2

LEMMA CompleteGateTyped ==
    ASSUME TypeInv, NEW t \in Tasks, CompleteGate(t)
    PROVE  TypeInv'
<1> USE DEF TypeInv
<1> DEFINE x == [task[t] EXCEPT !.pc = "resume", !.done = NextGate(t)]
<1>1. /\ task[t].pc = "flip" /\ task[t].run \in Runs /\ NextGate(t) \in Nat
  BY DEF CompleteGate, TaskInv, Proper, HoldingPCs, NextGate
<1>2. x \in Task
  BY <1>1 DEF TaskInv, Task, TaskPCs
<1>3. Proper(x)
  BY <1>1 DEF TaskInv, Task, Proper, HoldingPCs
<1>4. TaskInv'
  BY <1>2, <1>3, TaskTyped DEF CompleteGate
<1>5. RestInv'
  BY <1>1 DEF CompleteGate, histVars, RestInv
<1> QED
  BY <1>4, <1>5 DEF CompleteGate, RowInv, GateInv, ReqInv, MemInv

LEMMA ResumeRunTyped ==
    ASSUME TypeInv, NEW t \in Tasks, ResumeRun(t)
    PROVE  TypeInv'
<1> USE DEF TypeInv
<1> DEFINE r == task[t].run
           d == IF IsPack(t) THEN task[t].done ELSE NextGate(t)
           x == [task[t] EXCEPT !.pc = "exec", !.done = d]
<1>1. task[t].pc = "resume" /\ task[t].run \in Runs /\ task[t].done \in Nat
  BY DEF ResumeRun, TaskInv, Proper, HoldingPCs
<1>2. d \in Nat
  BY <1>1 DEF NextGate
<1>3. x \in Task /\ Proper(x)
  <2> HIDE DEF d
  <2> QED
    BY <1>1, <1>2 DEF TaskInv, Task, TaskPCs, Proper, HoldingPCs
<1>4. TaskInv'
  BY <1>3, TaskTyped DEF ResumeRun
<1>5. RowInv'
  <2>1. CASE Ended(r)
    BY <2>1 DEF ResumeRun, RowInv
  <2>2. CASE ~Ended(r)
    BY <1>1, <2>2 DEF ResumeRun, RowInv, Row, Statuses, Parked
  <2> QED
    BY <2>1, <2>2
<1> QED
  BY <1>4, <1>5 DEF ResumeRun, histVars, GateInv, ReqInv, MemInv, RestInv

LEMMA TaskStepTyped ==
    ASSUME TypeInv, NEW t \in Tasks, TaskStep(t)
    PROVE  TypeInv'
  BY BeginTyped, AdmitTyped, ExecPackTyped, ExecPromptTyped, FinishTyped, HoldClaimTyped,
     HoldRegisterTyped, HoldParkTyped, HoldOpenTyped, WaitClaimTyped, WaitLocalTyped,
     WaitSlotTyped, DecidedTyped, RewritePendingTyped, DispatchGate2Typed, CompleteGateTyped,
     ResumeRunTyped DEF TaskStep

LEMMA SpawnTyped ==
    ASSUME TaskInv, NEW t \in Tasks, NEW p \in Procs, NEW r \in Runs, Spawn(t, p, r)
    PROVE  TaskInv'
<1> DEFINE x == [NoTask EXCEPT !.pc = "begin", !.run = r, !.at = p]
<1>1. x \in Task /\ Proper(x)
  BY DEF NoTask, Task, TaskPCs, Proper, HoldingPCs
<1> QED
  BY <1>1, TaskTyped DEF Spawn

LEMMA ClaimNextTyped ==
    ASSUME TypeInv, NEW p \in Procs, ClaimNext(p)
    PROVE  TypeInv'
<1> USE DEF TypeInv
<1> DEFINE tries(r) == IF row[r].status = "awaiting_approval" THEN row[r].attempts
                       ELSE row[r].attempts + 1
           claim(r) == [run |-> r, first |-> row[r].status = "queued", attempts |-> tries(r)]
<1>1. PICK r \in Runs :
        /\ row' = [row EXCEPT ![r].owner = p, ![r].lease = "fresh", ![r].attempts = tries(r),
                              ![r].status = IF @ = "queued" THEN "running" ELSE @]
        /\ mem' = [mem EXCEPT ![p].hand = claim(r)]
  BY DEF ClaimNext
<1>2. row[r] \in Row /\ tries(r) \in Nat
  BY DEF RowInv, Row
<1>3. RowInv'
  <2> HIDE DEF tries
  <2> QED
    BY <1>1, <1>2 DEF RowInv, Row, Statuses, Parked
<1>4. claim(r) \in Claims
  <2> HIDE DEF tries
  <2> QED
    BY <1>2 DEF Claims
<1>5. MemInv'
  <2> HIDE DEF claim
  <2> QED
    BY ZenonT(60), <1>1, <1>4 DEF MemInv, Memory
<1> QED
  BY <1>3, <1>5 DEF ClaimNext, histVars, GateInv, TaskInv, ReqInv, RestInv

LEMMA DispatchClaimedTyped ==
    ASSUME TypeInv, NEW p \in Procs, DispatchClaimed(p)
    PROVE  TypeInv'
<1> USE DEF TypeInv
<1> DEFINE c == mem[p].hand
<1>1. c.run \in Runs /\ mem[p] \in Memory
  BY DEF DispatchClaimed, MemInv, Memory, Claims
<1>2. GateInv' /\ ReqInv' /\ RestInv'
  BY DEF DispatchClaimed, histVars, GateInv, ReqInv, RestInv
<1>3. CASE End(c.run, "failed") /\ mem' = [mem EXCEPT ![p].hand = None] /\ UNCHANGED task
  <2>1. MemInv'
    BY <1>1, <1>3 DEF MemInv, Memory
  <2>2. RowInv'
    BY <1>1, <1>3, EndTyped DEF Terminal
  <2> QED
    BY <1>2, <1>3, <2>1, <2>2 DEF TaskInv
<1>4. CASE /\ \E t \in Tasks : Spawn(t, p, c.run)
           /\ mem' = [mem EXCEPT ![p].hand = None, ![p].held = @ \cup {c.run}]
           /\ UNCHANGED row
  <2>1. MemInv'
    BY <1>1, <1>4 DEF MemInv, Memory
  <2>2. TaskInv'
    BY <1>1, <1>4, SpawnTyped
  <2> QED
    BY <1>2, <1>4, <2>1, <2>2 DEF RowInv
<1> QED
  BY <1>3, <1>4 DEF DispatchClaimed

LEMMA ReconcileRunTyped ==
    ASSUME TypeInv, NEW p \in Procs, NEW r \in Runs, ReconcileRun(p, r)
    PROVE  TypeInv'
<1> USE DEF TypeInv
<1>1. GateInv' /\ ReqInv' /\ RestInv'
  BY DEF ReconcileRun, Lapse, GateInv, ReqInv, RestInv
<1>2. CASE End(r, "failed") /\ mem' = [mem EXCEPT ![p].recon = @ \ {r}] /\ UNCHANGED task
  <2>1. MemInv'
    BY ZenonT(60), <1>2 DEF MemInv, Memory
  <2> QED
    BY <1>1, <1>2, <2>1, EndTyped DEF Terminal, TaskInv
<1>3. CASE /\ row' = row \/ row' = [row EXCEPT ![r].owner = p, ![r].lease = "fresh"]
           /\ \E t \in Tasks : Spawn(t, p, r)
           /\ mem' = [mem EXCEPT ![p].recon = @ \ {r}, ![p].held = @ \cup {r}]
  <2>1. MemInv'
    BY ZenonT(60), <1>3 DEF MemInv, Memory
  <2>2. RowInv'
    BY SMTT(40), <1>3 DEF RowInv, Row
  <2>3. TaskInv'
    BY <1>3, SpawnTyped
  <2> QED
    BY <1>1, <2>1, <2>2, <2>3
<1> QED
  BY <1>2, <1>3 DEF ReconcileRun

LEMMA EnvironmentTyped ==
    ASSUME TypeInv, Environment
    PROVE  TypeInv'
<1> USE DEF TypeInv
<1>1. ASSUME NEW p \in Procs, Boot(p) PROVE TypeInv'
  <2>1. MemInv'
    BY ZenonT(60), <1>1 DEF Boot, MemInv, Memory
  <2>2. RestInv'
    BY <1>1 DEF Boot, histVars, RestInv
  <2> QED
    BY <1>1, <2>1, <2>2 DEF Boot, RowInv, GateInv, TaskInv, ReqInv
<1>2. ASSUME NEW p \in Procs, Crash(p) PROVE TypeInv'
  <2>1. MemInv'
    BY <1>2 DEF Crash, MemInv, Memory, Blank
  <2>2. TaskInv'
    <3>1. NoTask \in Task /\ Proper(NoTask)
      BY DEF NoTask, Task, TaskPCs, Proper, HoldingPCs
    <3> QED
      BY <1>2, <3>1 DEF Crash, TaskInv
  <2>3. ReqInv'
    <3>1. ASSUME NEW q \in Reqs, req[q].pc # "idle"
          PROVE  LET x == [req[q] EXCEPT !.pc = "lost"] IN x \in Request /\ Addressed(x)
      BY <3>1 DEF ReqInv, Request, ReqPCs, Addressed
    <3>2. \A q \in Reqs : req[q].at = p => req[q].pc # "idle"
      BY ParamsAssumption DEF ReqInv, Addressed
    <3> QED
      BY <1>2, <3>1, <3>2 DEF Crash, ReqInv
  <2>4. RestInv'
    BY <1>2 DEF Crash, histVars, RestInv
  <2> QED
    BY <1>2, <2>1, <2>2, <2>3, <2>4 DEF Crash, RowInv, GateInv
<1>3. ASSUME NEW p \in Procs, Heartbeat(p) PROVE TypeInv'
  <2>1. RowInv'
    BY <1>3 DEF Heartbeat, RowInv, Row
  <2>2. MemInv'
    BY SMTT(40), <1>3 DEF Heartbeat, MemInv, Memory
  <2> QED
    BY <1>3, <2>1, <2>2 DEF Heartbeat, histVars, GateInv, TaskInv, ReqInv, RestInv
<1>4. ASSUME NEW r \in Runs, LeaseExpires(r) PROVE TypeInv'
  <2>1. RowInv'
    BY <1>4 DEF LeaseExpires, RowInv, Row
  <2> QED
    BY <1>4, <2>1 DEF LeaseExpires, histVars, GateInv, TaskInv, ReqInv, MemInv, RestInv
<1> QED
  BY <1>1, <1>2, <1>3, <1>4, WaitTimeoutTyped DEF Environment

LEMMA AskTyped ==
    ASSUME ReqInv, NEW q \in Reqs, NEW pc \in ReqPCs \ {"idle"}, NEW kind \in Decisions \cup {"cancel"},
           NEW r \in Runs, NEW p \in Procs, NEW saw \in Drafts \cup Reqs \cup {None},
           Ask(q, pc, kind, r, p, saw)
    PROVE  ReqInv'
<1> DEFINE x == [NoRequest EXCEPT !.pc = pc, !.kind = kind, !.run = r, !.at = p, !.saw = saw]
<1>1. x \in Request /\ Addressed(x)
  BY DEF NoRequest, Request, Addressed
<1> HIDE DEF x
<1> QED
  BY <1>1 DEF Ask, ReqInv, x

LEMMA AnswerTyped ==
    ASSUME ReqInv, NEW q \in Reqs, NEW pc \in ReqPCs \ {"idle"}, req[q].pc # "idle", Answer(q, pc)
    PROVE  ReqInv'
  BY DEF Answer, ReqInv, Request, Addressed

LEMMA RequestStepTyped ==
    ASSUME TypeInv, NEW q \in Reqs, RequestStep(q)
    PROVE  TypeInv'
<1> USE DEF TypeInv
<1>1. ASSUME NEW p \in Procs, NEW r \in Runs, DecideCheck(q, p, r) PROVE TypeInv'
  <2>1. row[r].pending \in Drafts \cup Reqs \cup {None}
    BY DEF RowInv, Row
  <2>2. ReqInv'
    BY <1>1, <2>1, AskTyped DEF DecideCheck, ReqPCs
  <2> QED
    BY <1>1, <2>2 DEF DecideCheck, histVars, RowInv, GateInv, TaskInv, MemInv, RestInv
<1>2. ASSUME NEW p \in Procs, NEW r \in Runs, CancelMark(q, p, r) PROVE TypeInv'
  <2>1. ReqInv'
    BY <1>2, AskTyped DEF CancelMark, ReqPCs
  <2>2. MemInv'
    BY <1>2 DEF CancelMark, MemInv, Memory
  <2> QED
    BY <1>2, <2>1, <2>2 DEF CancelMark, histVars, RowInv, GateInv, TaskInv, RestInv
<1>3. CASE RecordDecision(q)
  <2> DEFINE r == req[q].run
             y(g) == [gate[r][g] EXCEPT !.state = DecisionState(req[q].kind), !.by = q]
             open == {g \in Gates : gate[r][g].state = "open"}
  <2>1. r \in Runs
    BY <1>3 DEF RecordDecision, ReqInv, Addressed
  <2>2. ASSUME NEW g \in Gates PROVE y(g) \in GateRow /\ gate[r][g] \in GateRow
    <3>1. PICK z \in GateRow : z = gate[r][g]
      BY <2>1 DEF GateInv
    <3>2. [z EXCEPT !.state = DecisionState(req[q].kind), !.by = q] \in GateRow
      BY DEF GateRow, DecisionState
    <3> QED
      BY <3>1, <3>2
  <2>3. gate' = [gate EXCEPT ![r] = [g \in Gates |-> IF g \in open THEN y(g) ELSE gate[r][g]]]
    BY <1>3 DEF RecordDecision
  <2>4. GateInv'
    <3> HIDE DEF y, open
    <3> QED
      BY <2>1, <2>2, <2>3 DEF GateInv
  <2>5. ReqInv'
    BY <1>3, AnswerTyped DEF RecordDecision, ReqPCs
  <2> QED
    BY <1>3, <2>4, <2>5 DEF RecordDecision, histVars, RowInv, TaskInv, MemInv, RestInv
<1>4. CASE ResolveWaiter(q)
  <2>1. req[q].at \in Procs /\ req[q].run \in Runs
    BY <1>4 DEF ResolveWaiter, ReqInv, Addressed
  <2>2. ReqInv'
    BY <1>4, AnswerTyped DEF ResolveWaiter, ReqPCs
  <2>3. MemInv'
    <3> DEFINE at == req[q].at
               r == req[q].run
    <3>1. PICK m \in Memory : m = mem[at]
      BY <2>1 DEF MemInv
    <3>2. [m EXCEPT !.decided[r] = q] \in Memory
      <4>1. [m.decided EXCEPT ![r] = q] \in [Runs -> Reqs \cup {None}]
        BY <2>1 DEF Memory
      <4> QED
        BY <4>1 DEF Memory
    <3>3. mem' = mem \/ mem' = [mem EXCEPT ![at] = [m EXCEPT !.decided[r] = q]]
      BY <1>4, <3>1 DEF ResolveWaiter
    <3> QED
      BY <2>1, <3>2, <3>3 DEF MemInv
  <2> QED
    BY <1>4, <2>2, <2>3 DEF ResolveWaiter, histVars, RowInv, GateInv, TaskInv, RestInv
<1>5. CASE CancelWrite(q)
  <2> DEFINE r == req[q].run
             y(g) == [gate[r][g] EXCEPT !.state = "rejected", !.applied = TRUE]
  <2>1. r \in Runs
    BY <1>5 DEF CancelWrite, ReqInv, Addressed
  <2>2. ASSUME NEW g \in Gates PROVE y(g) \in GateRow /\ gate[r][g] \in GateRow
    <3>1. PICK z \in GateRow : z = gate[r][g]
      BY <2>1 DEF GateInv
    <3>2. [z EXCEPT !.state = "rejected", !.applied = TRUE] \in GateRow
      BY DEF GateRow
    <3> QED
      BY <3>1, <3>2
  <2>3. \/ gate' = gate
        \/ gate' = [gate EXCEPT ![r] = [g \in Gates |->
                       IF gate[r][g].state = "open" THEN y(g) ELSE gate[r][g]]]
    BY <1>5 DEF CancelWrite
  <2>4. GateInv'
    <3> HIDE DEF y
    <3> QED
      BY <2>1, <2>2, <2>3 DEF GateInv
  <2>5. RowInv'
    BY <1>5, <2>1, EndTyped DEF CancelWrite, Terminal
  <2>6. ReqInv'
    BY <1>5, AnswerTyped DEF CancelWrite, ReqPCs
  <2> QED
    BY <1>5, <2>4, <2>5, <2>6 DEF CancelWrite, histVars, TaskInv, MemInv, RestInv
<1>6. CASE CancelFails(q)
  <2>1. ReqInv'
    BY <1>6, AnswerTyped DEF CancelFails, ReqPCs
  <2> QED
    BY <1>6, <2>1 DEF CancelFails, histVars, RowInv, GateInv, TaskInv, MemInv, RestInv
<1> QED
  BY <1>1, <1>2, <1>3, <1>4, <1>5, <1>6 DEF RequestStep

LEMMA InitTyped == Init => TypeInv
<1> SUFFICES ASSUME Init PROVE TypeInv
  OBVIOUS
<1>1. RowInv
  BY DEF Init, RowInv, Row, Statuses
<1>2. GateInv
  BY DEF Init, GateInv, GateRow, NoGateRow
<1>3. TaskInv
  BY DEF Init, TaskInv, Task, TaskPCs, NoTask, Proper, HoldingPCs
<1>4. ReqInv
  BY DEF Init, ReqInv, Request, ReqPCs, NoRequest, Addressed
<1>5. MemInv
  BY DEF Init, MemInv, Memory, Blank
<1>6. RestInv
  BY DEF Init, RestInv
<1> QED
  BY <1>1, <1>2, <1>3, <1>4, <1>5, <1>6 DEF TypeInv

LEMMA NextTyped == TypeInv /\ [Next]_vars => TypeInv'
<1> SUFFICES ASSUME TypeInv, [Next]_vars PROVE TypeInv'
  OBVIOUS
<1>1. CASE \E t \in Tasks : TaskStep(t)
  BY <1>1, TaskStepTyped
<1>2. CASE \E p \in Procs : ProcStep(p)
  BY <1>2, ClaimNextTyped, DispatchClaimedTyped, ReconcileRunTyped DEF ProcStep
<1>3. CASE \E q \in Reqs : RequestStep(q)
  BY <1>3, RequestStepTyped
<1>4. CASE Environment
  BY <1>4, EnvironmentTyped
<1>5. CASE UNCHANGED vars
  BY <1>5 DEF vars, histVars, TypeInv, RowInv, GateInv, TaskInv, ReqInv, MemInv, RestInv
<1> QED
  BY <1>1, <1>2, <1>3, <1>4, <1>5 DEF Next, Rest

\* Every reachable state of the fleet is well typed: TypeOK, with the facts about
\* coroutines and requests that make it inductive.
THEOREM TypeCorrect == Spec => []TypeOK
<1>1. Spec => []TypeInv
  BY InitTyped, NextTyped, PTL DEF Spec
<1>2. TypeInv => TypeOK
  BY DEF TypeInv, TypeOK, RowInv, GateInv, TaskInv, ReqInv, MemInv, RestInv
<1> QED
  BY <1>1, <1>2, PTL

-----------------------------------------------------------------------------
(***************************************************************************)
(* Where a decision that reaches Gate 2 comes from: through the gate row,  *)
(* the in-process dict, or the coroutine that claimed it.                  *)
(***************************************************************************)

\* Request q decided run r: its kind and its run no longer change.
Says(q, r) ==
    /\ q \in Reqs
    /\ req[q].pc # "idle"
    /\ req[q].run = r
    /\ req[q].kind \in Decisions

Consents(q, r) == Says(q, r) /\ req[q].kind # "reject"

\* The decision a coroutine carries, from the moment hold_gate has it to Gate 2.
CarrierOf(x) ==
    /\ x.pc = "claim" => x.dec = None
    /\ x.pc \in {"register", "park"} /\ x.dec # None => Says(x.dec, x.run)
    /\ x.pc \in {"slot", "decided"} => Says(x.dec, x.run)
    /\ x.pc \in {"rewrite", "dispatch"} => Consents(x.dec, x.run)

\* An unapplied decision on a gate row is the one its request made.
GateSays ==
    \A r \in Runs, g \in Gates :
        gate[r][g].state \notin {"none", "open"} /\ ~gate[r][g].applied
            => Says(gate[r][g].by, r)
DictSays ==
    \A p \in Procs, r \in Runs : mem[p].decided[r] # None => Says(mem[p].decided[r], r)
TaskSays == \A t \in Tasks : CarrierOf(task[t])
SentSays == \A e \in sent : Consents(e.by, e.run)
ReqSays  ==
    \A q \in Reqs : req[q].pc \in {"checked", "recorded", "unrecorded"} => req[q].kind \in Decisions

SaysInv == GateSays /\ DictSays /\ TaskSays /\ SentSays /\ ReqSays

-----------------------------------------------------------------------------
(* What was decided stays decided.                                         *)

Stable == \A q, r : /\ Says(q, r) => Says(q, r)'
                    /\ Consents(q, r) => Consents(q, r)'

LEMMA SameStable == ASSUME req' = req PROVE Stable /\ (ReqSays => ReqSays')
  BY DEF Stable, Says, Consents, ReqSays

LEMMA AskStable ==
    ASSUME ReqInv, ReqSays, NEW q \in Reqs, req[q].pc = "idle",
           NEW pc, NEW kind, NEW r, NEW p, NEW saw, Ask(q, pc, kind, r, p, saw),
           pc = "marked" \/ kind \in Decisions
    PROVE  Stable /\ ReqSays'
<1> DEFINE x == [NoRequest EXCEPT !.pc = pc, !.kind = kind, !.run = r, !.at = p, !.saw = saw]
<1>1. x.pc = pc /\ x.kind = kind /\ req' = [req EXCEPT ![q] = x]
  BY DEF Ask, NoRequest
<1> HIDE DEF x
<1> QED
  BY <1>1 DEF ReqInv, Stable, Says, Consents, ReqSays

LEMMA AnswerStable ==
    ASSUME ReqInv, ReqSays, NEW q \in Reqs, NEW pc, pc # "idle", Answer(q, pc),
           pc \in {"recorded", "unrecorded"} => req[q].pc = "checked",
           pc # "checked"
    PROVE  Stable /\ ReqSays'
<1> DEFINE x == [req[q] EXCEPT !.pc = pc]
<1>1. x.pc = pc /\ x.kind = req[q].kind /\ x.run = req[q].run /\ req' = [req EXCEPT ![q] = x]
  BY DEF Answer, ReqInv, Request
<1> HIDE DEF x
<1> QED
  BY <1>1 DEF ReqInv, Stable, Says, Consents, ReqSays

LEMMA CrashStable ==
    ASSUME ReqInv, ReqSays, NEW p \in Procs, Crash(p)
    PROVE  Stable /\ ReqSays'
<1> DEFINE x(q) == [req[q] EXCEPT !.pc = "lost"]
<1>1. \A q \in Reqs : x(q).pc = "lost" /\ x(q).kind = req[q].kind /\ x(q).run = req[q].run
  BY DEF ReqInv, Request
<1>2. \A q \in Reqs : req'[q] = req[q] \/ req'[q] = x(q)
  BY DEF Crash
<1> HIDE DEF x
<1> QED
  BY <1>1, <1>2 DEF Stable, Says, Consents, ReqSays

-----------------------------------------------------------------------------
(* The places a decision is kept.                                          *)

LEMMA GateKept == ASSUME GateSays, Stable, gate' = gate PROVE GateSays'
  BY DEF GateSays, Stable

\* A row is applied, opened, or closed by a cancel: nothing new is said.
LEMMA GateSilent ==
    ASSUME GateInv, GateSays, Stable, NEW r \in Runs, NEW g \in Gates, NEW y,
           gate' = [gate EXCEPT ![r][g] = y], y.applied \/ y.state = "open"
    PROVE  GateSays'
  BY DEF GateInv, GateSays, Stable

LEMMA DictKept == ASSUME DictSays, Stable, mem' = mem PROVE DictSays'
  BY DEF DictSays, Stable

LEMMA DictMemory ==
    ASSUME MemInv, DictSays, Stable, NEW p \in Procs, NEW m, mem' = [mem EXCEPT ![p] = m],
           \A r \in Runs : m.decided[r] \in {None, mem[p].decided[r]}
    PROVE  DictSays'
  BY DEF MemInv, DictSays, Stable

LEMMA CarrierKept == ASSUME Stable, NEW x, CarrierOf(x) PROVE CarrierOf(x)'
  BY DEF Stable, CarrierOf

LEMMA CarriersKept == ASSUME TaskSays, Stable, task' = task PROVE TaskSays'
  BY CarrierKept DEF TaskSays

LEMMA TaskCarrier ==
    ASSUME TaskInv, TaskSays, Stable, NEW t \in Tasks, NEW x, CarrierOf(x),
           task' = [task EXCEPT ![t] = x]
    PROVE  TaskSays'
<1>1. CarrierOf(x)'
  BY CarrierKept
<1>2. \A u \in Tasks : u # t => CarrierOf(task'[u])
  BY DEF TaskInv, TaskSays
<1>3. ASSUME NEW u \in Tasks, u # t PROVE CarrierOf(task[u])'
  <2>1. PICK y : y = task[u]
    OBVIOUS
  <2>2. CarrierOf(y)'
    BY <2>1, CarrierKept DEF TaskSays
  <2>3. task'[u] = y
    BY <1>3, <2>1 DEF TaskInv
  <2> QED
    BY <2>2, <2>3 DEF CarrierOf
<1>4. CarrierOf(task[t])'
  BY <1>1 DEF TaskInv, CarrierOf
<1> QED
  BY <1>3, <1>4 DEF TaskSays

LEMMA SentKept == ASSUME SentSays, Stable, sent' = sent PROVE SentSays'
  BY DEF SentSays, Stable

LEMMA LeaveSays ==
    ASSUME TaskInv, MemInv, TaskSays, DictSays, Stable, NEW t \in Tasks, task[t].pc # "idle",
           NEW m \in Memory, Leave(t, m), m.decided = Mine(t).decided
    PROVE  TaskSays' /\ DictSays'
<1>1. task[t].at \in Procs
  BY DEF TaskInv, Proper
<1>2. CarrierOf(NoTask)
  BY DEF CarrierOf, NoTask
<1>3. TaskSays'
  BY <1>2, TaskCarrier DEF Leave
<1> DEFINE x == [m EXCEPT !.held = @ \ {task[t].run}]
<1>4. x.decided = mem[task[t].at].decided /\ mem' = [mem EXCEPT ![task[t].at] = x]
  BY DEF Leave, Mine, Memory
<1> HIDE DEF x
<1>5. DictSays'
  BY <1>1, <1>4, DictMemory
<1> QED
  BY <1>3, <1>5

\* A coroutine moves on with what it carries.
LEMMA GotoSays ==
    ASSUME TaskInv, TaskSays, Stable, NEW t \in Tasks, NEW pc, Goto(t, pc),
           \/ pc \notin {"claim", "register", "park", "slot", "decided", "rewrite", "dispatch"}
           \/ pc = "register" /\ task[t].dec = None
           \/ pc = "park" /\ task[t].pc = "register"
           \/ pc = "decided" /\ Says(task[t].dec, task[t].run)
           \/ pc \in {"rewrite", "dispatch"} /\ Consents(task[t].dec, task[t].run)
    PROVE  TaskSays'
<1> DEFINE x == [task[t] EXCEPT !.pc = pc]
<1>1. x.pc = pc /\ x.dec = task[t].dec /\ x.run = task[t].run /\ task' = [task EXCEPT ![t] = x]
  BY DEF Goto, TaskInv, Task
<1> HIDE DEF x
<1>2. CarrierOf(x)
  BY <1>1 DEF TaskSays, CarrierOf
<1> QED
  BY <1>1, <1>2, TaskCarrier

LEMMA MineDecided ==
    ASSUME TaskInv, MemInv, NEW t \in Tasks, task[t].pc # "idle", NEW r
    PROVE  /\ Mine(t).decided = mem[task[t].at].decided
           /\ Forget(Mine(t), r).decided = Mine(t).decided
           /\ Unwait(Mine(t), r).decided = Mine(t).decided
           /\ Unwait(Forget(Mine(t), r), r).decided = Mine(t).decided
  BY DEF TaskInv, Proper, MemInv, Memory, Mine, Forget, Unwait

-----------------------------------------------------------------------------
(* Every step keeps it so.                                                 *)

LEMMA TaskStepSays ==
    ASSUME TypeInv, SaysInv, NEW t \in Tasks, TaskStep(t) \/ WaitTimeout(t)
    PROVE  SaysInv'
<1> USE DEF TypeInv, SaysInv
<1>0. PICK r : r = task[t].run
  OBVIOUS
<1> DEFINE m == Mine(t)
           g == NextGate(t)
<1>1. task[t].pc # "idle" =>
        /\ r \in Runs /\ task[t].at \in Procs /\ m = mem[task[t].at] /\ m \in Memory
        /\ Forget(m, r) \in Memory /\ Unwait(m, r) \in Memory
        /\ Unwait(Forget(m, r), r) \in Memory
  BY SMTT(40), <1>0, MineTyped DEF Mine
<1>2. req' = req
  BY DEF TaskStep, WaitTimeout, Begin, Admit, ExecPack, ExecPrompt, Finish, HoldClaim, HoldRegister,
         HoldPark, HoldOpen, WaitClaim, WaitLocal, WaitSlot, Decided, RewritePending,
         DispatchGate2, CompleteGate, ResumeRun
<1>3. Stable /\ ReqSays'
  BY <1>2, SameStable
<1>4. ASSUME task[t].pc # "idle",
             \/ Leave(t, m) \/ Leave(t, Forget(m, r)) \/ Leave(t, Unwait(m, r))
             \/ Leave(t, Unwait(Forget(m, r), r))
      PROVE  TaskSays' /\ DictSays'
  BY <1>1, <1>3, <1>4, LeaveSays, MineDecided
<1>5. ASSUME NEW pc, pc \notin {"claim", "register", "park", "slot", "decided", "rewrite", "dispatch"},
             Goto(t, pc)
      PROVE  TaskSays'
  BY <1>3, <1>5, GotoSays
<1>6. ASSUME NEW x, task' = [task EXCEPT ![t] = x], CarrierOf(x) PROVE TaskSays'
  BY <1>3, <1>6, TaskCarrier
<1>7. ASSUME gate' = gate PROVE GateSays'
  BY <1>3, <1>7, GateKept
<1>8. ASSUME mem' = mem PROVE DictSays'
  BY <1>3, <1>8, DictKept
<1>9. ASSUME sent' = sent PROVE SentSays'
  BY <1>3, <1>9, SentKept
<1>10. CASE Begin(t) \/ Admit(t)
  BY <1>0, <1>3, <1>4, <1>5, <1>7, <1>8, <1>9, <1>10 DEF Begin, Admit, histVars
<1>11. CASE Finish(t) \/ WaitTimeout(t)
  BY SMTT(40), <1>0, <1>3, <1>4, <1>7, <1>9, <1>11 DEF Finish, WaitTimeout, histVars
<1>12. CASE ExecPack(t) \/ ExecPrompt(t)
  <2>1. task[t].pc # "idle" /\ gate' = gate /\ sent' = sent
    BY <1>12 DEF ExecPack, ExecPrompt, histVars
  <2>2. ASSUME NEW pc \in {"claim", "register"}, NEW d, NEW b, task' = [task EXCEPT ![t] =
                 [@ EXCEPT !.pc = pc, !.done = d, !.bytes = b, !.dec = None]]
        PROVE  TaskSays'
    <3> DEFINE x == [task[t] EXCEPT !.pc = pc, !.done = d, !.bytes = b, !.dec = None]
    <3>1. x.pc = pc /\ x.dec = None
      BY DEF TaskInv, Task
    <3>2. CarrierOf(x)
      <4> HIDE DEF x
      <4> QED
        BY <3>1 DEF CarrierOf
    <3> QED
      BY <1>6, <2>2, <3>2
  <2>3. ASSUME NEW d, task' = [task EXCEPT ![t] = [@ EXCEPT !.pc = "finish", !.done = d]]
        PROVE  TaskSays'
    <3> DEFINE x == [task[t] EXCEPT !.pc = "finish", !.done = d]
    <3>1. x.pc = "finish"
      BY DEF TaskInv, Task
    <3>2. CarrierOf(x)
      <4> HIDE DEF x
      <4> QED
        BY <3>1 DEF CarrierOf
    <3> QED
      BY <1>6, <2>3, <3>2
  <2>4. CASE UNCHANGED mem
    BY <1>0, <1>3, <1>4, <1>7, <1>8, <1>9, <1>12, <2>1, <2>2, <2>3, <2>4 DEF ExecPack, ExecPrompt
  <2>5. CASE Leave(t, m) \/ Leave(t, Forget(m, r))
    BY <1>3, <1>4, <1>7, <1>9, <2>1, <2>5
  <2> QED
    BY ZenonT(60), <1>0, <1>12, <2>4, <2>5 DEF ExecPack, ExecPrompt
<1>13. CASE HoldClaim(t)
  <2>1. task[t].pc = "claim" /\ g \in Gates /\ gate[r][g] \in GateRow /\ task[t].dec = None
    BY <1>0, <1>1, <1>13 DEF HoldClaim, TaskInv, Proper, HoldingPCs, NextGate, GateInv, TaskSays,
                             CarrierOf
  <2>2. CASE /\ CanClaim(t)
             /\ gate' = [gate EXCEPT ![r][g].applied = TRUE]
             /\ task' = [task EXCEPT ![t] = [@ EXCEPT !.pc = "register", !.dec = gate[r][g].by]]
    <3>1. GateSays'
      <4> DEFINE y == [gate[r][g] EXCEPT !.applied = TRUE]
      <4>1. y.applied /\ gate' = [gate EXCEPT ![r][g] = y]
        BY <1>0, <2>1, <2>2 DEF GateRow
      <4> QED
        BY <1>1, <1>3, <2>1, <4>1, GateSilent
    <3>2. Says(gate[r][g].by, r)
      BY <1>0, <1>1, <2>1, <2>2 DEF CanClaim, GateSays
    <3>3. TaskSays'
      <4> DEFINE x == [task[t] EXCEPT !.pc = "register", !.dec = gate[r][g].by]
      <4>1. /\ x.pc = "register" /\ x.dec = gate[r][g].by /\ x.run = r
            /\ task' = [task EXCEPT ![t] = x]
        BY <1>0, <2>2 DEF TaskInv, Task
      <4> HIDE DEF x
      <4> QED
        BY <1>6, <3>2, <4>1 DEF CarrierOf
    <3> QED
      BY <1>3, <1>8, <1>9, <1>13, <3>1, <3>3 DEF HoldClaim, histVars
  <2>3. CASE Goto(t, "register") /\ UNCHANGED gate
    <3>1. TaskSays'
      BY <1>3, <2>1, <2>3, GotoSays
    <3> QED
      BY <1>3, <1>7, <1>8, <1>9, <1>13, <2>3, <3>1 DEF HoldClaim, histVars
  <2> QED
    BY <1>0, <1>13, <2>2, <2>3 DEF HoldClaim
<1>14. CASE HoldRegister(t)
  <2>1. CASE Leave(t, Unwait(Forget(m, r), r))
    BY <1>3, <1>4, <1>7, <1>9, <1>14, <2>1 DEF HoldRegister, histVars
  <2>2. CASE mem' = [mem EXCEPT ![task[t].at].waiting = @ \cup {r}] /\ Goto(t, "park")
    <3> DEFINE n == [m EXCEPT !.waiting = @ \cup {r}]
    <3>1. n.decided = m.decided /\ mem' = [mem EXCEPT ![task[t].at] = n]
      BY <1>1, <1>14, <2>2 DEF HoldRegister, Memory, Mine
    <3> HIDE DEF n
    <3>2. DictSays'
      <4>1. MemInv /\ DictSays /\ Stable /\ task[t].at \in Procs
        BY <1>1, <1>3, <1>14 DEF HoldRegister
      <4>2. \A s \in Runs : n.decided[s] \in {None, mem[task[t].at].decided[s]}
        BY <1>1, <3>1 DEF Mine
      <4> QED
        BY <3>1, <4>1, <4>2, DictMemory
    <3>3. TaskSays'
      BY <1>3, <1>14, <2>2, GotoSays DEF HoldRegister
    <3> QED
      BY <1>3, <1>7, <1>9, <1>14, <3>2, <3>3 DEF HoldRegister, histVars
  <2> QED
    BY <1>0, <1>14, <2>1, <2>2 DEF HoldRegister
<1>15. CASE HoldPark(t) \/ WaitSlot(t)
  <2>1. task[t].pc \in {"park", "slot"} /\ gate' = gate /\ sent' = sent
    BY <1>15 DEF HoldPark, WaitSlot, histVars
  <2>2. ASSUME mem' = [mem EXCEPT ![task[t].at] = Unwait(@, r)] PROVE DictSays'
    <3>1. mem' = [mem EXCEPT ![task[t].at] = Unwait(m, r)] /\ Unwait(m, r).decided = m.decided
      BY <2>1, <2>2, MineDecided DEF Mine
    <3> QED
      BY <1>1, <1>3, <2>1, <3>1, DictMemory
  <2>3. ASSUME Goto(t, "decided"), task[t].pc = "slot" \/ task[t].dec # None PROVE TaskSays'
    <3>1. Says(task[t].dec, task[t].run)
      BY <2>1, <2>3 DEF TaskSays, CarrierOf
    <3> QED
      BY <1>3, <2>3, <3>1, GotoSays
  <2> QED
    BY <1>0, <1>3, <1>4, <1>5, <1>7, <1>8, <1>9, <1>15, <2>1, <2>2, <2>3 DEF HoldPark, WaitSlot
<1>16. CASE HoldOpen(t)
  <2>1. g \in Gates /\ r \in Runs
    BY <1>0, <1>1, <1>16 DEF HoldOpen, TaskInv, Proper, HoldingPCs, NextGate
  <2>2. GateSays'
    <3> DEFINE y == [NoGateRow EXCEPT !.state = "open", !.sha = task[t].bytes]
    <3>1. y.state = "open" /\ (gate' = gate \/ gate' = [gate EXCEPT ![r][g] = y])
      BY <1>0, <1>16 DEF HoldOpen, NoGateRow
    <3> HIDE DEF y
    <3> QED
      BY <1>3, <1>7, <2>1, <3>1, GateSilent
  <2> QED
    BY <1>3, <1>5, <1>8, <1>9, <1>16, <2>2 DEF HoldOpen
<1>17. ASSUME NEW q, NEW n, Decide(t, q, n), n = [m EXCEPT !.decided[r] = None], Says(q, r),
              task[t].pc # "idle"
       PROVE  TaskSays' /\ DictSays'
  <2>1. /\ n.decided = [m.decided EXCEPT ![r] = None]
        /\ Unwait(n, r).decided = [m.decided EXCEPT ![r] = None]
    BY <1>1, <1>17 DEF Unwait, Memory
  <2>2. \A s \in Runs : [m.decided EXCEPT ![r] = None][s] \in {None, m.decided[s]}
    BY <1>1, <1>17 DEF Memory
  <2>3. DictSays'
    <3> DEFINE z == IF req[q].kind = "reject" THEN Unwait(n, r) ELSE n
    <3>1. z.decided = [m.decided EXCEPT ![r] = None] /\ mem' = [mem EXCEPT ![task[t].at] = z]
      BY <1>0, <1>17, <2>1 DEF Decide
    <3> HIDE DEF z
    <3>2. \A s \in Runs : z.decided[s] \in {None, mem[task[t].at].decided[s]}
      BY <1>1, <1>17, <2>2, <3>1
    <3> QED
      BY <1>1, <1>3, <1>17, <3>1, <3>2, DictMemory
  <2> DEFINE pc == IF req[q].kind = "reject" THEN "decided" ELSE "slot"
             x == [task[t] EXCEPT !.pc = pc, !.dec = q]
  <2>4. /\ x.pc = pc /\ x.dec = q /\ x.run = r /\ pc \in {"slot", "decided"}
        /\ task' = [task EXCEPT ![t] = x]
    BY <1>0, <1>17 DEF Decide, TaskInv, Task
  <2> HIDE DEF x, pc
  <2>5. CarrierOf(x)
    BY <1>17, <2>4 DEF CarrierOf
  <2> QED
    BY <1>6, <2>3, <2>4, <2>5
<1>18. CASE WaitClaim(t)
  <2>1. task[t].pc = "poll" /\ g \in Gates /\ gate[r][g] \in GateRow
    BY <1>0, <1>1, <1>18 DEF WaitClaim, IsPack, TaskInv, Proper, HoldingPCs, NextGate, GateInv
  <2>2. CASE /\ CanClaim(t)
             /\ gate' = [gate EXCEPT ![r][g].applied = TRUE]
             /\ Decide(t, gate[r][g].by, [m EXCEPT !.decided[r] = None])
    <3>1. GateSays'
      <4> DEFINE y == [gate[r][g] EXCEPT !.applied = TRUE]
      <4>1. y.applied /\ gate' = [gate EXCEPT ![r][g] = y]
        BY <1>0, <2>1, <2>2 DEF GateRow
      <4> QED
        BY <1>1, <1>3, <2>1, <4>1, GateSilent
    <3>2. Says(gate[r][g].by, r)
      BY <1>0, <1>1, <2>1, <2>2 DEF CanClaim, GateSays
    <3>3. TaskSays' /\ DictSays'
      BY <1>0, <1>17, <2>1, <2>2, <3>2
    <3> QED
      BY <1>3, <1>9, <1>18, <3>1, <3>3 DEF WaitClaim, histVars
  <2>3. CASE Goto(t, "local") /\ UNCHANGED <<gate, mem>>
    BY <1>3, <1>5, <1>7, <1>8, <1>9, <1>18, <2>3 DEF WaitClaim, histVars
  <2> QED
    BY <1>0, <1>18, <2>2, <2>3 DEF WaitClaim
<1>19. CASE WaitLocal(t)
  <2> DEFINE q == m.decided[r]
  <2>1. task[t].pc # "idle" /\ gate' = gate /\ sent' = sent
    BY <1>19 DEF WaitLocal, histVars
  <2>2. CASE q # None /\ Decide(t, q, [m EXCEPT !.decided[r] = None])
    <3>1. Says(q, r)
      BY <1>1, <2>1, <2>2 DEF DictSays
    <3>2. TaskSays' /\ DictSays'
      BY <1>17, <2>1, <2>2, <3>1
    <3> QED
      BY <1>3, <1>7, <1>9, <2>1, <3>2
  <2>3. CASE Leave(t, Unwait(m, r))
    BY <1>3, <1>4, <1>7, <1>9, <2>1, <2>3
  <2>4. CASE Goto(t, "poll") /\ UNCHANGED mem
    BY <1>3, <1>5, <1>7, <1>8, <1>9, <2>1, <2>4
  <2> QED
    BY <1>0, <1>19, <2>2, <2>3, <2>4 DEF WaitLocal
<1>20. CASE Decided(t)
  <2>1. task[t].pc = "decided" /\ Says(task[t].dec, task[t].run)
    BY <1>20 DEF Decided, TaskSays, CarrierOf
  <2>2. ASSUME req[task[t].dec].kind # "reject",
               Goto(t, "rewrite") \/ Goto(t, "dispatch") \/ Goto(t, "resume")
        PROVE  TaskSays'
    BY <1>3, <2>1, <2>2, GotoSays DEF Consents
  <2> QED
    BY <1>3, <1>4, <1>7, <1>8, <1>9, <1>20, <2>1, <2>2 DEF Decided, histVars
<1>21. CASE RewritePending(t)
  <2>1. task[t].pc = "rewrite" /\ Consents(task[t].dec, task[t].run)
    BY <1>21 DEF RewritePending, TaskSays, CarrierOf
  <2>2. TaskSays'
    BY <1>3, <1>21, <2>1, GotoSays DEF RewritePending
  <2> QED
    BY <1>3, <1>7, <1>8, <1>9, <1>21, <2>2 DEF RewritePending, histVars
<1>22. CASE DispatchGate2(t)
  <2>1. task[t].pc = "dispatch" /\ Consents(task[t].dec, r)
    BY <1>0, <1>22 DEF DispatchGate2, TaskSays, CarrierOf
  <2>2. CASE Leave(t, m) /\ UNCHANGED sent
    BY <1>3, <1>4, <1>7, <1>9, <1>22, <2>1, <2>2 DEF DispatchGate2
  <2>3. CASE /\ sent' = sent \cup {[run |-> r, gate |-> g, bytes |-> task[t].bytes,
                                    by |-> task[t].dec]}
             /\ Goto(t, "flip") /\ UNCHANGED mem
    <3>1. SentSays'
      BY <1>3, <2>1, <2>3 DEF SentSays, Stable
    <3> QED
      BY <1>3, <1>5, <1>7, <1>8, <1>22, <2>3, <3>1 DEF DispatchGate2
  <2> QED
    BY <1>0, <1>22, <2>2, <2>3 DEF DispatchGate2
<1>23. CASE CompleteGate(t) \/ ResumeRun(t)
  <2>1. ASSUME NEW pc \in {"resume", "exec"}, NEW d,
               task' = [task EXCEPT ![t] = [@ EXCEPT !.pc = pc, !.done = d]]
        PROVE  TaskSays'
    <3> DEFINE x == [task[t] EXCEPT !.pc = pc, !.done = d]
    <3>1. x.pc = pc /\ task' = [task EXCEPT ![t] = x]
      BY <2>1 DEF TaskInv, Task
    <3> HIDE DEF x
    <3> QED
      BY <1>6, <3>1 DEF CarrierOf
  <2> QED
    BY <1>3, <1>7, <1>8, <1>9, <1>23, <2>1 DEF CompleteGate, ResumeRun, histVars
<1> QED
  BY <1>10, <1>11, <1>12, <1>13, <1>14, <1>15, <1>16, <1>18, <1>19, <1>20, <1>21, <1>22, <1>23
     DEF TaskStep

LEMMA RequestSays ==
    ASSUME TypeInv, SaysInv, NEW q \in Reqs, RequestStep(q)
    PROVE  SaysInv'
<1> USE DEF TypeInv, SaysInv
<1>1. ASSUME NEW p \in Procs, NEW r \in Runs, DecideCheck(q, p, r) PROVE SaysInv'
  <2>1. Stable /\ ReqSays'
    BY <1>1, AskStable DEF DecideCheck
  <2> QED
    BY <1>1, <2>1, GateKept, DictKept, CarriersKept, SentKept DEF DecideCheck, histVars
<1>2. ASSUME NEW p \in Procs, NEW r \in Runs, CancelMark(q, p, r) PROVE SaysInv'
  <2>1. Stable /\ ReqSays'
    BY <1>2, AskStable DEF CancelMark
  <2> DEFINE m == [mem[p] EXCEPT !.cancelled = @ \cup {r}]
  <2>2. m.decided = mem[p].decided /\ mem' = [mem EXCEPT ![p] = m]
    BY <1>2 DEF CancelMark, MemInv, Memory
  <2> HIDE DEF m
  <2>3. DictSays'
    BY <2>1, <2>2, DictMemory
  <2> QED
    BY <1>2, <2>1, <2>3, GateKept, CarriersKept, SentKept DEF CancelMark, histVars
<1>3. CASE RecordDecision(q)
  <2>0. PICK r \in Runs : r = req[q].run
    BY <1>3 DEF RecordDecision, ReqInv, Addressed
  <2>1. Stable /\ ReqSays'
    BY <1>3, AnswerStable DEF RecordDecision
  <2>2. Says(q, r)'
    BY <1>3, <2>0, <2>1 DEF RecordDecision, ReqSays, Stable, Says
  <2>3. GateSays'
    <3> DEFINE y(g) == [gate[r][g] EXCEPT !.state = DecisionState(req[q].kind), !.by = q]
    <3>1. ASSUME NEW g \in Gates PROVE y(g).by = q
      <4>1. PICK z \in GateRow : z = gate[r][g]
        BY DEF GateInv
      <4> QED
        BY <4>1 DEF GateRow
    <3>2. gate' = [gate EXCEPT ![r] = [g \in Gates |->
                      IF gate[r][g].state = "open" THEN y(g) ELSE gate[r][g]]]
      BY <1>3, <2>0 DEF RecordDecision
    <3> HIDE DEF y
    <3> QED
      BY <2>1, <2>2, <3>1, <3>2 DEF GateInv, GateSays, Stable
  <2> QED
    BY <1>3, <2>1, <2>3, DictKept, CarriersKept, SentKept DEF RecordDecision, histVars
<1>4. CASE ResolveWaiter(q)
  <2>0. PICK r \in Runs, at \in Procs : r = req[q].run /\ at = req[q].at
    BY <1>4 DEF ResolveWaiter, ReqInv, Addressed
  <2>1. Stable /\ ReqSays'
    BY <1>4, AnswerStable DEF ResolveWaiter
  <2>2. Says(q, r)'
    BY <1>4, <2>0, <2>1 DEF ResolveWaiter, ReqSays, Stable, Says
  <2>3. DictSays'
    <3>1. PICK m \in Memory : m = mem[at]
      BY DEF MemInv
    <3> DEFINE d == [m.decided EXCEPT ![r] = q]
               x == [m EXCEPT !.decided[r] = q]
    <3>2. x.decided = d /\ (mem' = mem \/ mem' = [mem EXCEPT ![at] = x])
      BY <1>4, <2>0, <3>1 DEF ResolveWaiter, Memory
    <3> HIDE DEF x
    <3>3. \A s \in Runs : s # r => d[s] = mem[at].decided[s]
      BY <3>1 DEF Memory
    <3>4. d[r] = q
      BY DEF Memory
    <3>5. ASSUME mem' = [mem EXCEPT ![at] = x] PROVE DictSays'
      <4> HIDE DEF d
      <4> QED
        BY <2>1, <2>2, <3>2, <3>3, <3>4, <3>5 DEF MemInv, DictSays, Stable
    <3> QED
      BY <2>1, <3>2, <3>5, DictKept
  <2> QED
    BY <1>4, <2>1, <2>3, GateKept, CarriersKept, SentKept DEF ResolveWaiter, histVars
<1>5. CASE CancelWrite(q)
  <2>0. PICK r \in Runs : r = req[q].run
    BY <1>5 DEF CancelWrite, ReqInv, Addressed
  <2>1. Stable /\ ReqSays'
    BY <1>5, AnswerStable DEF CancelWrite
  <2>2. GateSays'
    <3> DEFINE y(g) == [gate[r][g] EXCEPT !.state = "rejected", !.applied = TRUE]
    <3>1. ASSUME NEW g \in Gates PROVE y(g).applied
      <4>1. PICK z \in GateRow : z = gate[r][g]
        BY DEF GateInv
      <4> QED
        BY <4>1 DEF GateRow
    <3>2. \/ gate' = gate
          \/ gate' = [gate EXCEPT ![r] = [g \in Gates |->
                         IF gate[r][g].state = "open" THEN y(g) ELSE gate[r][g]]]
      BY <1>5, <2>0 DEF CancelWrite
    <3> HIDE DEF y
    <3> QED
      BY <2>1, <3>1, <3>2 DEF GateInv, GateSays, Stable
  <2> QED
    BY <1>5, <2>1, <2>2, DictKept, CarriersKept, SentKept DEF CancelWrite, histVars
<1>6. CASE CancelFails(q)
  <2>1. Stable /\ ReqSays'
    BY <1>6, AnswerStable DEF CancelFails
  <2> QED
    BY <1>6, <2>1, GateKept, DictKept, CarriersKept, SentKept DEF CancelFails, histVars
<1> QED
  BY <1>1, <1>2, <1>3, <1>4, <1>5, <1>6 DEF RequestStep

LEMMA SpawnSays ==
    ASSUME TaskInv, TaskSays, Stable, NEW t \in Tasks, NEW p, NEW r, Spawn(t, p, r)
    PROVE  TaskSays'
<1> DEFINE x == [NoTask EXCEPT !.pc = "begin", !.run = r, !.at = p]
<1>1. x.pc = "begin" /\ task' = [task EXCEPT ![t] = x]
  BY DEF Spawn, NoTask
<1> HIDE DEF x
<1> QED
  BY <1>1, TaskCarrier DEF CarrierOf

LEMMA ProcSays ==
    ASSUME TypeInv, SaysInv, NEW p \in Procs, ProcStep(p) \/ Boot(p) \/ Heartbeat(p)
    PROVE  SaysInv'
<1> USE DEF TypeInv, SaysInv
<1>1. Stable /\ ReqSays' /\ gate' = gate /\ sent' = sent
  BY SameStable DEF ProcStep, ClaimNext, DispatchClaimed, ReconcileRun, Boot, Heartbeat, histVars
<1>2. ASSUME NEW m, mem' = [mem EXCEPT ![p] = m], m.decided = mem[p].decided PROVE DictSays'
  BY <1>1, <1>2, DictMemory
<1>3. PICK w \in Memory : w = mem[p]
  BY DEF MemInv
<1>4. TaskSays'
  <2>1. task' = task \/ \E t \in Tasks, r \in Runs : Spawn(t, p, r)
    BY DEF ProcStep, ClaimNext, DispatchClaimed, ReconcileRun, Boot, Heartbeat, MemInv, Memory,
           Claims
  <2> QED
    BY <1>1, <2>1, CarriersKept, SpawnSays
<1>5. DictSays'
  <2>1. ASSUME NEW c, mem' = [mem EXCEPT ![p].hand = c] PROVE DictSays'
    <3> DEFINE m == [w EXCEPT !.hand = c]
    <3>1. m.decided = mem[p].decided /\ mem' = [mem EXCEPT ![p] = m]
      BY <1>3, <2>1 DEF Memory
    <3> HIDE DEF m
    <3> QED
      BY <1>2, <3>1
  <2>2. ASSUME NEW c, mem' = [mem EXCEPT ![p].recon = c] PROVE DictSays'
    <3> DEFINE m == [w EXCEPT !.recon = c]
    <3>1. m.decided = mem[p].decided /\ mem' = [mem EXCEPT ![p] = m]
      BY <1>3, <2>2 DEF Memory
    <3> HIDE DEF m
    <3> QED
      BY <1>2, <3>1
  <2>3. ASSUME NEW c, mem' = [mem EXCEPT ![p].cancelled = c] PROVE DictSays'
    <3> DEFINE m == [w EXCEPT !.cancelled = c]
    <3>1. m.decided = mem[p].decided /\ mem' = [mem EXCEPT ![p] = m]
      BY <1>3, <2>3 DEF Memory
    <3> HIDE DEF m
    <3> QED
      BY <1>2, <3>1
  <2>4. ASSUME NEW c, mem' = [mem EXCEPT ![p].hand = None, ![p].held = @ \cup {c}]
        PROVE  DictSays'
    <3> DEFINE m == [w EXCEPT !.hand = None, !.held = w.held \cup {c}]
    <3>1. m.decided = mem[p].decided
      BY <1>3 DEF Memory
    <3>2. mem' = [mem EXCEPT ![p] = m]
      BY <1>3, <2>4 DEF MemInv, Memory
    <3> HIDE DEF m
    <3> QED
      BY <1>2, <3>1, <3>2
  <2>5. ASSUME NEW c, mem' = [mem EXCEPT ![p].recon = @ \ {c}, ![p].held = @ \cup {c}]
        PROVE  DictSays'
    <3> DEFINE m == [w EXCEPT !.recon = w.recon \ {c}, !.held = w.held \cup {c}]
    <3>1. m.decided = mem[p].decided
      BY <1>3 DEF Memory
    <3>2. mem' = [mem EXCEPT ![p] = m]
      BY <1>3, <2>5 DEF MemInv, Memory
    <3> HIDE DEF m
    <3> QED
      BY <1>2, <3>1, <3>2
  <2>6. CASE ClaimNext(p)
    BY <2>1, <2>6 DEF ClaimNext
  <2>7. CASE DispatchClaimed(p)
    BY <2>1, <2>4, <2>7 DEF DispatchClaimed
  <2>8. ASSUME NEW r \in Runs, ReconcileRun(p, r) PROVE DictSays'
    BY <2>2, <2>5, <2>8 DEF ReconcileRun
  <2>9. CASE Boot(p)
    BY <2>2, <2>9 DEF Boot
  <2>10. CASE Heartbeat(p)
    BY <2>3, <2>10 DEF Heartbeat
  <2> QED
    BY <2>6, <2>7, <2>8, <2>9, <2>10 DEF ProcStep
<1> QED
  BY <1>1, <1>4, <1>5, GateKept, SentKept

LEMMA CrashSays ==
    ASSUME TypeInv, SaysInv, NEW p \in Procs, Crash(p)
    PROVE  SaysInv'
<1> USE DEF TypeInv, SaysInv
<1>1. Stable /\ ReqSays'
  BY CrashStable
<1>2. DictSays'
  <2>1. \A r \in Runs : Blank.decided[r] \in {None, mem[p].decided[r]}
    BY DEF Blank
  <2>2. mem' = [mem EXCEPT ![p] = Blank]
    BY DEF Crash
  <2> QED
    BY <1>1, <2>1, <2>2, DictMemory
<1>3. TaskSays'
  <2>1. CarrierOf(NoTask)
    BY DEF CarrierOf, NoTask
  <2>2. ASSUME NEW t \in Tasks PROVE CarrierOf(task[t])'
    <3>1. PICK y : y = task'[t]
      OBVIOUS
    <3>2. CarrierOf(y)
      BY <2>1, <3>1 DEF Crash, TaskSays
    <3>3. CarrierOf(y)'
      BY <1>1, <3>2, CarrierKept
    <3> QED
      BY <3>1, <3>3 DEF CarrierOf
  <2> QED
    BY <2>2 DEF TaskSays
<1> QED
  BY <1>1, <1>2, <1>3, GateKept, SentKept DEF Crash, histVars

LEMMA InitSays == Init => SaysInv
<1> SUFFICES ASSUME Init PROVE SaysInv
  OBVIOUS
<1>1. GateSays
  BY DEF Init, NoGateRow, GateSays
<1>2. DictSays
  BY DEF Init, Blank, DictSays
<1>3. TaskSays
  BY DEF Init, NoTask, TaskSays, CarrierOf
<1>4. SentSays /\ ReqSays
  BY DEF Init, NoRequest, SentSays, ReqSays
<1> QED
  BY <1>1, <1>2, <1>3, <1>4 DEF SaysInv

LEMMA NextSays == TypeInv /\ SaysInv /\ [Next]_vars => SaysInv'
<1> SUFFICES ASSUME TypeInv, SaysInv, [Next]_vars PROVE SaysInv'
  OBVIOUS
<1>1. ASSUME NEW r \in Runs, LeaseExpires(r) PROVE SaysInv'
  BY <1>1, SameStable, GateKept, DictKept, CarriersKept, SentKept DEF SaysInv, LeaseExpires, histVars
<1>2. CASE Environment
  BY <1>1, <1>2, ProcSays, CrashSays, TaskStepSays DEF Environment
<1>3. CASE UNCHANGED vars
  BY <1>3, SameStable, GateKept, DictKept, CarriersKept, SentKept DEF SaysInv, vars, histVars
<1> QED
  BY <1>2, <1>3, TaskStepSays, ProcSays, RequestSays DEF Next, Rest

\* However processes crash, stall, double up and pass gates on, Gate 2 acts only on an
\* approval or an edit that an operator made of that run: hold_gate hands out nothing but
\* decisions that record_decision put where it looks.
THEOREM DecidedBeforeSent == Spec => []EffectDecided
<1>1. Spec => []TypeInv
  BY InitTyped, NextTyped, PTL DEF Spec
<1>2. Spec => []SaysInv
  BY <1>1, InitSays, NextSays, PTL DEF Spec
<1>3. SaysInv => EffectDecided
  BY DEF SaysInv, SentSays, Consents, Says, Decisions, EffectDecided
<1> QED
  BY <1>2, <1>3, PTL

-----------------------------------------------------------------------------
(* The gates a manifest calls complete were acted on, in the file and in   *)
(* the copy of every executor.                                             *)

Passed(acts, r, d) == \A g \in Gates : g <= d => \E e \in acts : e.run = r /\ e.gate = g

TaskPassed(acts, x) ==
    /\ x.run \in PackRuns /\ x.done # None => Passed(acts, x.run, x.done)
    /\ x.pc = "flip" => Passed(acts, x.run, x.done + 1)
    /\ x.pc = "finish" /\ x.run \in PackRuns => x.done >= NGates

PassedInv ==
    /\ \A r \in PackRuns : Passed(sent, r, manifest[r])
    /\ \A t \in Tasks : TaskPassed(sent, task[t])

\* What a request asked, until it is made and while a cancel is under way.
AskInv ==
    \A q \in Reqs :
        /\ req[q].pc = "idle" => req[q].run = None /\ req[q].kind = "none"
        /\ req[q].pc = "marked" => req[q].kind = "cancel"

RInv == TypeInv /\ SaysInv /\ PassedInv /\ AskInv

-----------------------------------------------------------------------------
LEMMA PassedGrows ==
    ASSUME sent \subseteq sent', NEW r, NEW d, Passed(sent, r, d)
    PROVE  Passed(sent', r, d)
  BY DEF Passed

LEMMA TaskPassedGrows ==
    ASSUME sent \subseteq sent', NEW x, TaskPassed(sent, x)
    PROVE  TaskPassed(sent', x)
  BY PassedGrows DEF TaskPassed

\* One coroutine changes its record, the others keep theirs.
LEMMA OneTask ==
    ASSUME TaskInv, PassedInv, sent \subseteq sent', NEW t \in Tasks, NEW x,
           task' = [task EXCEPT ![t] = x], TaskPassed(sent', x)
    PROVE  \A u \in Tasks : TaskPassed(sent', task'[u])
<1>1. ASSUME NEW u \in Tasks, u # t PROVE TaskPassed(sent', task'[u])
  <2>1. PICK y : y = task[u]
    OBVIOUS
  <2>2. TaskPassed(sent', y)
    BY <2>1, TaskPassedGrows DEF PassedInv
  <2>3. task'[u] = y
    BY <1>1, <2>1 DEF TaskInv
  <2> QED BY <2>2, <2>3 DEF TaskPassed, Passed
<1>2. TaskPassed(sent', task'[t])
  <2>1. task'[t] = x
    BY DEF TaskInv
  <2> QED BY <2>1 DEF TaskPassed, Passed
<1> QED BY <1>1, <1>2

\* Most steps keep the run and the manifest of their coroutine, or end it.
SamePlace(t, x) ==
    \/ x = NoTask
    \/ /\ x.run = task[t].run /\ x.done = task[t].done /\ x.pc \notin {"flip", "finish"}

LEMMA SamePlacePassed ==
    ASSUME TaskInv, PassedInv, sent \subseteq sent', manifest' = manifest,
           NEW t \in Tasks, NEW x, SamePlace(t, x), task' = [task EXCEPT ![t] = x]
    PROVE  PassedInv'
<1>1. TaskPassed(sent, x)
  BY ParamsAssumption DEF SamePlace, TaskPassed, PassedInv, NoTask
<1>2. TaskPassed(sent', x)
  BY <1>1, TaskPassedGrows
<1>3. \A u \in Tasks : TaskPassed(sent', task'[u])
  BY <1>2, OneTask
<1>4. \A r \in PackRuns : Passed(sent', r, manifest'[r])
  BY DEF PassedInv, Passed
<1> QED BY <1>3, <1>4 DEF PassedInv

LEMMA SameTasksPassed ==
    ASSUME PassedInv, sent' = sent, manifest' = manifest, task' = task
    PROVE  PassedInv'
  BY DEF PassedInv, TaskPassed, Passed

LEMMA LeavePassed ==
    ASSUME TaskInv, PassedInv, sent \subseteq sent', manifest' = manifest,
           NEW t \in Tasks, NEW m, Leave(t, m)
    PROVE  PassedInv'
  BY SamePlacePassed DEF Leave, SamePlace

LEMMA GotoPassed ==
    ASSUME TaskInv, PassedInv, sent \subseteq sent', manifest' = manifest,
           NEW t \in Tasks, NEW pc, Goto(t, pc), pc \notin {"flip", "finish"}
    PROVE  PassedInv'
<1> DEFINE x == [task[t] EXCEPT !.pc = pc]
<1>1. task' = [task EXCEPT ![t] = x] /\ SamePlace(t, x)
  BY DEF Goto, TaskInv, Task, SamePlace
<1> HIDE DEF x
<1> QED BY <1>1, SamePlacePassed

LEMMA TaskStepPassed ==
    ASSUME TypeInv, PassedInv, NEW t \in Tasks, TaskStep(t) \/ WaitTimeout(t)
    PROVE  PassedInv'
<1> USE DEF TypeInv
<1>1. CASE Begin(t) \/ Admit(t) \/ Finish(t) \/ HoldRegister(t) \/ HoldPark(t) \/ HoldOpen(t)
           \/ WaitSlot(t) \/ WaitTimeout(t) \/ Decided(t) \/ RewritePending(t)
  BY <1>1, GotoPassed, LeavePassed
     DEF Begin, Admit, Finish, HoldRegister, HoldPark, HoldOpen, WaitSlot, WaitTimeout, Decided,
         RewritePending, histVars
<1>2. task[t] \in Task
  BY DEF TaskInv
<1>3. CASE ExecPack(t)
  <2> DEFINE r == task[t].run
             d == IF task[t].done = None THEN manifest[r] ELSE task[t].done
  <2>1. r \in PackRuns /\ r \in Runs /\ d \in Nat /\ sent' = sent
        /\ manifest' = [manifest EXCEPT ![r] = d]
    BY <1>2, <1>3, ParamsAssumption DEF ExecPack, IsPack, RestInv, TaskInv, Task, histVars
  <2>2. Passed(sent, r, d)
    BY <2>1 DEF PassedInv, TaskPassed
  <2>3. PICK x : task' = [task EXCEPT ![t] = x] /\ TaskPassed(sent, x)
    <3>1. CASE \E m : Leave(t, m)
      <4>1. TaskPassed(sent, NoTask)
        BY ParamsAssumption DEF TaskPassed, NoTask
      <4> QED BY <3>1, <4>1 DEF Leave
    <3>2. ASSUME NEW b \in Drafts, task' = [task EXCEPT ![t] =
                      [task[t] EXCEPT !.pc = "claim", !.done = d, !.bytes = b, !.dec = None]]
          PROVE  \E x : task' = [task EXCEPT ![t] = x] /\ TaskPassed(sent, x)
      <4> DEFINE x == [task[t] EXCEPT !.pc = "claim", !.done = d, !.bytes = b, !.dec = None]
      <4>1. x.pc = "claim" /\ x.run = r /\ x.done = d
        BY <1>2 DEF Task
      <4>2. task' = [task EXCEPT ![t] = x]
        BY <3>2
      <4> HIDE DEF x, d
      <4> QED BY <2>2, <4>1, <4>2 DEF TaskPassed
    <3>3. ASSUME ~(d < NGates), task' = [task EXCEPT ![t] =
                      [task[t] EXCEPT !.pc = "finish", !.done = d]]
          PROVE  \E x : task' = [task EXCEPT ![t] = x] /\ TaskPassed(sent, x)
      <4> DEFINE x == [task[t] EXCEPT !.pc = "finish", !.done = d]
      <4>1. x.pc = "finish" /\ x.run = r /\ x.done = d
        BY <1>2 DEF Task
      <4>2. task' = [task EXCEPT ![t] = x]
        BY <3>3
      <4>3. d >= NGates
        <5> HIDE DEF d
        <5> QED BY <2>1, <3>3, ParamsAssumption
      <4> HIDE DEF x, d
      <4> QED BY <2>2, <4>1, <4>2, <4>3 DEF TaskPassed
    <3> QED BY <1>3, <3>1, <3>2, <3>3 DEF ExecPack
  <2>4. TaskPassed(sent', x)
    BY <2>1, <2>3, TaskPassedGrows
  <2>5. \A u \in Tasks : TaskPassed(sent', task'[u])
    BY <2>1, <2>3, <2>4, OneTask
  <2> HIDE DEF d
  <2>6. \A s \in PackRuns : Passed(sent', s, manifest'[s])
    BY <2>1, <2>2, ParamsAssumption DEF PassedInv, Passed, RestInv
  <2> QED BY <2>5, <2>6 DEF PassedInv
<1>4. CASE ExecPrompt(t)
  <2>1. task[t].run \notin PackRuns /\ sent' = sent /\ manifest' = manifest
    BY <1>4 DEF ExecPrompt, IsPack, histVars
  <2>2. CASE \E m : Leave(t, m)
    BY <2>1, <2>2, LeavePassed
  <2>3. ASSUME NEW d, NEW b, task' = [task EXCEPT ![t] =
                    [task[t] EXCEPT !.pc = "register", !.done = d, !.bytes = b, !.dec = None]]
        PROVE  PassedInv'
    <3> DEFINE x == [task[t] EXCEPT !.pc = "register", !.done = d, !.bytes = b, !.dec = None]
    <3>1. x.pc = "register" /\ x.run = task[t].run
      BY <1>2 DEF Task
    <3>2. task' = [task EXCEPT ![t] = x]
      BY <2>3
    <3> HIDE DEF x
    <3>3. TaskPassed(sent', x)
      BY <2>1, <3>1 DEF TaskPassed
    <3> QED BY <2>1, <3>2, <3>3, OneTask DEF PassedInv, Passed
  <2>4. ASSUME NEW d, task' = [task EXCEPT ![t] = [task[t] EXCEPT !.pc = "finish", !.done = d]]
        PROVE  PassedInv'
    <3> DEFINE x == [task[t] EXCEPT !.pc = "finish", !.done = d]
    <3>1. x.pc = "finish" /\ x.run = task[t].run
      BY <1>2 DEF Task
    <3>2. task' = [task EXCEPT ![t] = x]
      BY <2>4
    <3> HIDE DEF x
    <3>3. TaskPassed(sent', x)
      BY <2>1, <3>1 DEF TaskPassed
    <3> QED BY <2>1, <3>2, <3>3, OneTask DEF PassedInv, Passed
  <2> QED BY <1>4, <2>2, <2>3, <2>4 DEF ExecPrompt
<1>5. ASSUME NEW pc \in TaskPCs \ {"flip", "finish"}, NEW q, sent' = sent, manifest' = manifest,
             task' = [task EXCEPT ![t] = [task[t] EXCEPT !.pc = pc, !.dec = q]]
      PROVE  PassedInv'
  <2> DEFINE x == [task[t] EXCEPT !.pc = pc, !.dec = q]
  <2>1. SamePlace(t, x)
    BY <1>2, <1>5 DEF Task, SamePlace
  <2> HIDE DEF x
  <2> QED BY <1>5, <2>1, SamePlacePassed DEF x
<1>6. CASE HoldClaim(t)
  BY <1>5, <1>6, GotoPassed DEF HoldClaim, histVars, TaskPCs
<1>7. ASSUME NEW q, NEW m, Decide(t, q, m), sent' = sent, manifest' = manifest PROVE PassedInv'
  <2> DEFINE pc == IF req[q].kind = "reject" THEN "decided" ELSE "slot"
  <2>1. task' = [task EXCEPT ![t] = [task[t] EXCEPT !.pc = pc, !.dec = q]]
    BY <1>7 DEF Decide
  <2>2. pc \in TaskPCs \ {"flip", "finish"}
    BY DEF TaskPCs
  <2> HIDE DEF pc
  <2> QED BY <1>5, <1>7, <2>1, <2>2
<1>8. CASE WaitClaim(t) \/ WaitLocal(t)
  BY <1>7, <1>8, GotoPassed, LeavePassed DEF WaitClaim, WaitLocal, histVars
<1>9. CASE DispatchGate2(t)
  <2>1. sent \subseteq sent' /\ manifest' = manifest /\ task[t].pc = "dispatch"
    BY <1>9 DEF DispatchGate2
  <2>2. CASE Leave(t, Mine(t))
    BY <2>1, <2>2, LeavePassed
  <2>3. CASE Goto(t, "flip") /\ sent' = sent \cup {[run |-> task[t].run, gate |-> NextGate(t),
                                     bytes |-> task[t].bytes, by |-> task[t].dec]}
    <3> DEFINE x == [task[t] EXCEPT !.pc = "flip"]
    <3>1. x.pc = "flip" /\ x.run = task[t].run /\ x.done = task[t].done
          /\ task' = [task EXCEPT ![t] = x]
      BY <1>2, <2>3 DEF Goto, Task
    <3> HIDE DEF x
    <3>2. task[t].run \in PackRuns /\ task[t].done \in Nat /\ task[t].done + 1 \in Gates
      BY <2>1 DEF TaskInv, Proper, HoldingPCs
    <3>3. \A g \in Gates : g <= task[t].done + 1 => g <= task[t].done \/ g = task[t].done + 1
      BY <3>2 DEF Gates
    <3>4. Passed(sent, task[t].run, task[t].done)
      BY <3>2, ParamsAssumption DEF PassedInv, TaskPassed
    <3>5. \E e \in sent' : e.run = task[t].run /\ e.gate = task[t].done + 1
      <4> DEFINE e == [run |-> task[t].run, gate |-> NextGate(t),
                       bytes |-> task[t].bytes, by |-> task[t].dec]
      <4>1. e \in sent' /\ e.run = task[t].run /\ e.gate = task[t].done + 1
        BY <2>3 DEF NextGate
      <4> QED BY <4>1
    <3>6. TaskPassed(sent', x)
      BY <2>1, <3>1, <3>3, <3>4, <3>5 DEF TaskPassed, Passed
    <3>7. \A u \in Tasks : TaskPassed(sent', task'[u])
      BY <2>1, <3>1, <3>6, OneTask
    <3> QED BY <2>1, <3>7 DEF PassedInv, Passed
  <2> QED BY <1>9, <2>2, <2>3 DEF DispatchGate2
<1>10. CASE CompleteGate(t)
  <2> DEFINE x == [task[t] EXCEPT !.pc = "resume", !.done = NextGate(t)]
             r == task[t].run
  <2>1. sent' = sent /\ task[t].pc = "flip" /\ manifest' = [manifest EXCEPT ![r] = NextGate(t)]
        /\ task' = [task EXCEPT ![t] = x]
    BY <1>10 DEF CompleteGate, histVars
  <2>2. x.pc = "resume" /\ x.run = r /\ x.done = NextGate(t)
    BY <1>2 DEF Task
  <2>3. Passed(sent, r, NextGate(t)) /\ r \in Runs
    BY <2>1 DEF PassedInv, TaskPassed, NextGate, TaskInv, Proper
  <2> HIDE DEF x
  <2>4. TaskPassed(sent, x)
    BY <2>2, <2>3 DEF TaskPassed
  <2>5. TaskPassed(sent', x)
    BY <2>1, <2>4, TaskPassedGrows
  <2>6. \A u \in Tasks : TaskPassed(sent', task'[u])
    BY <2>1, <2>5, OneTask
  <2>7. \A s \in PackRuns : Passed(sent, s, manifest'[s])
    BY <2>1, <2>3, ParamsAssumption DEF PassedInv, RestInv
  <2> QED BY <2>1, <2>6, <2>7 DEF PassedInv, Passed
<1>11. CASE ResumeRun(t)
  <2> DEFINE d == IF IsPack(t) THEN task[t].done ELSE NextGate(t)
             x == [task[t] EXCEPT !.pc = "exec", !.done = d]
  <2>1. sent' = sent /\ manifest' = manifest /\ task' = [task EXCEPT ![t] = x]
    BY <1>11 DEF ResumeRun, histVars
  <2>2. x.pc = "exec" /\ x.run = task[t].run /\ x.done = d
    BY <1>2 DEF Task
  <2> HIDE DEF x
  <2>3. TaskPassed(sent, x)
    BY <2>2 DEF TaskPassed, PassedInv, IsPack
  <2>4. TaskPassed(sent', x)
    BY <2>1, <2>3, TaskPassedGrows
  <2> QED BY <2>1, <2>4, OneTask DEF PassedInv, Passed
<1> QED BY <1>1, <1>3, <1>4, <1>6, <1>8, <1>9, <1>10, <1>11 DEF TaskStep

LEMMA NextPassed == TypeInv /\ PassedInv /\ [Next]_vars => PassedInv'
<1> SUFFICES ASSUME TypeInv, PassedInv, [Next]_vars PROVE PassedInv'
  OBVIOUS
<1>1. TaskInv
  BY DEF TypeInv
<1>2. ASSUME NEW t \in Tasks, NEW p, NEW r, Spawn(t, p, r), sent' = sent, manifest' = manifest
      PROVE  PassedInv'
  <2> DEFINE x == [NoTask EXCEPT !.pc = "begin", !.run = r, !.at = p]
  <2>1. x.pc = "begin" /\ x.run = r /\ x.done = None /\ task' = [task EXCEPT ![t] = x]
    BY <1>2 DEF Spawn, NoTask
  <2> HIDE DEF x
  <2>2. TaskPassed(sent', x)
    BY <2>1 DEF TaskPassed
  <2> QED BY <1>1, <1>2, <2>1, <2>2, OneTask DEF PassedInv, Passed
<1>3. ASSUME NEW p \in Procs, ProcStep(p) PROVE PassedInv'
  BY <1>2, <1>3, SameTasksPassed
     DEF ProcStep, ClaimNext, DispatchClaimed, ReconcileRun, histVars
<1>4. ASSUME NEW q \in Reqs, RequestStep(q) PROVE PassedInv'
  BY <1>4, SameTasksPassed
     DEF RequestStep, DecideCheck, CancelMark, RecordDecision, ResolveWaiter, CancelWrite,
         CancelFails, histVars
<1>5. ASSUME NEW p \in Procs, Crash(p) PROVE PassedInv'
  <2>1. sent' = sent /\ manifest' = manifest
        /\ \A u \in Tasks : task'[u] = NoTask \/ task'[u] = task[u]
    BY <1>5 DEF Crash, histVars
  <2>2. TaskPassed(sent, NoTask)
    BY ParamsAssumption DEF TaskPassed, NoTask
  <2>3. \A u \in Tasks : TaskPassed(sent', task'[u])
    BY <2>1, <2>2 DEF PassedInv
  <2> QED BY <2>1, <2>3 DEF PassedInv, TaskPassed, Passed
<1>6. CASE Environment
  BY <1>5, <1>6, TaskStepPassed, SameTasksPassed
     DEF Environment, Boot, Heartbeat, LeaseExpires, histVars
<1>7. CASE UNCHANGED vars
  BY <1>7, SameTasksPassed DEF vars
<1> QED BY <1>3, <1>4, <1>6, <1>7, TaskStepPassed DEF Next, Rest

LEMMA InitPassed == Init => PassedInv /\ AskInv
<1> SUFFICES ASSUME Init PROVE PassedInv /\ AskInv
  OBVIOUS
<1>1. \A r \in PackRuns : manifest[r] = 0
  BY ParamsAssumption DEF Init
<1>2. \A r \in PackRuns : Passed(sent, r, manifest[r])
  BY <1>1 DEF Passed, Gates
<1>3. \A t \in Tasks : TaskPassed(sent, task[t])
  BY DEF Init, NoTask, TaskPassed
<1>4. AskInv
  BY DEF Init, NoRequest, AskInv
<1> QED BY <1>2, <1>3, <1>4 DEF PassedInv

-----------------------------------------------------------------------------
(* Requests: what was asked changes only when it is asked.                 *)

SameRequests == \A q \in Reqs : req'[q].run = req[q].run /\ req'[q].kind = req[q].kind

LEMMA AnswerAsks ==
    ASSUME ReqInv, AskInv, NEW q \in Reqs, NEW pc, Answer(q, pc), pc \notin {"idle", "marked"}
    PROVE  SameRequests /\ AskInv'
<1> DEFINE x == [req[q] EXCEPT !.pc = pc]
<1>1. x.pc = pc /\ x.run = req[q].run /\ x.kind = req[q].kind /\ req' = [req EXCEPT ![q] = x]
  BY DEF Answer, ReqInv, Request
<1> HIDE DEF x
<1> QED BY <1>1 DEF ReqInv, AskInv, SameRequests

LEMMA AskAsks ==
    ASSUME ReqInv, AskInv, NEW q \in Reqs, NEW pc, NEW kind, NEW r, NEW p, NEW saw,
           Ask(q, pc, kind, r, p, saw), pc # "idle", pc = "marked" => kind = "cancel"
    PROVE  /\ AskInv'
           /\ asked' = [asked EXCEPT ![q] = [run |-> r, kind |-> kind]]
<1> DEFINE x == [NoRequest EXCEPT !.pc = pc, !.kind = kind, !.run = r, !.at = p, !.saw = saw]
<1>1. x.pc = pc /\ x.run = r /\ x.kind = kind /\ req' = [req EXCEPT ![q] = x]
  BY DEF Ask, NoRequest
<1> HIDE DEF x
<1>2. AskInv'
  BY <1>1 DEF ReqInv, AskInv
<1>3. \A u \in Reqs : req'[u] = IF u = q THEN x ELSE req[u]
  BY <1>1 DEF ReqInv
<1> QED BY <1>1, <1>2, <1>3 DEF asked

LEMMA CrashAsks ==
    ASSUME ReqInv, AskInv, NEW p \in Procs, Crash(p)
    PROVE  SameRequests /\ AskInv'
<1>1. ASSUME NEW q \in Reqs
      PROVE  req'[q] = req[q] \/ (/\ req'[q].pc = "lost" /\ req'[q].run = req[q].run
                                  /\ req'[q].kind = req[q].kind)
  <2>1. req[q] \in Request
    BY DEF ReqInv
  <2>2. req'[q] = IF req[q].at = p /\ req[q].pc \notin {"accepted", "refused"}
                  THEN [req[q] EXCEPT !.pc = "lost"] ELSE req[q]
    BY DEF Crash
  <2> QED BY <2>1, <2>2 DEF Request
<1> QED BY <1>1 DEF SameRequests, AskInv

LEMMA SameAsks == ASSUME AskInv, req' = req PROVE SameRequests /\ AskInv'
  BY DEF SameRequests, AskInv

LEMMA NextAsk == TypeInv /\ AskInv /\ [Next]_vars => AskInv'
<1> SUFFICES ASSUME TypeInv, AskInv, [Next]_vars PROVE AskInv'
  OBVIOUS
<1> USE DEF TypeInv
<1>1. ASSUME NEW t \in Tasks, TaskStep(t) \/ WaitTimeout(t) PROVE AskInv'
  BY <1>1, SameAsks
     DEF TaskStep, Begin, Admit, ExecPack, ExecPrompt, Finish, HoldClaim, HoldRegister, HoldPark,
         HoldOpen, WaitClaim, WaitLocal, WaitSlot, Decided, RewritePending, DispatchGate2,
         CompleteGate, ResumeRun, WaitTimeout
<1>2. ASSUME NEW p \in Procs, ProcStep(p) PROVE AskInv'
  BY <1>2, SameAsks DEF ProcStep, ClaimNext, DispatchClaimed, ReconcileRun
<1>3. ASSUME NEW q \in Reqs, RequestStep(q) PROVE AskInv'
  <2>1. ASSUME NEW p \in Procs, NEW r \in Runs, DecideCheck(q, p, r) \/ CancelMark(q, p, r)
        PROVE  AskInv'
    BY <2>1, AskAsks DEF DecideCheck, CancelMark
  <2>2. CASE RecordDecision(q) \/ ResolveWaiter(q) \/ CancelWrite(q) \/ CancelFails(q)
    BY <2>2, AnswerAsks DEF RecordDecision, ResolveWaiter, CancelWrite, CancelFails
  <2> QED BY <1>3, <2>1, <2>2 DEF RequestStep
<1>4. CASE Environment
  BY <1>1, <1>4, SameAsks, CrashAsks DEF Environment, Boot, Heartbeat, LeaseExpires
<1>5. CASE UNCHANGED vars
  BY <1>5, SameAsks DEF vars
<1> QED BY <1>1, <1>2, <1>3, <1>4, <1>5 DEF Next, Rest

-----------------------------------------------------------------------------
(* Every step is a step of the promise, or changes nothing it speaks of.   *)

Allowed == [Promise!Next]_(Promise!vars)

LEMMA SameAsked == ASSUME SameRequests PROVE asked' = asked
  BY DEF SameRequests, asked

LEMMA SameActed == ASSUME sent' = sent PROVE acted' = acted
  BY DEF acted

\* No status changes, nothing is asked, nothing is acted on.
LEMMA StutterAllowed ==
    ASSUME SameRequests, sent' = sent, \A r \in Runs : row'[r].status = row[r].status
    PROVE  Allowed
<1>1. status' = status
  BY DEF status
<1> QED BY <1>1, SameAsked, SameActed DEF Allowed, Promise!vars

LEMMA SameRowAllowed ==
    ASSUME SameRequests, sent' = sent, row' = row
    PROVE  Allowed
  BY StutterAllowed

LEMMA OneStatus ==
    ASSUME RowInv, NEW r \in Runs, NEW x, row' = [row EXCEPT ![r] = x]
    PROVE  status' = [status EXCEPT ![r] = x.status]
<1>1. \A s \in Runs : row'[s].status = IF s = r THEN x.status ELSE row[s].status
  BY DEF RowInv
<1> QED BY <1>1 DEF status

\* A live row becomes, or stays, running or awaiting approval.
LEMMA MoveAllowed ==
    ASSUME RowInv, SameRequests, sent' = sent, NEW r \in Runs, ~Ended(r), NEW x,
           row' = [row EXCEPT ![r] = x], x.status \in {"running", "awaiting_approval"}
    PROVE  Allowed
<1>1. status' = [status EXCEPT ![r] = x.status]
  BY OneStatus
<1>2. status[r] \notin Promise!Terminal
  BY DEF status, Ended, Terminal, Promise!Terminal
<1>3. Promise!Move(r)
  BY <1>1, <1>2, SameAsked, SameActed DEF Promise!Move
<1> QED BY <1>3 DEF Promise!Next, Allowed

\* A row ends for a reason the promise knows, if it had not ended before.
LEMMA EndAllowed ==
    ASSUME RowInv, SameRequests, sent' = sent, NEW r \in Runs, NEW s \in Terminal, End(r, s),
           s = "ok" /\ r \in PackRuns => Promise!EveryGateActed(r),
           s = "rejected" => \E q \in Reqs : Promise!Asked(q, r, {"reject"}),
           s = "canceled" => \E q \in Reqs : Promise!Asked(q, r, {"cancel"})
    PROVE  Allowed
<1>1. CASE Ended(r)
  BY <1>1, SameRowAllowed DEF End
<1>2. CASE ~Ended(r)
  <2> DEFINE x == [row[r] EXCEPT !.status = s, !.pending = None]
  <2>1. x.status = s /\ row' = [row EXCEPT ![r] = x]
    BY <1>2 DEF End, RowInv, Row
  <2> HIDE DEF x
  <2>2. status' = [status EXCEPT ![r] = s]
    BY <2>1, OneStatus
  <2>3. status[r] \notin Promise!Terminal
    BY <1>2 DEF status, Ended, Terminal, Promise!Terminal
  <2>4. Promise!End(r, s)
    BY <2>2, <2>3, SameAsked, SameActed DEF Promise!End
  <2> QED BY <2>4 DEF Promise!Next, Promise!Terminal, Terminal, Allowed
<1> QED BY <1>1, <1>2

LEMMA FailAllowed ==
    ASSUME RowInv, SameRequests, sent' = sent, NEW r \in Runs, End(r, "failed")
    PROVE  Allowed
  BY EndAllowed DEF Terminal

\* The gates a coroutine passed are the gates the promise calls acted on.
LEMMA PassedActed ==
    ASSUME NEW r, NEW d \in Nat, d >= NGates, Passed(sent, r, d)
    PROVE  Promise!EveryGateActed(r)
<1>1. ASSUME NEW g \in 1..NGates PROVE \E a \in acted : a.run = r /\ a.gate = g
  <2>1. PICK e \in sent : e.run = r /\ e.gate = g
    <3>1. g \in Gates /\ g <= d
      BY ParamsAssumption DEF Gates
    <3> QED BY <3>1 DEF Passed
  <2> DEFINE a == [run |-> e.run, gate |-> e.gate, by |-> e.by]
  <2>2. a \in acted /\ a.run = r /\ a.gate = g
    BY <2>1 DEF acted
  <2> QED BY <2>2
<1> QED BY <1>1 DEF Promise!EveryGateActed

LEMMA TaskStepAllowed ==
    ASSUME RInv, NEW t \in Tasks, TaskStep(t) \/ WaitTimeout(t)
    PROVE  Allowed
<1> USE DEF RInv, TypeInv
<1> DEFINE r == task[t].run
<1>1. task[t].pc # "idle" => r \in Runs /\ row[r] \in Row /\ task[t] \in Task
  BY SMTT(40) DEF TaskInv, Proper, RowInv
<1>2. req' = req => SameRequests
  BY SameAsks
<1>3. CASE Begin(t) \/ HoldClaim(t) \/ HoldRegister(t) \/ HoldOpen(t) \/ WaitClaim(t)
           \/ WaitLocal(t) \/ WaitSlot(t) \/ CompleteGate(t)
  BY <1>2, <1>3, SameRowAllowed
     DEF Begin, HoldClaim, HoldRegister, HoldOpen, WaitClaim, WaitLocal, WaitSlot, CompleteGate,
         histVars
<1>4. CASE ExecPack(t) \/ ExecPrompt(t) \/ WaitTimeout(t)
  <2>1. r \in Runs /\ req' = req /\ sent' = sent
    BY <1>1, <1>4 DEF ExecPack, ExecPrompt, WaitTimeout, histVars
  <2>2. row' = row \/ End(r, "failed")
    BY <1>4 DEF ExecPack, ExecPrompt, WaitTimeout
  <2> QED BY <1>2, <2>1, <2>2, SameRowAllowed, FailAllowed
<1>5. CASE Admit(t)
  <2>1. r \in Runs /\ row[r] \in Row /\ req' = req /\ sent' = sent
    BY <1>1, <1>5 DEF Admit, histVars
  <2>2. CASE ~Ended(r) /\ row' = [row EXCEPT ![r].status = "running"]
    <3> DEFINE x == [row[r] EXCEPT !.status = "running"]
    <3>1. x.status = "running" /\ row' = [row EXCEPT ![r] = x]
      BY <2>1, <2>2 DEF Row
    <3> HIDE DEF x
    <3> QED BY <1>2, <2>1, <2>2, <3>1, MoveAllowed
  <2> QED BY <1>2, <1>5, <2>1, <2>2, SameRowAllowed, FailAllowed DEF Admit
<1>6. CASE Finish(t)
  <2>1. r \in Runs /\ task[t].done \in Nat /\ req' = req /\ sent' = sent
        /\ (row' = row \/ End(r, "ok"))
    BY <1>1, <1>6 DEF Finish, histVars, TaskInv, Proper
  <2>2. r \in PackRuns => Promise!EveryGateActed(r)
    BY <1>6, <2>1, PassedActed, ParamsAssumption DEF Finish, PassedInv, TaskPassed
  <2> QED BY <1>2, <2>1, <2>2, SameRowAllowed, EndAllowed DEF Terminal
<1>7. CASE HoldPark(t)
  <2>1. r \in Runs /\ row[r] \in Row /\ req' = req /\ sent' = sent
    BY <1>1, <1>7 DEF HoldPark, histVars
  <2>2. CASE ~Ended(r) /\ row' = [row EXCEPT ![r].status = "awaiting_approval",
                                             ![r].pending = task[t].bytes]
    <3> DEFINE x == [row[r] EXCEPT !.status = "awaiting_approval", !.pending = task[t].bytes]
    <3>1. x.status = "awaiting_approval" /\ row' = [row EXCEPT ![r] = x]
      BY <2>1, <2>2 DEF Row
    <3> HIDE DEF x
    <3> QED BY <1>2, <2>1, <2>2, <3>1, MoveAllowed
  <2> QED BY <1>2, <1>7, <2>1, <2>2, SameRowAllowed DEF HoldPark
<1>8. CASE Decided(t)
  <2>1. r \in Runs /\ req' = req /\ sent' = sent
    BY <1>1, <1>8 DEF Decided, histVars
  <2>2. CASE End(r, "rejected") /\ req[task[t].dec].kind = "reject"
    <3>1. task[t].dec \in Reqs /\ req[task[t].dec].run = r
      BY <1>8 DEF Decided, SaysInv, TaskSays, CarrierOf, Says
    <3>2. Promise!Asked(task[t].dec, r, {"reject"})
      BY <2>2, <3>1 DEF Promise!Asked, asked
    <3> QED BY <1>2, <2>1, <2>2, <3>1, <3>2, EndAllowed DEF Terminal
  <2> QED BY <1>2, <1>8, <2>1, <2>2, SameRowAllowed, FailAllowed DEF Decided
<1>9. CASE RewritePending(t)
  <2>1. \A s \in Runs : row'[s].status = row[s].status
    BY <1>9 DEF RewritePending, RowInv, Row
  <2> QED BY <1>2, <1>9, <2>1, StutterAllowed DEF RewritePending, histVars
<1>10. CASE DispatchGate2(t)
  <2>1. r \in Runs /\ req' = req /\ task[t].pc = "dispatch"
    BY <1>1, <1>10 DEF DispatchGate2
  <2>2. CASE End(r, "failed") /\ sent' = sent
    BY <1>2, <2>1, <2>2, FailAllowed
  <2>3. CASE row' = row /\ sent' = sent \cup {[run |-> r, gate |-> NextGate(t),
                                  bytes |-> task[t].bytes, by |-> task[t].dec]}
    <3> DEFINE q == task[t].dec
               g == NextGate(t)
               e == [run |-> r, gate |-> g, bytes |-> task[t].bytes, by |-> q]
    <3>1. q \in Reqs /\ Promise!Asked(q, r, {"approve", "edit"})
      BY <2>1 DEF SaysInv, TaskSays, CarrierOf, Consents, Says, Decisions, Promise!Asked, asked
    <3>2. g \in 1..NGates
      BY <2>1 DEF TaskInv, Proper, HoldingPCs, NextGate, Gates
    <3>3. acted' = acted \cup {[run |-> r, gate |-> g, by |-> q]}
      <4>1. e.run = r /\ e.gate = g /\ e.by = q /\ sent' = sent \cup {e}
        BY <2>3
      <4> HIDE DEF e, g, q
      <4> QED BY <4>1 DEF acted
    <3>4. status' = status
      BY <2>3 DEF status
    <3>5. asked' = asked
      BY <1>2, <2>1, SameAsked
    <3>6. Promise!Act(r, g, q)
      BY <3>1, <3>3, <3>4, <3>5 DEF Promise!Act, Promise!Consents
    <3> HIDE DEF g, q
    <3> QED BY <2>1, <3>1, <3>2, <3>6 DEF Promise!Next, Allowed
  <2> QED BY <1>10, <2>2, <2>3 DEF DispatchGate2
<1>11. CASE ResumeRun(t)
  <2>1. r \in Runs /\ row[r] \in Row /\ req' = req /\ sent' = sent
    BY <1>1, <1>11 DEF ResumeRun, histVars
  <2>2. CASE ~Ended(r)
    <3> DEFINE x == [row[r] EXCEPT !.status = "running", !.pending = None]
    <3>1. x.status = "running" /\ row' = [row EXCEPT ![r] = x]
      BY <1>11, <2>1, <2>2 DEF ResumeRun, Row
    <3> HIDE DEF x
    <3> QED BY <1>2, <2>1, <2>2, <3>1, MoveAllowed
  <2> QED BY <1>2, <1>11, <2>1, <2>2, SameRowAllowed DEF ResumeRun
<1> QED BY <1>3, <1>4, <1>5, <1>6, <1>7, <1>8, <1>9, <1>10, <1>11 DEF TaskStep

LEMMA ProcAllowed ==
    ASSUME RInv, NEW p \in Procs, ProcStep(p) \/ Boot(p) \/ Heartbeat(p) \/ Crash(p)
    PROVE  Allowed
<1> USE DEF RInv, TypeInv
<1>1. req' = req => SameRequests
  BY SameAsks
<1>2. CASE ClaimNext(p)
  <2>1. req' = req /\ sent' = sent
    BY <1>2 DEF ClaimNext, histVars
  <2>2. PICK r \in Runs :
          LET tries == IF row[r].status = "awaiting_approval" THEN row[r].attempts
                       ELSE row[r].attempts + 1
          IN  /\ Claimable(r)
              /\ row' = [row EXCEPT ![r].owner = p, ![r].lease = "fresh", ![r].attempts = tries,
                                    ![r].status = IF @ = "queued" THEN "running" ELSE @]
    BY Zenon, <1>2 DEF ClaimNext
  <2> DEFINE n == IF row[r].status = "awaiting_approval" THEN row[r].attempts
                  ELSE row[r].attempts + 1
  <2>3. Claimable(r) /\
          row' = [row EXCEPT ![r].owner = p, ![r].lease = "fresh", ![r].attempts = n,
                             ![r].status = IF @ = "queued" THEN "running" ELSE @]
    BY Zenon, <2>2
  <2> HIDE DEF n
  <2> DEFINE st == IF row[r].status = "queued" THEN "running" ELSE row[r].status
             x == [row[r] EXCEPT !.owner = p, !.lease = "fresh", !.attempts = n, !.status = st]
  <2>4. ~Ended(r) /\ st \in {"running", "awaiting_approval"}
    BY <2>3 DEF Claimable, Ended, Parked, Terminal
  <2>5. x.status = st /\ row' = [row EXCEPT ![r] = x]
    BY <2>3 DEF RowInv, Row
  <2> HIDE DEF x, st
  <2> QED BY <1>1, <2>1, <2>4, <2>5, MoveAllowed
<1>3. CASE DispatchClaimed(p)
  <2>1. mem[p].hand.run \in Runs
    BY <1>3 DEF DispatchClaimed, MemInv, Memory, Claims
  <2> QED BY <1>1, <1>3, <2>1, FailAllowed, SameRowAllowed DEF DispatchClaimed, histVars
<1>4. ASSUME NEW r \in Runs, ReconcileRun(p, r) PROVE Allowed
  <2>1. CASE row' = row \/ row' = [row EXCEPT ![r].owner = p, ![r].lease = "fresh"]
    <3>1. \A s \in Runs : row'[s].status = row[s].status
      BY <2>1 DEF RowInv, Row
    <3> QED BY <1>1, <1>4, <3>1, StutterAllowed DEF ReconcileRun
  <2> QED BY <1>1, <1>4, <2>1, FailAllowed DEF ReconcileRun
<1>5. CASE Boot(p)
  BY <1>1, <1>5, SameRowAllowed DEF Boot, histVars
<1>6. CASE Heartbeat(p)
  <2>1. \A s \in Runs : row'[s].status = row[s].status
    BY SMTT(40), <1>6 DEF Heartbeat, RowInv, Row
  <2> QED BY <1>1, <1>6, <2>1, StutterAllowed DEF Heartbeat, histVars
<1>7. CASE Crash(p)
  BY <1>7, CrashAsks, SameRowAllowed DEF Crash, histVars
<1> QED BY <1>2, <1>3, <1>4, <1>5, <1>6, <1>7 DEF ProcStep

LEMMA RequestAllowed ==
    ASSUME RInv, NEW q \in Reqs, RequestStep(q)
    PROVE  Allowed
<1> USE DEF RInv, TypeInv
<1>1. ASSUME NEW p \in Procs, NEW r \in Runs, DecideCheck(q, p, r) \/ CancelMark(q, p, r)
      PROVE  Allowed
  <2>1. status' = status /\ acted' = acted /\ asked[q].kind = "none"
    BY <1>1 DEF DecideCheck, CancelMark, histVars, AskInv, status, acted, asked
  <2>2. PICK kind \in {"approve", "edit", "reject", "cancel"} :
          /\ IF kind = "cancel" THEN ~Ended(r) ELSE row[r].status = "awaiting_approval"
          /\ asked' = [asked EXCEPT ![q] = [run |-> r, kind |-> kind]]
    <3>1. CASE DecideCheck(q, p, r)
      BY <3>1, AskAsks DEF DecideCheck, Decisions
    <3>2. CASE CancelMark(q, p, r)
      BY <3>2, AskAsks DEF CancelMark
    <3> QED BY <1>1, <3>1, <3>2
  <2>3. Promise!Ask(q, r, kind)
    BY <2>1, <2>2 DEF Promise!Ask, Promise!Terminal, Ended, Terminal, status
  <2> QED BY <2>3 DEF Promise!Next, Allowed
<1>2. CASE RecordDecision(q) \/ ResolveWaiter(q) \/ CancelFails(q)
  BY <1>2, AnswerAsks, SameRowAllowed DEF RecordDecision, ResolveWaiter, CancelFails, histVars
<1>3. CASE CancelWrite(q)
  <2>1. req[q].run \in Runs /\ Promise!Asked(q, req[q].run, {"cancel"})
    BY <1>3 DEF CancelWrite, ReqInv, Addressed, AskInv, Promise!Asked, asked
  <2>2. SameRequests /\ sent' = sent /\ End(req[q].run, "canceled")
    BY <1>3, AnswerAsks DEF CancelWrite, histVars
  <2> QED BY <2>1, <2>2, EndAllowed DEF Terminal
<1> QED BY <1>1, <1>2, <1>3 DEF RequestStep

LEMMA NextAllowed == RInv /\ [Next]_vars => Allowed
<1> SUFFICES ASSUME RInv, [Next]_vars PROVE Allowed
  OBVIOUS
<1>1. ASSUME NEW r \in Runs, LeaseExpires(r) PROVE Allowed
  <2>1. \A s \in Runs : row'[s].status = row[s].status
    BY <1>1 DEF LeaseExpires, RInv, TypeInv, RowInv, Row
  <2> QED BY <1>1, <2>1, SameAsks, StutterAllowed DEF LeaseExpires, histVars, RInv
<1>2. CASE Environment
  BY <1>1, <1>2, ProcAllowed, TaskStepAllowed DEF Environment
<1>3. CASE UNCHANGED vars
  BY <1>3, SameAsks, SameRowAllowed DEF vars, RInv
<1> QED BY <1>2, <1>3, TaskStepAllowed, ProcAllowed, RequestAllowed DEF Next, Rest

LEMMA InitAllowed == Init => Promise!Init
  BY DEF Init, NoRequest, Promise!Init, status, asked, acted

\* The fleet implements its promise, for every number of runs, processes, executor tasks
\* and requests, with stalls and overlapping processes: whatever crashes, is reclaimed,
\* reconciled, left over or timed out, a run acts only with the consent its operator gave
\* it, is "ok" only when it acted at each of its gates, and is "rejected" or "canceled" only
\* because an operator asked for it.
THEOREM BackendKeepsThePromise == Spec => KeepsThePromise
<1>1. Spec => []RInv
  <2>1. Init => RInv
    BY InitTyped, InitSays, InitPassed DEF RInv
  <2>2. RInv /\ [Next]_vars => RInv'
    BY NextTyped, NextSays, NextPassed, NextAsk DEF RInv
  <2> QED BY <2>1, <2>2, PTL DEF Spec
<1>2. RInv /\ [Next]_vars => [Promise!Next]_(Promise!vars)
  BY NextAllowed DEF Allowed
<1> QED BY <1>1, <1>2, InitAllowed, PTL DEF Spec, KeepsThePromise, Promise!Spec
=============================================================================
