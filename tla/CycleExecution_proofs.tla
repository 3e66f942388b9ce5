----------------------- MODULE CycleExecution_proofs -----------------------
(***************************************************************************)
(* Proofs about CycleExecution: types, the mutual exclusion of cycle runs  *)
(* on a device, the executor behind every running row, and the finality of *)
(* a verdict, for any number of runs, cycles, devices, cases and calls;    *)
(* and, on one device, whose evidence a case row holds, what a pass rests  *)
(* on, and that the totals match the rows.                                 *)
(***************************************************************************)
EXTENDS CycleExecution, FiniteSetTheorems, TLAPS

\* The initial rows, goroutines and bindings are well typed.
LEMMA TypeInit == Init => TypeOK
<1> USE CycleAssumption DEF Init, TypeOK
<1>1. Init => RowsOK
  BY DEF RowsOK, RowStates, ZeroTotals, CaseRuns, Categories
<1>2. Init => ExecutorOK
  BY DEF ExecutorOK, Pcs, Working, Held, ZeroTotals
<1>3. Init => BinderOK /\ AgentsOK
  BY DEF BinderOK, AgentsOK, FreeCall, CallRecords, StepStates, StepResults, RowStates
<1> QED
  BY <1>1, <1>2, <1>3

\* UPDATE cycle_runs and UPDATE test_runs keep the tables well typed.
LEMMA UpdateCycleRunType ==
    ASSUME TypeOK, NEW r \in Runs, NEW status \in RowStates, UpdateCycleRun(r, status)
    PROVE  run' \in [Runs -> RowStates] /\ totals' \in [Runs -> [Categories -> Nat]]
BY DEF TypeOK, RowsOK, ExecutorOK, UpdateCycleRun

LEMMA UpdateTestRunType ==
    ASSUME TypeOK, NEW x \in CaseRuns, NEW status \in RowStates, NEW ss \in Seq(StepResults),
           UpdateTestRun(x, status, ss)
    PROVE  crow' \in [CaseRuns -> RowStates] /\ steps' \in [CaseRuns -> Seq(StepResults)]
BY DEF TypeOK, RowsOK, UpdateTestRun

\* While runCase is at work, the case execute is at is one of the cycle.
LEMMA CaseType ==
    ASSUME TypeOK, NEW r \in Runs,
           pc[r] \in Held \ {"open", "next", "release"} \/ (pc[r] = "next" /\ cur[r] <= NumCases)
    PROVE  Case(r) \in CaseRuns /\ dev[r] \in Devices
BY CycleAssumption DEF TypeOK, ExecutorOK, Case, CaseRuns, Held

\* What AppendStep read is well typed, and so is what it writes back.
LEMMA CallType ==
    ASSUME TypeOK, NEW c \in Calls
    PROVE  /\ call[c] \in CallRecords
           /\ call[c].row \in [status : RowStates, steps : Seq(StepResults)]
BY DEF TypeOK, AgentsOK, CallRecords

LEMMA RowsStep == TypeOK /\ [Next]_vars => RowsOK'
<1> SUFFICES ASSUME TypeOK, [Next]_vars PROVE RowsOK'
    OBVIOUS
<1> USE DEF TypeOK
<1>1. ASSUME NEW r \in Runs, NEW d \in Devices, Start(r, d) PROVE RowsOK'
  BY <1>1 DEF RowsOK, Start, RowStates
<1>2. ASSUME NEW r \in Runs, NEW from, NEW status \in {"passed", "failed"}, NEW to,
             Finish(r, from, status, to)
      PROVE  RowsOK'
  BY <1>2, UpdateCycleRunType DEF RowsOK, Finish, RowStates
<1>3. ASSUME NEW r \in Runs, RejectBusy(r) \/ NoDevice(r) \/ FinishCycle(r) PROVE RowsOK'
  BY <1>2, <1>3 DEF RejectBusy, NoDevice, FinishCycle, Verdict
<1>4. ASSUME NEW r \in Runs, BeginCase(r) PROVE RowsOK'
  BY <1>4, CaseType DEF RowsOK, BeginCase, Goto, RowStates
<1>5. ASSUME NEW r \in Runs, RecordCase(r) PROVE RowsOK'
  <2>1. Case(r) \in CaseRuns
    BY <1>5, CaseType DEF RecordCase, Goto, Held
  <2>2. snap[r] \in Seq(StepResults)
    BY DEF ExecutorOK
  <2>3. PICK status \in RowStates : UpdateTestRun(Case(r), status, snap[r])
    BY <1>5 DEF RecordCase, RowStates
  <2> QED
    BY <2>1, <2>2, <2>3, <1>5, UpdateTestRunType DEF RecordCase, RowsOK
<1>6. ASSUME NEW r \in Runs, TallyCase(r) PROVE RowsOK'
  BY <1>6, UpdateCycleRunType DEF RowsOK, TallyCase, RowStates
<1>7. ASSUME NEW r \in Runs, DeleteCaseRows(r) \/ DeleteRunRow(r) PROVE RowsOK'
  <2>1. CASE DeleteCaseRows(r)
    <3>1. <<>> \in Seq(StepResults)
      OBVIOUS
    <3>2. crow' \in [CaseRuns -> RowStates]
      BY <2>1 DEF RowsOK, DeleteCaseRows, RowStates
    <3>3. steps' \in [CaseRuns -> Seq(StepResults)]
      BY <2>1, <3>1 DEF RowsOK, DeleteCaseRows
    <3> QED
      BY <2>1, <3>2, <3>3 DEF RowsOK, DeleteCaseRows
  <2>2. CASE DeleteRunRow(r)
    BY <2>2 DEF RowsOK, DeleteRunRow, RowStates
  <2> QED
    BY <1>7, <2>1, <2>2
<1>8. ASSUME NEW c \in Cycles, DeleteCycle(c) PROVE RowsOK'
  BY <1>8 DEF RowsOK, DeleteCycle, RowStates
<1>9. ASSUME NEW c \in Calls, AppendWrite(c) PROVE RowsOK'
  <2> DEFINE step == [by |-> call[c].by, no |-> call[c].no, status |-> call[c].status]
             ss == Append(call[c].row.steps, step)
  <2>1. call[c].run \in CaseRuns /\ step \in StepResults
    BY <1>9, CallType DEF AgentsOK, AppendWrite, CallRecords, StepResults
  <2>2. ss \in Seq(StepResults) /\ call[c].row.status \in RowStates
    BY <2>1, CallType
  <2>3. UpdateTestRun(call[c].run, call[c].row.status, ss)
    BY <1>9 DEF AppendWrite
  <2> HIDE DEF ss
  <2> QED
    BY <2>1, <2>2, <2>3, <1>9, UpdateTestRunType DEF AppendWrite, RowsOK
<1>10. CASE Restart
  BY <1>10 DEF RowsOK, Restart, Swept, RowStates
<1>11. CASE UNCHANGED rows
  BY <1>11 DEF RowsOK, rows
<1> QED
  BY <1>1, <1>3, <1>4, <1>5, <1>6, <1>7, <1>8, <1>9, <1>10, <1>11
     DEF Next, ExecutorStep, AgentEnds, CallStep, vars, Claim, OpenDevice, SkipCase, SetActive,
         BindRun, AgentReplies, AgentFails, UnbindRun, Reload, Release, SelectDevice, ReportStep,
         LookUpBinding, AppendRead

LEMMA ExecutorStepType == TypeOK /\ [Next]_vars => ExecutorOK'
<1> SUFFICES ASSUME TypeOK, [Next]_vars PROVE ExecutorOK'
    OBVIOUS
<1> USE CycleAssumption DEF TypeOK, Goto, Pcs, Working, Held
<1>1. ASSUME NEW r \in Runs, NEW d \in Devices, Start(r, d) PROVE ExecutorOK'
  BY <1>1 DEF ExecutorOK, Start
<1>2. ASSUME NEW r \in Runs, Claim(r) PROVE ExecutorOK'
  BY <1>2 DEF ExecutorOK, Claim, local
<1>3. ASSUME NEW r \in Runs, NEW from \in Working, NEW to \in {"done", "release"}, NEW status,
             Finish(r, from, status, to)
      PROVE  ExecutorOK'
  BY <1>3 DEF ExecutorOK, Finish, local
<1>4. ASSUME NEW r \in Runs, RejectBusy(r) \/ NoDevice(r) \/ FinishCycle(r) PROVE ExecutorOK'
  BY <1>3, <1>4 DEF RejectBusy, NoDevice, FinishCycle
<1>5. ASSUME NEW r \in Runs, OpenDevice(r) \/ BeginCase(r) \/ SetActive(r) \/ BindRun(r) \/ UnbindRun(r)
      PROVE  ExecutorOK'
  BY <1>5 DEF ExecutorOK, OpenDevice, BeginCase, SetActive, BindRun, UnbindRun, local
<1>6. ASSUME NEW r \in Runs, SkipCase(r) PROVE ExecutorOK'
  <2>1. PICK category \in Categories : tally' = [tally EXCEPT ![r] = Count(@, category)]
    BY <1>6 DEF SkipCase, Categories
  <2>2. tally' \in [Runs -> [Categories -> Nat]]
    BY <2>1 DEF ExecutorOK, Count
  <2> QED
    BY <2>2, <1>6 DEF ExecutorOK, SkipCase
<1>7. ASSUME NEW r \in Runs, AgentReplies(r) \/ AgentFails(r) PROVE ExecutorOK'
  <2>1. PICK a \in {"ok", "bad", "error"} : reply' = [reply EXCEPT ![r] = a]
    BY <1>7 DEF AgentReplies, AgentFails
  <2>2. reply' \in [Runs -> {"ok", "bad", "error"}]
    BY <2>1 DEF ExecutorOK
  <2>3. /\ pc[r] = "agent" /\ pc' = [pc EXCEPT ![r] = "unbind"]
        /\ UNCHANGED <<dev, cur, tally, snap, running>>
    BY <1>7 DEF AgentReplies, AgentFails
  <2> QED
    BY <2>2, <2>3 DEF ExecutorOK
<1>8. ASSUME NEW r \in Runs, Reload(r) PROVE ExecutorOK'
  <2>1. Case(r) \in CaseRuns
    BY <1>8, CaseType DEF Reload
  <2>2. snap' \in [Runs -> Seq(StepResults)]
    BY <2>1, <1>8 DEF ExecutorOK, RowsOK, Reload
  <2> QED
    BY <2>2, <1>8 DEF ExecutorOK, Reload
<1>9. ASSUME NEW r \in Runs, RecordCase(r) PROVE ExecutorOK'
  <2>1. PICK category \in Categories : tally' = [tally EXCEPT ![r] = Count(@, category)]
    BY <1>9 DEF RecordCase, classifyCase, Categories
  <2>2. tally' \in [Runs -> [Categories -> Nat]]
    BY <2>1 DEF ExecutorOK, Count
  <2>3. <<>> \in Seq(StepResults)
    OBVIOUS
  <2> QED
    BY <2>2, <2>3, <1>9 DEF ExecutorOK, RecordCase
<1>10. ASSUME NEW r \in Runs, TallyCase(r) PROVE ExecutorOK'
  <2>0. pc[r] = "tally" /\ cur[r] \in 1..NumCases + 1
    BY <1>10 DEF ExecutorOK, TallyCase
  <2>1. cur[r] \in 1..NumCases /\ pc[r] = "tally"
    <3>1. cur[r] <= NumCases
      BY <2>0 DEF ExecutorOK
    <3> QED
      BY <2>0, <3>1
  <2>2. cur' \in [Runs -> 1..NumCases + 1]
    BY <2>1, <1>10 DEF ExecutorOK, TallyCase
  <2>3. \A s \in Runs : pc'[s] \in Held \ {"open", "next", "release"} => cur'[s] <= NumCases
    BY <2>1, <1>10 DEF ExecutorOK, TallyCase
  <2> QED
    BY <2>2, <2>3, <1>10 DEF ExecutorOK, TallyCase
<1>11. ASSUME NEW r \in Runs, Release(r) PROVE ExecutorOK'
  BY <1>11 DEF ExecutorOK, Release, local
<1>12. CASE Restart
  <2>1. <<>> \in Seq(StepResults) /\ ZeroTotals \in [Categories -> Nat]
    BY DEF ZeroTotals
  <2>0. 1 \in 1..NumCases + 1
    OBVIOUS
  <2>2. cur' \in [Runs -> 1..NumCases + 1] /\ tally' \in [Runs -> [Categories -> Nat]]
    <3> HIDE CycleAssumption
    <3>1. cur' = [r \in Runs |-> 1] /\ tally' = [r \in Runs |-> ZeroTotals]
      BY <1>12 DEF Restart, Swept
    <3> QED
      BY <3>1, <2>0, <2>1
  <2>3. snap' \in [Runs -> Seq(StepResults)] /\ reply' \in [Runs -> {"ok", "bad", "error"}]
    BY <2>1, <1>12 DEF Restart, Swept
  <2>4. /\ pc' \in [Runs -> Pcs] /\ dev' = dev /\ running' = {}
        /\ \A r \in Runs : pc'[r] \notin Working /\ (pc'[r] # "idle" => pc[r] # "idle")
    BY <1>12 DEF ExecutorOK, Restart, Swept
  <2> QED
    BY <2>2, <2>3, <2>4 DEF ExecutorOK
<1>13. CASE UNCHANGED <<pc, local, running>>
  BY <1>13 DEF ExecutorOK, local
<1> QED
  BY <1>1, <1>2, <1>4, <1>5, <1>6, <1>7, <1>8, <1>9, <1>10, <1>11, <1>12, <1>13
     DEF Next, ExecutorStep, AgentEnds, CallStep, vars, DeleteCaseRows, DeleteRunRow, DeleteCycle,
         SelectDevice, ReportStep, LookUpBinding, AppendRead, AppendWrite

LEMMA BinderStepType == TypeOK /\ [Next]_vars => BinderOK'
<1> SUFFICES ASSUME TypeOK, [Next]_vars PROVE BinderOK'
    OBVIOUS
<1> USE DEF TypeOK, BinderOK, binder
<1>1. ASSUME NEW r \in Runs, SetActive(r) \/ BindRun(r) \/ UnbindRun(r) PROVE BinderOK'
  <2>1. Case(r) \in CaseRuns /\ dev[r] \in Devices
    BY <1>1, CaseType DEF SetActive, BindRun, UnbindRun, Goto, Held
  <2> QED
    BY <1>1, <2>1 DEF SetActive, BindRun, UnbindRun
<1>2. ASSUME NEW d \in Devices, SelectDevice(d) PROVE BinderOK'
  BY <1>2 DEF SelectDevice
<1>3. CASE Restart
  BY <1>3 DEF Restart, Swept
<1>4. CASE UNCHANGED binder
  BY <1>4
<1> QED
  BY <1>1, <1>2, <1>3, <1>4
     DEF Next, ExecutorStep, AgentEnds, CallStep, vars, Start, Claim, RejectBusy, NoDevice, Finish,
         OpenDevice, BeginCase, SkipCase, AgentReplies, AgentFails, Reload, RecordCase, TallyCase,
         FinishCycle, Release, DeleteCaseRows, DeleteRunRow, DeleteCycle, ReportStep,
         LookUpBinding, AppendRead, AppendWrite

\* The record an ended call leaves is well typed and targets no row.
LEMMA EndedCallType ==
    ASSUME NEW x \in CaseRuns
    PROVE  /\ [FreeCall EXCEPT !.ph = "over", !.by = x] \in CallRecords
           /\ [FreeCall EXCEPT !.ph = "over", !.by = x].ph = "over"
           /\ [FreeCall EXCEPT !.ph = "over", !.by = x].by = x
<1>1. <<>> \in Seq(StepResults)
  OBVIOUS
<1> QED
  BY <1>1, CycleAssumption DEF FreeCall, CallRecords, StepStates, RowStates

\* A call that moves on to a well typed record keeps AgentsOK.
LEMMA CallStepType ==
    ASSUME TypeOK, NEW c \in Calls, NEW new \in CallRecords,
           call' = [call EXCEPT ![c] = new], conv' = conv,
           new.by \in CaseRuns, new.ph \in {"bound", "read"} => new.run \in CaseRuns
    PROVE  AgentsOK'
BY DEF TypeOK, AgentsOK

LEMMA AgentsStepType == TypeOK /\ [Next]_vars => AgentsOK'
<1> SUFFICES ASSUME TypeOK, [Next]_vars PROVE AgentsOK'
    OBVIOUS
<1>1. ASSUME NEW r \in Runs, BindRun(r) \/ AgentReplies(r) \/ AgentFails(r) PROVE AgentsOK'
  <2>1. Case(r) \in CaseRuns
    BY <1>1, CaseType DEF BindRun, AgentReplies, AgentFails, Goto, Held
  <2> QED
    BY <1>1, <2>1 DEF TypeOK, AgentsOK, BindRun, AgentReplies, AgentFails
<1>2. ASSUME NEW c \in Calls, NEW x \in CaseRuns, NEW n \in 1..Expected, NEW s \in StepStates,
             ReportStep(c, x, n, s)
      PROVE  AgentsOK'
  <2> DEFINE new == [call[c] EXCEPT !.ph = "resolved", !.by = x, !.no = n,
                                    !.status = s, !.dev = active]
  <2>0. n \in Nat /\ active \in Devices \cup {None} /\ call[c] \in CallRecords
    BY CallType, CycleAssumption DEF TypeOK, BinderOK
  <2>1. new \in CallRecords /\ new.ph = "resolved" /\ new.by = x
    BY <2>0 DEF CallRecords
  <2>2. call' = [call EXCEPT ![c] = new] /\ conv' = conv
    BY <1>2 DEF ReportStep
  <2> HIDE DEF new
  <2> QED
    BY <2>1, <2>2, CallStepType
<1>3. ASSUME NEW c \in Calls, call[c].ph # "free", call' = EndCall(c), conv' = conv PROVE AgentsOK'
  <2>1. call[c].by \in CaseRuns
    BY <1>3 DEF TypeOK, AgentsOK
  <2> QED
    BY <2>1, <1>3, EndedCallType, CallStepType DEF EndCall
<1>4. ASSUME NEW c \in Calls, LookUpBinding(c) PROVE AgentsOK'
  <2> DEFINE bound == IF call[c].dev \in Devices THEN runs[call[c].dev] ELSE None
             new == [call[c] EXCEPT !.ph = "bound", !.run = bound]
  <2>1. CASE bound = None
    BY <2>1, <1>3, <1>4 DEF LookUpBinding
  <2>2. CASE bound # None
    <3>1. bound \in CaseRuns
      BY <2>2 DEF TypeOK, BinderOK
    <3>2. call[c].by \in CaseRuns
      BY <1>4 DEF TypeOK, AgentsOK, LookUpBinding
    <3>3. new \in CallRecords /\ new.by \in CaseRuns /\ new.run \in CaseRuns
      BY <3>1, <3>2, CallType DEF CallRecords
    <3>4. call' = [call EXCEPT ![c] = new] /\ conv' = conv
      BY <2>2, <1>4 DEF LookUpBinding
    <3> HIDE DEF new
    <3> QED
      BY <3>3, <3>4, CallStepType
  <2> QED
    BY <2>1, <2>2
<1>5. ASSUME NEW c \in Calls, AppendRead(c) PROVE AgentsOK'
  <2> DEFINE x == call[c].run
             new == [call[c] EXCEPT !.ph = "read",
                                    !.row = [status |-> crow[x], steps |-> steps[x]]]
  <2>1. CASE ~Exists(crow[x])
    BY <2>1, <1>3, <1>5 DEF AppendRead
  <2>2. CASE Exists(crow[x])
    <3>1. call[c].by \in CaseRuns /\ x \in CaseRuns
      BY <1>5 DEF TypeOK, AgentsOK, AppendRead
    <3>2. crow[x] \in RowStates /\ steps[x] \in Seq(StepResults)
      BY <3>1 DEF TypeOK, RowsOK
    <3>3. new \in CallRecords /\ new.by \in CaseRuns /\ new.run \in CaseRuns
      BY <3>1, <3>2, CallType DEF CallRecords
    <3>4. call' = [call EXCEPT ![c] = new] /\ conv' = conv
      BY <2>2, <1>5 DEF AppendRead
    <3> HIDE DEF new
    <3> QED
      BY <3>3, <3>4, CallStepType
  <2> QED
    BY <2>1, <2>2
<1>6. ASSUME NEW c \in Calls, AppendWrite(c) PROVE AgentsOK'
  BY <1>6, <1>3 DEF AppendWrite
<1>7. CASE Restart
  <2> DEFINE over(c) == [FreeCall EXCEPT !.ph = "over", !.by = call[c].by]
  <2>1. \A c \in Calls : call[c].ph # "free" =>
           over(c) \in CallRecords /\ over(c).ph = "over" /\ over(c).by \in CaseRuns
    BY EndedCallType DEF TypeOK, AgentsOK
  <2>2. /\ call' = [c \in Calls |-> IF call[c].ph = "free" THEN call[c] ELSE over(c)]
        /\ conv' = conv
    BY <1>7 DEF Restart, Swept
  <2> HIDE DEF over
  <2> QED
    BY <2>1, <2>2 DEF TypeOK, AgentsOK
<1>8. CASE UNCHANGED agents
  BY <1>8 DEF TypeOK, AgentsOK, agents
<1> QED
  BY <1>1, <1>2, <1>4, <1>5, <1>6, <1>7, <1>8
     DEF Next, ExecutorStep, AgentEnds, CallStep, vars, Start, Claim, RejectBusy, NoDevice, Finish,
         OpenDevice, BeginCase, SkipCase, SetActive, UnbindRun, Reload, RecordCase, TallyCase,
         FinishCycle, Release, DeleteCaseRows, DeleteRunRow, DeleteCycle, SelectDevice

LEMMA TypeNext == TypeOK /\ [Next]_vars => TypeOK'
<1> SUFFICES ASSUME TypeOK, [Next]_vars PROVE TypeOK'
    OBVIOUS
<1>1. RowsOK' /\ ExecutorOK' /\ BinderOK' /\ AgentsOK'
  BY RowsStep, ExecutorStepType, BinderStepType, AgentsStepType
<1>2. ASSUME NEW r \in Runs, DeleteCaseRows(r) \/ DeleteRunRow(r)
      PROVE  deleting' \subseteq Runs /\ restarts' \in Nat
  BY <1>2 DEF TypeOK, DeleteCaseRows, DeleteRunRow
<1>3. ASSUME Restart PROVE deleting' \subseteq Runs /\ restarts' \in Nat
  <2>1. deleting' = {} /\ restarts' = restarts + 1
    BY <1>3, Zenon DEF Restart, Swept
  <2> QED
    BY <2>1 DEF TypeOK
<1>4. ASSUME UNCHANGED <<deleting, restarts>> PROVE deleting' \subseteq Runs /\ restarts' \in Nat
  BY <1>4 DEF TypeOK
<1>5. deleting' \subseteq Runs /\ restarts' \in Nat
  BY <1>2, <1>3, <1>4
     DEF Next, ExecutorStep, AgentEnds, CallStep, vars, Start, Claim, RejectBusy, NoDevice,
         Finish, OpenDevice, BeginCase, SkipCase, SetActive, BindRun, AgentReplies, AgentFails,
         UnbindRun, Reload, RecordCase, TallyCase, FinishCycle, Release, DeleteCycle,
         SelectDevice, ReportStep, LookUpBinding, AppendRead, AppendWrite
<1> QED
  BY <1>1, <1>5 DEF TypeOK

\* Rows, goroutines, bindings and calls always have their types: in particular
\* a case that is being run is one of the cycle's, and an AppendStep that has
\* been bound has a row to write to.
THEOREM TypeCorrect == Spec => []TypeOK
<1>1. Init => TypeOK
  BY TypeInit
<1>2. TypeOK /\ [Next]_vars => TypeOK'
  BY TypeNext
<1> QED
  BY <1>1, <1>2, PTL DEF Spec

-----------------------------------------------------------------------------
(* A running row has an executor, and a verdict is final. Neither survives *)
(* a step on its own: that TallyCase does not reopen a finished run needs  *)
(* the converse, that an executor at work has not given a verdict yet.     *)

Unfinished == Working \ {"release"}
VerdictInv ==
    \A r \in Runs : /\ run[r] = "running" => pc[r] \in Unfinished
                    /\ pc[r] \in Unfinished => run[r] \in {"running", "gone"}

\* The steps of execute before its verdict: the row keeps its status, or takes
\* it while the executor stays at work.
LEMMA VerdictStep ==
    ASSUME TypeOK, VerdictInv, [Next]_vars
    PROVE  /\ VerdictInv'
           /\ \A r \in Runs : run[r] \in {"passed", "failed"} => run'[r] \in {run[r], "gone"}
<1> DEFINE Final == \A r \in Runs : run[r] \in {"passed", "failed"} => run'[r] \in {run[r], "gone"}
<1> USE DEF TypeOK, RowsOK, ExecutorOK, VerdictInv, Unfinished, Goto, Exists
<1> SUFFICES VerdictInv' /\ Final
    OBVIOUS
<1>1. ASSUME NEW r \in Runs, NEW d \in Devices, Start(r, d) PROVE VerdictInv' /\ Final
  BY <1>1 DEF Start, Working, Held
<1>2. ASSUME NEW r \in Runs, NEW from \in Unfinished, NEW status \in {"passed", "failed"},
             NEW to \in {"release", "done"}, Finish(r, from, status, to)
      PROVE  VerdictInv' /\ Final
  BY <1>2 DEF Finish, UpdateCycleRun, Working, Held
<1>3. ASSUME NEW r \in Runs, RejectBusy(r) \/ NoDevice(r) \/ FinishCycle(r) PROVE VerdictInv' /\ Final
  BY <1>2, <1>3 DEF RejectBusy, NoDevice, FinishCycle, Verdict, Working, Held
<1>4. ASSUME NEW r \in Runs, TallyCase(r) PROVE VerdictInv' /\ Final
  BY <1>4 DEF TallyCase, UpdateCycleRun, Working, Held
<1>5. ASSUME NEW r \in Runs, NEW from \in Unfinished, NEW to \in Unfinished,
             Goto(r, from, to), UNCHANGED run
      PROVE  VerdictInv' /\ Final
  BY <1>5
<1>6. ASSUME NEW r \in Runs,
             \/ Claim(r) \/ OpenDevice(r) \/ BeginCase(r) \/ SkipCase(r) \/ SetActive(r)
             \/ BindRun(r) \/ UnbindRun(r) \/ Reload(r) \/ RecordCase(r)
             \/ AgentReplies(r) \/ AgentFails(r)
      PROVE  VerdictInv' /\ Final
  <2> HIDE DEF TypeOK, RowsOK, ExecutorOK, VerdictInv, Goto
  <2> SUFFICES \E from, to \in Unfinished : Goto(r, from, to) /\ UNCHANGED run
    BY <1>5
  <2>1. CASE Claim(r) \/ OpenDevice(r) \/ BeginCase(r) \/ SetActive(r) \/ BindRun(r)
    BY <2>1 DEF Claim, OpenDevice, BeginCase, SetActive, BindRun, rows, Working, Held
  <2>2. CASE SkipCase(r) \/ AgentReplies(r) \/ AgentFails(r)
    BY <2>2 DEF SkipCase, AgentReplies, AgentFails, rows, Working, Held
  <2>3. CASE UnbindRun(r) \/ Reload(r) \/ RecordCase(r)
    BY <2>3 DEF UnbindRun, Reload, RecordCase, rows, Working, Held
  <2> QED
    BY <1>6, <2>1, <2>2, <2>3
<1>7. ASSUME NEW r \in Runs, Release(r) PROVE VerdictInv' /\ Final
  BY <1>7 DEF Release, rows, Working, Held
<1>8. ASSUME NEW r \in Runs, DeleteRunRow(r) PROVE VerdictInv' /\ Final
  BY <1>8 DEF DeleteRunRow
<1>9. ASSUME NEW c \in Cycles, DeleteCycle(c) PROVE VerdictInv' /\ Final
  BY <1>9 DEF DeleteCycle
<1>10. CASE Restart
  BY <1>10 DEF Restart, Swept, Working, Held
<1>11. CASE UNCHANGED <<run, pc>>
  BY <1>11
<1> QED
  BY <1>1, <1>3, <1>4, <1>6, <1>7, <1>8, <1>9, <1>10, <1>11
     DEF Next, ExecutorStep, AgentEnds, CallStep, vars, rows, DeleteCaseRows, SelectDevice,
         ReportStep, LookUpBinding, AppendRead, AppendWrite

LEMMA VerdictInit == Init => VerdictInv
BY DEF Init, VerdictInv, Unfinished, Working, Held

\* A cycle run that reads running always has an executor that will end it, so a
\* restart or a race can never leave behind the row that makes ListDueCycles
\* skip its cycle for ever.
THEOREM RunningRunsHaveExecutors == Spec => []RunningHasExecutor
<1>1. VerdictInv => RunningHasExecutor
  BY DEF VerdictInv, Unfinished, RunningHasExecutor
<1>2. TypeOK /\ VerdictInv /\ [Next]_vars => VerdictInv'
  BY VerdictStep
<1> QED
  BY <1>1, <1>2, VerdictInit, TypeCorrect, PTL DEF Spec

\* Neither the executor, nor a deleted cycle, nor the startup sweep takes back
\* the verdict of a finished run.
THEOREM VerdictsAreFinal == Spec => VerdictIsFinal
<1>1. TypeOK /\ VerdictInv /\ [Next]_vars =>
        VerdictInv' /\ [\A r \in Runs : run[r] \in {"passed", "failed"} => run'[r] \in {run[r], "gone"}]_vars
  BY VerdictStep
<1> QED
  BY <1>1, VerdictInit, TypeCorrect, PTL DEF Spec, VerdictIsFinal

-----------------------------------------------------------------------------
(* Mutual exclusion. Release is safe because the device it frees has no    *)
(* second holder, UnbindRun because the binding it clears is its own.      *)

Exclusive == \A r, s \in Runs : pc[r] \in Held /\ pc[s] \in Held /\ dev[r] = dev[s] => r = s
RunningSet == running = {dev[r] : r \in {s \in Runs : pc[s] \in Held}}
BindingOwned ==
    \A d \in Devices : runs[d] # None =>
        \E r \in Runs : pc[r] \in {"agent", "unbind"} /\ dev[r] = d /\ runs[d] = Case(r)

\* A step of a holder that keeps the device, and leaves every binding alone,
\* preserves the three facts if it is not between BindRun and UnbindRun.
LEMMA HolderStep ==
    ASSUME TypeOK, Exclusive, RunningSet, BindingOwned, NEW r \in Runs,
           NEW from \in Held \ {"agent", "unbind"}, NEW to \in Held, Goto(r, from, to),
           UNCHANGED <<dev, running, runs>>,
           \A s \in Runs \ {r} : cur'[s] = cur[s]
    PROVE  Exclusive' /\ RunningSet' /\ BindingOwned'
<1> USE DEF TypeOK, ExecutorOK, Goto
<1>1. pc' = [pc EXCEPT ![r] = to] /\ pc \in [Runs -> Pcs] /\ pc[r] = from
  OBVIOUS
<1>2. \A s \in Runs : pc'[s] \in Held <=> pc[s] \in Held
  BY <1>1
<1>3. Exclusive' /\ RunningSet'
  BY <1>2 DEF Exclusive, RunningSet
<1>4. BindingOwned'
  <2> SUFFICES ASSUME NEW d \in Devices, runs'[d] # None
               PROVE  \E s \in Runs : pc'[s] \in {"agent", "unbind"} /\ dev'[s] = d /\ runs'[d] = Case(s)'
    BY DEF BindingOwned
  <2>1. PICK s \in Runs : pc[s] \in {"agent", "unbind"} /\ dev[s] = d /\ runs[d] = Case(s)
    BY DEF BindingOwned
  <2>2. s # r
    BY <2>1, <1>1
  <2> QED
    BY <2>1, <2>2, <1>1 DEF Case
<1> QED
  BY <1>3, <1>4

LEMMA ExclusiveNext ==
    ASSUME TypeOK, Exclusive, RunningSet, BindingOwned, [Next]_vars
    PROVE  Exclusive' /\ RunningSet' /\ BindingOwned'
<1> DEFINE Kept == Exclusive' /\ RunningSet' /\ BindingOwned'
<1>1. ASSUME UNCHANGED <<pc, dev, cur, running, runs>> PROVE Kept
  BY <1>1 DEF Exclusive, RunningSet, BindingOwned, Case
<1>2. ASSUME NEW r \in Runs, NEW from \in {"idle", "claim", "busy"}, NEW to \in {"claim", "busy", "done"},
             Goto(r, from, to), UNCHANGED <<cur, running, runs>>,
             \A s \in Runs \ {r} : dev'[s] = dev[s]
      PROVE  Kept
  <2>1. pc' = [pc EXCEPT ![r] = to] /\ pc \in [Runs -> Pcs] /\ pc[r] = from
    BY <1>2 DEF Goto, TypeOK, ExecutorOK
  <2>2. \A s \in Runs : /\ pc'[s] \in Held <=> pc[s] \in Held
                        /\ pc[s] \in Held => dev'[s] = dev[s]
                        /\ pc[s] \in {"agent", "unbind"} => pc'[s] = pc[s] /\ dev'[s] = dev[s]
    BY <2>1, <1>2 DEF Held
  <2>3. Exclusive' /\ RunningSet'
    BY <2>2, <1>2 DEF Exclusive, RunningSet
  <2>4. BindingOwned'
    BY <2>2, <1>2 DEF BindingOwned, Case
  <2> QED
    BY <2>3, <2>4
<1>3. ASSUME NEW r \in Runs, NEW d \in Devices, Start(r, d) PROVE Kept
  <2>1. \A s \in Runs \ {r} : dev'[s] = dev[s]
    BY <1>3 DEF Start, TypeOK, ExecutorOK
  <2> QED
    BY <1>2, <1>3, <2>1 DEF Start, binder
<1>4. ASSUME NEW r \in Runs, Claim(r) PROVE Kept
  <2>1. CASE dev[r] \in running
    BY <1>2, <1>4, <2>1 DEF Claim, local, binder
  <2>2. CASE dev[r] \notin running
    <3>1. pc' = [pc EXCEPT ![r] = "open"] /\ pc \in [Runs -> Pcs] /\ pc[r] = "claim"
      BY <1>4, <2>2 DEF Claim, Goto, TypeOK, ExecutorOK
    <3>2. \A s \in Runs : pc'[s] \in Held <=> pc[s] \in Held \/ s = r
      BY <3>1 DEF Held
    <3>3. UNCHANGED <<dev, cur, runs>> /\ running' = running \cup {dev[r]}
      BY <1>4 DEF Claim, local, binder
    <3>4. \A s \in Runs : pc[s] \in Held => dev[s] # dev[r]
      BY <2>2 DEF RunningSet
    <3>5. Exclusive'
      BY <3>2, <3>3, <3>4 DEF Exclusive
    <3>6. RunningSet'
      BY <3>2, <3>3 DEF RunningSet
    <3>7. BindingOwned'
      BY <3>1, <3>3 DEF BindingOwned, Case
    <3> QED
      BY <3>5, <3>6, <3>7
  <2> QED
    BY <2>1, <2>2
<1>5. ASSUME NEW r \in Runs, RejectBusy(r) PROVE Kept
  BY <1>2, <1>5 DEF RejectBusy, Finish, local, binder
<1>6. ASSUME NEW r \in Runs, NoDevice(r) \/ FinishCycle(r) \/ OpenDevice(r) \/ BeginCase(r)
                \/ SkipCase(r) \/ SetActive(r) \/ Reload(r) \/ RecordCase(r)
      PROVE  Kept
  <2>1. /\ \E from \in Held \ {"agent", "unbind"}, to \in Held : Goto(r, from, to)
        /\ UNCHANGED <<dev, cur, running, runs>>
    BY <1>6 DEF NoDevice, FinishCycle, Finish, OpenDevice, BeginCase, SkipCase, SetActive, Reload,
       RecordCase, local, binder, Held
  <2> QED
    BY <2>1, HolderStep
<1>7. ASSUME NEW r \in Runs, TallyCase(r) PROVE Kept
  <2>1. Goto(r, "tally", "next") /\ UNCHANGED <<dev, running, runs>>
    BY <1>7 DEF TallyCase, binder
  <2>2. \A s \in Runs \ {r} : cur'[s] = cur[s]
    BY <1>7 DEF TallyCase, TypeOK, ExecutorOK
  <2>3. "tally" \in Held \ {"agent", "unbind"} /\ "next" \in Held
    BY DEF Held
  <2> QED
    BY <2>1, <2>2, <2>3, HolderStep
<1>8. ASSUME NEW r \in Runs, BindRun(r) \/ AgentReplies(r) \/ AgentFails(r) \/ UnbindRun(r) PROVE Kept
  <2>1. /\ pc \in [Runs -> Pcs] /\ runs \in [Devices -> CaseRuns \cup {None}]
        /\ UNCHANGED <<dev, cur, running>>
    BY <1>8 DEF BindRun, AgentReplies, AgentFails, UnbindRun, local, TypeOK, ExecutorOK, BinderOK
  <2>2. PICK to \in {"agent", "unbind", "reload"} : pc' = [pc EXCEPT ![r] = to]
    BY <1>8 DEF BindRun, AgentReplies, AgentFails, UnbindRun, Goto
  <2>3. pc[r] \in Held /\ pc'[r] \in Held
    BY <1>8, <2>1, <2>2 DEF BindRun, AgentReplies, AgentFails, UnbindRun, Goto, Held
  <2>4. \A s \in Runs : pc'[s] \in Held <=> pc[s] \in Held
    BY <2>1, <2>2, <2>3
  <2>5. Exclusive' /\ RunningSet'
    BY <2>1, <2>4 DEF Exclusive, RunningSet
  <2>6. BindingOwned'
    <3>1. CASE BindRun(r)
      BY <3>1, <2>1 DEF BindRun, Goto, BindingOwned, Case
    <3>2. CASE AgentReplies(r) \/ AgentFails(r)
      BY <3>2, <2>1 DEF AgentReplies, AgentFails, Goto, BindingOwned, Case, binder
    <3>3. CASE UnbindRun(r)
      <4>1. /\ pc' = [pc EXCEPT ![r] = "reload"]
            /\ runs' = [runs EXCEPT ![dev[r]] = None]
        BY <3>3 DEF UnbindRun, Goto
      <4> SUFFICES ASSUME NEW d \in Devices, runs'[d] # None
                   PROVE  \E s \in Runs : /\ pc'[s] \in {"agent", "unbind"} /\ dev'[s] = d
                                          /\ runs'[d] = Case(s)'
        BY DEF BindingOwned
      <4>2. d # dev[r] /\ runs[d] # None /\ runs'[d] = runs[d]
        BY <4>1, <2>1
      <4>3. PICK s \in Runs : pc[s] \in {"agent", "unbind"} /\ dev[s] = d /\ runs[d] = Case(s)
        BY <4>2 DEF BindingOwned
      <4> QED
        BY <4>1, <4>2, <4>3, <2>1 DEF Case
    <3> QED
      BY <1>8, <3>1, <3>2, <3>3
  <2> QED
    BY <2>5, <2>6
<1>9. ASSUME NEW r \in Runs, Release(r) PROVE Kept
  <2>1. /\ pc' = [pc EXCEPT ![r] = "done"] /\ pc \in [Runs -> Pcs] /\ pc[r] = "release"
        /\ UNCHANGED <<dev, cur, runs>> /\ running' = running \ {dev[r]}
    BY <1>9 DEF Release, Goto, local, binder, TypeOK, ExecutorOK
  <2>2. \A s \in Runs : pc'[s] \in Held <=> pc[s] \in Held /\ s # r
    BY <2>1 DEF Held
  <2>3. \A s \in Runs : pc[s] \in Held /\ s # r => dev[s] # dev[r]
    BY <2>1 DEF Exclusive, Held
  <2>4. Exclusive' /\ RunningSet'
    BY <2>1, <2>2, <2>3 DEF Exclusive, RunningSet
  <2>5. BindingOwned'
    BY <2>1 DEF BindingOwned, Case
  <2> QED
    BY <2>4, <2>5
<1>10. ASSUME Restart PROVE Kept
  <2>1. \A r \in Runs : pc'[r] \notin Held
    BY <1>10 DEF Restart, Swept, Working, Held
  <2> QED
    BY <1>10, <2>1 DEF Restart, Swept, Exclusive, RunningSet, BindingOwned
<1> QED
  BY <1>1, <1>3, <1>4, <1>5, <1>6, <1>7, <1>8, <1>9, <1>10
     DEF Next, ExecutorStep, AgentEnds, CallStep, vars, local, binder, DeleteCaseRows,
         DeleteRunRow, DeleteCycle, SelectDevice, ReportStep, LookUpBinding, AppendRead, AppendWrite

\* execute serializes cycle runs per device: at most one executor uses a device,
\* running is exactly the set of devices in use, and report_step_result finds
\* under a device only the case run its own executor is waiting for.
THEOREM DevicesAreExclusive == Spec => []DeviceExclusive
<1>1. Init => Exclusive /\ RunningSet /\ BindingOwned
  BY DEF Init, Exclusive, RunningSet, BindingOwned, Held
<1>2. TypeOK /\ (Exclusive /\ RunningSet /\ BindingOwned) /\ [Next]_vars
        => (Exclusive /\ RunningSet /\ BindingOwned)'
  BY ExclusiveNext
<1>3. Exclusive /\ RunningSet /\ BindingOwned => DeviceExclusive
  BY DEF Exclusive, RunningSet, BindingOwned, DeviceExclusive
<1> QED
  BY <1>1, <1>2, <1>3, TypeCorrect, PTL DEF Spec

-----------------------------------------------------------------------------
(* Whose evidence a case row holds. With several devices, with a           *)
(* conversation that outlives its request or with one that outlives the    *)
(* process, a report can land in another case's row (run CycleEvidence     *)
(* shows the first). Without these it cannot: at any time at most one      *)
(* conversation is open, and it is the one its device is bound to.         *)

Solo ==
    /\ \A d, e \in Devices : d = e
    /\ "timeout" \notin Faults
    /\ MaxRestarts = 0

CaseSteps == {"bind", "ready", "agent", "unbind", "reload", "record"}
Before == {"idle", "claim", "busy", "open", "next"}
Going == {"resolved", "bound", "read"}
At(x) == cur[x[1]] = x[2]

\* A row reads running, unless it was deleted, exactly while runCase is at its
\* case; the rows of the cases ahead do not exist yet.
RowInv ==
    \A x \in CaseRuns :
        /\ crow[x] = "running" => At(x) /\ pc[x[1]] \in CaseSteps
        /\ At(x) /\ pc[x[1]] \in CaseSteps => crow[x] \in {"running", "gone"}
        /\ x[2] > cur[x[1]] \/ (At(x) /\ pc[x[1]] \in Before) => crow[x] = "none"
        /\ crow[x] = "none" => steps[x] = <<>>

\* An open conversation is the one its executor waits for, and the device is
\* bound to its case.
ConvInv ==
    /\ \A x \in CaseRuns : conv[x] = "open" => pc[x[1]] = "agent" /\ At(x)
    /\ \A r \in Runs : pc[r] = "agent" => runs[dev[r]] = Case(r)
    /\ \A r \in Runs : pc[r] \in {"ready", "agent"} => active \in Devices

\* A call that is going on belongs to an open conversation, and has been bound
\* to the case of that conversation and no other.
CallOwned(c) ==
    /\ call[c].ph = "free" => call[c].by = None
    /\ call[c].ph # "free" => crow[call[c].by] # "none"
    /\ call[c].ph \in Going => conv[call[c].by] = "open"
    /\ call[c].ph = "resolved" => call[c].dev \in Devices
    /\ call[c].ph \in {"bound", "read"} => call[c].run = call[c].by
    /\ call[c].ph = "read" =>
          /\ call[c].row.status = "running"
          /\ \A i \in DOMAIN call[c].row.steps : call[c].row.steps[i].by = call[c].by
CallInv == \A c \in Calls : CallOwned(c)

SnapInv ==
    \A r \in Runs : /\ pc[r] # "record" => snap[r] = <<>>
                    /\ \A i \in DOMAIN snap[r] : snap[r][i].by = Case(r)

SoloInv == TypeOK /\ Exclusive /\ RowInv /\ ConvInv /\ CallInv /\ EvidenceIsOwn /\ SnapInv

\* A case run is a run and an index, and Case(r) the one that r is at.
LEMMA CaseRunPair ==
    ASSUME NEW x \in CaseRuns
    PROVE  x[1] \in Runs /\ x[2] \in 1..NumCases /\ x[2] \in Nat /\ x = <<x[1], x[2]>>
BY CycleAssumption DEF CaseRuns

LEMMA CaseAt ==
    ASSUME NEW r \in Runs, NEW x \in CaseRuns
    PROVE  x = Case(r) <=> x[1] = r /\ At(x)
BY CaseRunPair DEF Case, At

\* In the window no restart happens.
LEMMA NoRestart == ASSUME TypeOK, Solo PROVE ~Restart
<1>1. MaxRestarts = 0 /\ restarts \in Nat
  BY DEF Solo, TypeOK
<1>2. ~(restarts < MaxRestarts)
  BY <1>1
<1> QED
  BY <1>2 DEF Restart

LEMMA SoloInit == Init => SoloInv
<1> SUFFICES ASSUME Init PROVE SoloInv
    OBVIOUS
<1>1. TypeOK
  BY TypeInit
<1>2. Exclusive
  BY DEF Init, Exclusive, Held
<1>3. RowInv /\ EvidenceIsOwn
  BY CaseRunPair DEF Init, RowInv, At, Before, CaseSteps, EvidenceIsOwn
<1>4. ConvInv
  BY CaseRunPair DEF Init, ConvInv
<1>5. CallInv
  BY DEF Init, CallInv, CallOwned, FreeCall, Going
<1>6. SnapInv
  BY DEF Init, SnapInv
<1> QED
  BY <1>1, <1>2, <1>3, <1>4, <1>5, <1>6 DEF SoloInv

\* A step of execute that writes no case row keeps RowInv if it neither enters
\* nor leaves runCase and does not go back.
LEMMA RowMove ==
    ASSUME TypeOK, RowInv, NEW r \in Runs, NEW from, NEW to, Goto(r, from, to),
           from \in CaseSteps <=> to \in CaseSteps, to \in Before => from \in Before,
           UNCHANGED <<crow, steps, cur>>
    PROVE  RowInv'
<1>1. pc' = [pc EXCEPT ![r] = to] /\ pc \in [Runs -> Pcs] /\ pc[r] = from
  BY DEF Goto, TypeOK, ExecutorOK
<1> SUFFICES ASSUME NEW x \in CaseRuns
             PROVE  /\ crow[x] = "running" => At(x) /\ pc'[x[1]] \in CaseSteps
                    /\ At(x) /\ pc'[x[1]] \in CaseSteps => crow[x] \in {"running", "gone"}
                    /\ x[2] > cur[x[1]] \/ (At(x) /\ pc'[x[1]] \in Before) => crow[x] = "none"
                    /\ crow[x] = "none" => steps[x] = <<>>
  BY DEF RowInv, At
<1>2. x[1] \in Runs
  BY CaseRunPair
<1>3. /\ pc'[x[1]] \in CaseSteps <=> pc[x[1]] \in CaseSteps
      /\ pc'[x[1]] \in Before => pc[x[1]] \in Before
  BY <1>1, <1>2
<1> QED
  BY <1>3 DEF RowInv

LEMMA RowNext ==
    ASSUME SoloInv, Solo, [Next]_vars
    PROVE  RowInv'
<1> USE DEF SoloInv
<1>0. /\ pc \in [Runs -> Pcs] /\ cur \in [Runs -> 1..NumCases + 1]
      /\ crow \in [CaseRuns -> RowStates] /\ steps \in [CaseRuns -> Seq(StepResults)]
  BY DEF TypeOK, ExecutorOK, RowsOK
<1>1. ASSUME NEW r \in Runs,
             \/ \E d \in Devices : Start(r, d)
             \/ Claim(r) \/ RejectBusy(r) \/ NoDevice(r) \/ OpenDevice(r) \/ FinishCycle(r)
             \/ Release(r)
      PROVE  RowInv'
  <2>1. /\ UNCHANGED <<crow, steps, cur>>
        /\ \E from, to \in Pcs : /\ Goto(r, from, to) /\ from \notin CaseSteps /\ to \notin CaseSteps
                                 /\ to \in Before => from \in Before
    <3>1. CASE (\E d \in Devices : Start(r, d)) \/ Claim(r) \/ OpenDevice(r) \/ Release(r)
      BY <3>1 DEF Start, Claim, OpenDevice, Release, rows, local, Pcs, Working, Held, CaseSteps, Before
    <3>2. CASE RejectBusy(r) \/ NoDevice(r) \/ FinishCycle(r)
      BY <3>2 DEF RejectBusy, NoDevice, FinishCycle, Finish, local, Pcs, Working, Held, CaseSteps, Before
    <3> QED
      BY <1>1, <3>1, <3>2
  <2> QED
    BY <2>1, RowMove
<1>2. ASSUME NEW r \in Runs,
             \/ SkipCase(r) \/ SetActive(r) \/ BindRun(r) \/ AgentReplies(r) \/ AgentFails(r)
             \/ UnbindRun(r) \/ Reload(r)
      PROVE  RowInv'
  <2>1. /\ UNCHANGED <<crow, steps, cur>>
        /\ \E from, to \in Pcs : /\ Goto(r, from, to) /\ to \notin Before
                                 /\ from \in CaseSteps <=> to \in CaseSteps
    <3>1. CASE SkipCase(r) \/ SetActive(r) \/ BindRun(r)
      BY <3>1 DEF SkipCase, SetActive, BindRun, rows, local, Pcs, Working, Held, CaseSteps, Before
    <3>2. CASE AgentReplies(r) \/ AgentFails(r)
      BY <3>2 DEF AgentReplies, AgentFails, rows, local, Pcs, Working, Held, CaseSteps, Before
    <3>3. CASE UnbindRun(r) \/ Reload(r)
      BY <3>3 DEF UnbindRun, Reload, rows, local, Pcs, Working, Held, CaseSteps, Before
    <3> QED
      BY <1>2, <3>1, <3>2, <3>3
  <2> QED
    BY <2>1, RowMove
<1>3. ASSUME NEW r \in Runs, BeginCase(r) PROVE RowInv'
  <2>1. /\ pc[r] = "next" /\ pc' = [pc EXCEPT ![r] = "bind"]
        /\ crow' = [crow EXCEPT ![Case(r)] = "running"] /\ UNCHANGED <<cur, steps>>
        /\ Case(r) \in CaseRuns
    BY <1>3, CaseType DEF BeginCase, Goto, local
  <2> SUFFICES ASSUME NEW x \in CaseRuns
               PROVE  /\ crow'[x] = "running" => At(x) /\ pc'[x[1]] \in CaseSteps
                      /\ At(x) /\ pc'[x[1]] \in CaseSteps => crow'[x] \in {"running", "gone"}
                      /\ x[2] > cur[x[1]] \/ (At(x) /\ pc'[x[1]] \in Before) => crow'[x] = "none"
                      /\ crow'[x] = "none" => steps[x] = <<>>
    BY <2>1 DEF RowInv, At
  <2>2. x[1] \in Runs /\ x[2] \in Nat /\ (x = Case(r) <=> x[1] = r /\ At(x))
    BY CaseRunPair, CaseAt
  <2>3. CASE x = Case(r)
    BY <2>1, <2>2, <2>3, <1>0 DEF CaseSteps, Before, At
  <2>4. CASE x # Case(r)
    <3>1. crow'[x] = crow[x] /\ (x[1] = r => ~At(x)) /\ (x[1] # r => pc'[x[1]] = pc[x[1]])
      BY <2>1, <2>2, <2>4, <1>0
    <3> QED
      BY <3>1, <2>1, <2>2, <1>0 DEF RowInv, CaseSteps, Before
  <2> QED
    BY <2>3, <2>4
<1>4. ASSUME NEW r \in Runs, RecordCase(r) PROVE RowInv'
  <2>1. PICK status \in {"passed", "failed"} : UpdateTestRun(Case(r), status, snap[r])
    BY <1>4 DEF RecordCase
  <2>2. /\ pc[r] = "record" /\ pc' = [pc EXCEPT ![r] = "tally"] /\ UNCHANGED cur
        /\ Case(r) \in CaseRuns
    BY <1>4, CaseType DEF RecordCase, Goto, local, Held
  <2> SUFFICES ASSUME NEW x \in CaseRuns
               PROVE  /\ crow'[x] = "running" => At(x) /\ pc'[x[1]] \in CaseSteps
                      /\ At(x) /\ pc'[x[1]] \in CaseSteps => crow'[x] \in {"running", "gone"}
                      /\ x[2] > cur[x[1]] \/ (At(x) /\ pc'[x[1]] \in Before) => crow'[x] = "none"
                      /\ crow'[x] = "none" => steps'[x] = <<>>
    BY <2>2 DEF RowInv, At
  <2>3. x[1] \in Runs /\ x[2] \in Nat /\ (x = Case(r) <=> x[1] = r /\ At(x))
    BY CaseRunPair, CaseAt
  <2>4. CASE x = Case(r)
    <3>1. crow[x] \in {"running", "gone"} /\ pc'[x[1]] = "tally" /\ ~(x[2] > cur[x[1]])
      BY <2>2, <2>3, <2>4, <1>0 DEF RowInv, CaseSteps, At
    <3>2. crow'[x] \in {"passed", "failed", "gone"}
      BY <3>1, <2>1, <2>4, <1>0 DEF UpdateTestRun, Exists
    <3> QED
      BY <3>1, <3>2, <2>3 DEF CaseSteps, Before
  <2>5. CASE x # Case(r)
    <3>1. /\ crow'[x] = crow[x] /\ steps'[x] = steps[x] /\ (x[1] = r => ~At(x))
          /\ (x[1] # r => pc'[x[1]] = pc[x[1]])
      BY <2>1, <2>2, <2>3, <2>5, <1>0 DEF UpdateTestRun
    <3> QED
      BY <3>1, <2>2, <2>3, <1>0 DEF RowInv, CaseSteps, Before
  <2> QED
    BY <2>4, <2>5
<1>5. ASSUME NEW r \in Runs, TallyCase(r) PROVE RowInv'
  <2>1. /\ pc[r] = "tally" /\ pc' = [pc EXCEPT ![r] = "next"] /\ UNCHANGED <<crow, steps>>
        /\ cur' = [cur EXCEPT ![r] = @ + 1]
    BY <1>5 DEF TallyCase, Goto
  <2> SUFFICES ASSUME NEW x \in CaseRuns
               PROVE  /\ crow[x] = "running" => cur'[x[1]] = x[2] /\ pc'[x[1]] \in CaseSteps
                      /\ cur'[x[1]] = x[2] /\ pc'[x[1]] \in CaseSteps => crow[x] \in {"running", "gone"}
                      /\ x[2] > cur'[x[1]] \/ (cur'[x[1]] = x[2] /\ pc'[x[1]] \in Before) => crow[x] = "none"
                      /\ crow[x] = "none" => steps[x] = <<>>
    BY <2>1 DEF RowInv, At
  <2>2. x[1] \in Runs /\ x[2] \in Nat /\ cur[x[1]] \in Nat
    BY CaseRunPair, <1>0
  <2>3. CASE x[1] = r
    <3>1. pc[x[1]] = "tally" /\ pc'[x[1]] = "next" /\ cur'[x[1]] = cur[x[1]] + 1
      BY <2>1, <2>3, <1>0
    <3>2. crow[x] # "running" /\ (x[2] > cur[x[1]] => crow[x] = "none") /\ (crow[x] = "none" => steps[x] = <<>>)
      BY <3>1 DEF RowInv, CaseSteps
    <3> QED
      BY <3>1, <3>2, <2>2 DEF CaseSteps
  <2>4. CASE x[1] # r
    BY <2>1, <2>2, <2>4, <1>0 DEF RowInv, At
  <2> QED
    BY <2>3, <2>4
<1>6. ASSUME NEW r \in Runs, DeleteCaseRows(r) PROVE RowInv'
  BY <1>6, CaseRunPair DEF RowInv, DeleteCaseRows, local, At, Exists, Before
<1>7. ASSUME NEW c \in Calls, AppendWrite(c) PROVE RowInv'
  <2>1. /\ call[c].by \in CaseRuns /\ call[c].run = call[c].by
        /\ call[c].row.status = "running" /\ conv[call[c].by] = "open"
    BY <1>7 DEF AppendWrite, CallInv, CallOwned, TypeOK, AgentsOK, Going
  <2>2. PICK ss : UpdateTestRun(call[c].by, "running", ss) /\ UNCHANGED <<pc, cur>>
    BY <2>1, <1>7 DEF AppendWrite, local
  <2>3. pc[call[c].by[1]] = "agent" /\ At(call[c].by)
    BY <2>1 DEF ConvInv
  <2>4. crow[call[c].by] \in {"running", "gone"}
    BY <2>1, <2>3 DEF RowInv, CaseSteps
  <2>5. crow' = crow /\ \A x \in CaseRuns : crow[x] = "none" => steps'[x] = steps[x]
    BY <2>1, <2>2, <2>4, <1>0 DEF UpdateTestRun, Exists
  <2> QED
    BY <2>2, <2>5 DEF RowInv, At
<1>8. CASE UNCHANGED <<pc, cur, crow, steps>>
  BY <1>8 DEF RowInv, At
<1> QED
  BY <1>1, <1>2, <1>3, <1>4, <1>5, <1>6, <1>7, <1>8, NoRestart
     DEF Next, ExecutorStep, AgentEnds, CallStep, vars, rows, local, DeleteRunRow, DeleteCycle,
         SelectDevice, ReportStep, LookUpBinding, AppendRead

\* With one device, at most one executor is at work.
LEMMA OneHolder ==
    ASSUME TypeOK, Exclusive, Solo, NEW r \in Runs, NEW s \in Runs, pc[r] \in Held, pc[s] \in Held
    PROVE  r = s
<1>1. dev[r] \in Devices /\ dev[s] \in Devices
  BY DEF TypeOK, ExecutorOK, Held
<1> QED
  BY <1>1 DEF Solo, Exclusive

LEMMA ConvNext ==
    ASSUME SoloInv, Solo, [Next]_vars
    PROVE  ConvInv'
<1> USE DEF SoloInv
<1>0. /\ pc \in [Runs -> Pcs] /\ cur \in [Runs -> 1..NumCases + 1]
      /\ conv \in [CaseRuns -> {"none", "open", "over"}] /\ runs \in [Devices -> CaseRuns \cup {None}]
      /\ \A x \in CaseRuns : x[1] \in Runs
  BY CaseRunPair DEF TypeOK, ExecutorOK, BinderOK, AgentsOK
<1>1. ASSUME NEW r \in Runs, NEW from \in Pcs \ {"agent"}, NEW to \in Pcs \ {"ready", "agent"},
             Goto(r, from, to), UNCHANGED <<conv, runs, active>>,
             \A s \in Runs \ {r} : cur'[s] = cur[s] /\ dev'[s] = dev[s]
      PROVE  ConvInv'
  <2>1. pc[r] = from /\ pc' = [pc EXCEPT ![r] = to]
    BY <1>1 DEF Goto
  <2>2. \A s \in Runs : /\ pc'[s] \in {"ready", "agent"} => s # r /\ pc'[s] = pc[s]
                        /\ pc[s] = "agent" => s # r /\ pc'[s] = pc[s]
    BY <2>1, <1>1, <1>0
  <2>3. \A x \in CaseRuns : conv'[x] = "open" => pc'[x[1]] = "agent" /\ At(x)'
    BY <2>2, <1>1, <1>0 DEF ConvInv, At
  <2>4. \A s \in Runs : pc'[s] = "agent" => runs'[dev'[s]] = Case(s)'
    BY <2>2, <1>1, <1>0 DEF ConvInv, Case
  <2>5. \A s \in Runs : pc'[s] \in {"ready", "agent"} => active' \in Devices
    BY <2>2, <1>1, <1>0 DEF ConvInv
  <2> QED
    BY <2>3, <2>4, <2>5 DEF ConvInv
<1>2. ASSUME NEW r \in Runs,
             \/ \E d \in Devices : Start(r, d)
             \/ Claim(r) \/ RejectBusy(r) \/ NoDevice(r) \/ OpenDevice(r) \/ FinishCycle(r)
             \/ Release(r) \/ BeginCase(r) \/ SkipCase(r) \/ Reload(r) \/ RecordCase(r) \/ TallyCase(r)
      PROVE  ConvInv'
  <2> SUFFICES /\ \E from \in Pcs \ {"agent"}, to \in Pcs \ {"ready", "agent"} : Goto(r, from, to)
               /\ UNCHANGED <<conv, runs, active>>
               /\ \A s \in Runs \ {r} : cur'[s] = cur[s] /\ dev'[s] = dev[s]
    BY <1>1
  <2>1. CASE \E d \in Devices : Start(r, d)
    BY <2>1 DEF Start, binder, agents, Pcs, Working, Held, TypeOK, ExecutorOK
  <2>2. CASE Claim(r) \/ OpenDevice(r) \/ Release(r)
    BY <2>2 DEF Claim, OpenDevice, Release, binder, agents, local, Pcs, Working, Held
  <2>3. CASE RejectBusy(r) \/ NoDevice(r) \/ FinishCycle(r)
    BY <2>3 DEF RejectBusy, NoDevice, FinishCycle, Finish, binder, agents, local, Pcs, Working, Held
  <2>4. CASE BeginCase(r) \/ SkipCase(r) \/ Reload(r) \/ RecordCase(r)
    BY <2>4 DEF BeginCase, SkipCase, Reload, RecordCase, binder, agents, local, Pcs, Working, Held
  <2>5. CASE TallyCase(r)
    BY <2>5 DEF TallyCase, binder, agents, Pcs, Working, Held, TypeOK, ExecutorOK
  <2> QED
    BY <1>2, <2>1, <2>2, <2>3, <2>4, <2>5
<1>3. ASSUME NEW r \in Runs, SetActive(r) PROVE ConvInv'
  <2>1. /\ pc[r] = "bind" /\ pc' = [pc EXCEPT ![r] = "ready"] /\ active' = dev[r]
        /\ UNCHANGED <<conv, runs, cur, dev>>
    BY <1>3 DEF SetActive, Goto, agents, local
  <2>2. dev[r] \in Devices
    BY <2>1 DEF TypeOK, ExecutorOK
  <2> QED
    BY <2>1, <2>2, <1>0 DEF ConvInv, Case, At
<1>4. ASSUME NEW r \in Runs, BindRun(r) PROVE ConvInv'
  <2>1. /\ pc[r] = "ready" /\ pc' = [pc EXCEPT ![r] = "agent"] /\ UNCHANGED <<active, cur, dev>>
        /\ runs' = [runs EXCEPT ![dev[r]] = Case(r)] /\ conv' = [conv EXCEPT ![Case(r)] = "open"]
    BY <1>4 DEF BindRun, Goto, local
  <2>2. dev[r] \in Devices /\ Case(r) \in CaseRuns
    BY <2>1, CaseType DEF Held
  <2>3. \A s \in Runs : pc'[s] = "agent" => s = r
    BY <2>1, <1>0, OneHolder DEF Held
  <2>4. ASSUME NEW x \in CaseRuns, conv'[x] = "open" PROVE pc'[x[1]] = "agent" /\ At(x)
    <3>1. CASE x = Case(r)
      BY <3>1, <2>1, <1>0, CaseAt
    <3>2. CASE x # Case(r)
      BY <3>2, <2>4, <2>1, <1>0 DEF ConvInv
    <3> QED
      BY <3>1, <3>2
  <2>5. runs'[dev[r]] = Case(r) /\ active \in Devices
    BY <2>1, <2>2, <1>0 DEF ConvInv
  <2>6. \A x \in CaseRuns : conv'[x] = "open" => pc'[x[1]] = "agent" /\ At(x)'
    BY <2>4, <2>1 DEF At
  <2>7. \A s \in Runs : pc'[s] = "agent" => runs'[dev'[s]] = Case(s)'
    BY <2>5, <2>3, <2>1 DEF Case
  <2> QED
    BY <2>5, <2>6, <2>7, <2>1 DEF ConvInv
<1>5. ASSUME NEW r \in Runs, AgentReplies(r) \/ AgentFails(r) PROVE ConvInv'
  <2>1. /\ pc[r] = "agent" /\ pc' = [pc EXCEPT ![r] = "unbind"]
        /\ conv' = [conv EXCEPT ![Case(r)] = "over"]
        /\ UNCHANGED <<active, runs, cur, dev>>
    BY <1>5 DEF AgentReplies, AgentFails, Solo, Goto, binder
  <2>2. \A s \in Runs : pc'[s] \in {"ready", "agent"} => s # r /\ pc'[s] = pc[s]
    BY <2>1, <1>0
  <2>3. ASSUME NEW x \in CaseRuns, conv'[x] = "open" PROVE pc'[x[1]] = "agent" /\ At(x)
    <3>1. x # Case(r) /\ conv[x] = "open"
      BY <2>1, <2>3, <1>0
    <3>2. pc[x[1]] = "agent" /\ At(x)
      BY <3>1 DEF ConvInv
    <3>3. x[1] # r
      BY <3>1, <3>2, CaseAt
    <3> QED
      BY <3>2, <3>3, <2>1, <1>0
  <2>4. \A x \in CaseRuns : conv'[x] = "open" => pc'[x[1]] = "agent" /\ At(x)'
    BY <2>3, <2>1 DEF At
  <2> QED
    BY <2>1, <2>2, <2>4 DEF ConvInv, Case
<1>6. ASSUME NEW r \in Runs, UnbindRun(r) PROVE ConvInv'
  <2>1. /\ pc[r] = "unbind" /\ pc' = [pc EXCEPT ![r] = "reload"]
        /\ UNCHANGED <<active, conv, cur, dev>>
    BY <1>6 DEF UnbindRun, Goto, agents, local
  <2>2. \A s \in Runs : pc[s] # "agent" /\ pc'[s] # "agent"
    BY <2>1, <1>0, OneHolder DEF Held
  <2>3. \A s \in Runs : pc'[s] = "ready" => pc[s] = "ready"
    BY <2>1, <1>0
  <2> QED
    BY <2>1, <2>2, <2>3, <1>0 DEF ConvInv
<1>7. ASSUME NEW d \in Devices, SelectDevice(d) PROVE ConvInv'
  BY <1>7 DEF SelectDevice, ConvInv, At, Case, agents, local
<1>8. CASE UNCHANGED <<pc, dev, cur, runs, active, conv>>
  BY <1>8 DEF ConvInv, At, Case
<1> QED
  BY <1>2, <1>3, <1>4, <1>5, <1>6, <1>7, <1>8, NoRestart
     DEF Next, ExecutorStep, AgentEnds, CallStep, vars, rows, local, binder, agents,
         DeleteCaseRows, DeleteRunRow, DeleteCycle, ReportStep, LookUpBinding, AppendRead, AppendWrite

\* Where nothing happens to the calls, it is enough that a conversation with a
\* call going on stays open and that no row vanishes without a trace.
LEMMA CallsKept ==
    ASSUME TypeOK, CallInv, call' = call,
           \A c \in Calls : call[c].ph \in Going => conv'[call[c].by] = conv[call[c].by],
           \A x \in CaseRuns : crow[x] # "none" => crow'[x] # "none"
    PROVE  CallInv'
<1> SUFFICES ASSUME NEW c \in Calls PROVE CallOwned(c)'
  BY DEF CallInv
<1>1. CallOwned(c) /\ (call[c].ph # "free" => call[c].by \in CaseRuns)
  BY DEF CallInv, TypeOK, AgentsOK
<1> QED
  BY <1>1 DEF CallOwned

\* One call moves on, the others stay as they are.
LEMMA CallMoves ==
    ASSUME TypeOK, CallInv, NEW c \in Calls, NEW new, call' = [call EXCEPT ![c] = new],
           conv' = conv, \A x \in CaseRuns : crow[x] # "none" => crow'[x] # "none",
           CallOwned(c)'
    PROVE  CallInv'
<1> SUFFICES ASSUME NEW b \in Calls PROVE CallOwned(b)'
  BY DEF CallInv
<1>1. CallOwned(b) /\ (call[b].ph # "free" => call[b].by \in CaseRuns)
  BY DEF CallInv, TypeOK, AgentsOK
<1>2. b # c => call'[b] = call[b]
  BY DEF TypeOK, AgentsOK
<1> QED
  BY <1>1, <1>2 DEF CallOwned

\* Of a row that exists, nothing but its own executor's or its own conversation's
\* updates and a delete change the status: none of them unmakes it.
LEMMA RowsRemain ==
    ASSUME SoloInv, Solo, [Next]_vars
    PROVE  \A x \in CaseRuns : crow[x] # "none" => crow'[x] # "none"
<1> USE DEF SoloInv
<1> SUFFICES ASSUME NEW x \in CaseRuns, crow[x] # "none" PROVE crow'[x] # "none"
    OBVIOUS
<1>0. crow \in [CaseRuns -> RowStates]
  BY DEF TypeOK, RowsOK
<1>1. ASSUME NEW r \in Runs, BeginCase(r) PROVE crow'[x] # "none"
  BY <1>1, <1>0 DEF BeginCase
<1>2. ASSUME NEW r \in Runs, RecordCase(r) PROVE crow'[x] # "none"
  BY <1>2, <1>0 DEF RecordCase, UpdateTestRun
<1>3. ASSUME NEW r \in Runs, DeleteCaseRows(r) PROVE crow'[x] # "none"
  BY <1>3 DEF DeleteCaseRows
<1>4. ASSUME NEW c \in Calls, AppendWrite(c) PROVE crow'[x] # "none"
  <2>1. call[c].row.status = "running"
    BY <1>4 DEF AppendWrite, CallInv, CallOwned
  <2> QED
    BY <1>4, <2>1, <1>0 DEF AppendWrite, UpdateTestRun
<1>5. CASE UNCHANGED crow
  BY <1>5
<1> QED
  BY <1>1, <1>2, <1>3, <1>4, <1>5, NoRestart
     DEF Next, ExecutorStep, AgentEnds, CallStep, vars, rows, Start, Claim, RejectBusy, NoDevice,
         Finish, OpenDevice, SkipCase, SetActive, BindRun, AgentReplies, AgentFails, UnbindRun,
         Reload, TallyCase, FinishCycle, Release, DeleteRunRow, DeleteCycle, SelectDevice,
         ReportStep, LookUpBinding, AppendRead

\* A call that is going on belongs to a case whose executor waits for the agent:
\* its row reads running unless it was deleted, and the device is bound to it.
LEMMA GoingCall ==
    ASSUME SoloInv, Solo, NEW c \in Calls, call[c].ph \in Going
    PROVE  /\ call[c].by \in CaseRuns /\ call[c].by[1] \in Runs
           /\ pc[call[c].by[1]] = "agent" /\ Case(call[c].by[1]) = call[c].by
           /\ crow[call[c].by] \in {"running", "gone"}
           /\ \A d \in Devices : runs[d] = call[c].by
<1> USE DEF SoloInv
<1> DEFINE x == call[c].by
           r == x[1]
<1>1. x \in CaseRuns /\ conv[x] = "open"
  BY DEF CallInv, CallOwned, TypeOK, AgentsOK, Going
<1>2. r \in Runs /\ pc[r] = "agent" /\ At(x)
  BY <1>1, CaseRunPair DEF ConvInv
<1>3. Case(r) = x
  BY <1>1, <1>2, CaseAt
<1>4. crow[x] \in {"running", "gone"}
  BY <1>1, <1>2 DEF RowInv, CaseSteps
<1>5. dev[r] \in Devices /\ runs[dev[r]] = Case(r)
  BY <1>2 DEF ConvInv, TypeOK, ExecutorOK
<1>6. \A d \in Devices : d = dev[r]
  BY <1>5 DEF Solo
<1>7. \A d \in Devices : runs[d] = x
  BY <1>6, <1>5, <1>3
<1> QED
  BY <1>1, <1>2, <1>3, <1>4, <1>7

LEMMA CallNext ==
    ASSUME SoloInv, Solo, [Next]_vars
    PROVE  CallInv'
<1> USE DEF SoloInv
<1>1. \A x \in CaseRuns : crow[x] # "none" => crow'[x] # "none"
  BY RowsRemain
<1>2. CASE UNCHANGED agents
  BY <1>1, <1>2, CallsKept DEF agents
<1>3. ASSUME NEW r \in Runs, BindRun(r) PROVE CallInv'
  <2>1. /\ conv' = [conv EXCEPT ![Case(r)] = "open"] /\ call' = call
        /\ conv \in [CaseRuns -> {"none", "open", "over"}]
    BY <1>3 DEF BindRun, TypeOK, AgentsOK
  <2>2. \A c \in Calls : call[c].ph \in Going => call[c].by \in CaseRuns /\ conv[call[c].by] = "open"
    BY DEF CallInv, CallOwned, TypeOK, AgentsOK, Going
  <2> QED
    BY <1>1, <2>1, <2>2, CallsKept
<1>4. ASSUME NEW r \in Runs, AgentReplies(r) \/ AgentFails(r) PROVE CallInv'
  <2>1. /\ conv' = [conv EXCEPT ![Case(r)] = "over"] /\ call' = call /\ Pending(Case(r)) = {}
        /\ conv \in [CaseRuns -> {"none", "open", "over"}]
    BY <1>4 DEF AgentReplies, AgentFails, Solo, TypeOK, AgentsOK
  <2>2. \A c \in Calls : call[c].ph \in Going => call[c].by \in CaseRuns /\ call[c].by # Case(r)
    BY <2>1 DEF TypeOK, AgentsOK, Going, Pending
  <2> QED
    BY <1>1, <2>1, <2>2, CallsKept
<1>5. ASSUME NEW c \in Calls, NEW x \in CaseRuns, NEW n \in 1..Expected, NEW s \in StepStates,
             ReportStep(c, x, n, s)
      PROVE  CallInv'
  <2> DEFINE new == [call[c] EXCEPT !.ph = "resolved", !.by = x, !.no = n,
                                    !.status = s, !.dev = active]
  <2>1. call' = [call EXCEPT ![c] = new] /\ conv' = conv /\ conv[x] = "open" /\ crow' = crow
    BY <1>5 DEF ReportStep, rows
  <2>2. call[c] \in CallRecords /\ call \in [Calls -> CallRecords]
    BY DEF TypeOK, AgentsOK
  <2>3. new.ph = "resolved" /\ new.by = x /\ new.dev = active
    BY <2>2 DEF CallRecords
  <2>4. x[1] \in Runs /\ pc[x[1]] = "agent" /\ At(x)
    BY <2>1, CaseRunPair DEF ConvInv
  <2>5. active \in Devices /\ crow[x] # "none"
    BY <2>4 DEF ConvInv, RowInv, CaseSteps
  <2>6. call'[c] = new
    BY <2>1, <2>2
  <2> HIDE DEF new
  <2>7. CallOwned(c)'
    BY <2>1, <2>3, <2>5, <2>6 DEF CallOwned
  <2> QED
    BY <1>1, <2>1, <2>7, CallMoves
<1>6. ASSUME NEW c \in Calls, call[c].ph \in Going, call' = EndCall(c), conv' = conv PROVE CallInv'
  <2> DEFINE new == [FreeCall EXCEPT !.ph = "over", !.by = call[c].by]
  <2>1. call' = [call EXCEPT ![c] = new] /\ call \in [Calls -> CallRecords]
    BY <1>6 DEF EndCall, TypeOK, AgentsOK
  <2>2. call[c].by \in CaseRuns /\ crow[call[c].by] # "none"
    BY <1>6, GoingCall
  <2>3. new.ph = "over" /\ new.by = call[c].by
    BY <2>2, EndedCallType
  <2>4. call'[c] = new /\ crow'[call[c].by] # "none"
    BY <2>1, <2>2, <1>1
  <2> HIDE DEF new
  <2>5. CallOwned(c)'
    BY <2>3, <2>4 DEF CallOwned, Going
  <2> QED
    BY <1>1, <1>6, <2>1, <2>5, CallMoves
<1>7. ASSUME NEW c \in Calls, LookUpBinding(c) PROVE CallInv'
  <2>1. call[c].ph = "resolved" /\ conv' = conv /\ crow' = crow
    BY <1>7 DEF LookUpBinding, rows
  <2>2. /\ call[c].by \in CaseRuns /\ crow[call[c].by] # "none" /\ conv[call[c].by] = "open"
        /\ call[c].dev \in Devices /\ runs[call[c].dev] = call[c].by
    BY <2>1, GoingCall DEF CallInv, CallOwned, Going
  <2> DEFINE new == [call[c] EXCEPT !.ph = "bound", !.run = call[c].by]
  <2>3. call[c].by # None
    BY <2>2, CycleAssumption
  <2>4. call' = [call EXCEPT ![c] = new] /\ call \in [Calls -> CallRecords]
    BY <1>7, <2>2, <2>3 DEF LookUpBinding, TypeOK, AgentsOK
  <2>5. new.ph = "bound" /\ new.by = call[c].by /\ new.run = call[c].by
    BY <2>4 DEF CallRecords
  <2>6. call'[c] = new
    BY <2>4
  <2> HIDE DEF new
  <2>7. CallOwned(c)'
    BY <2>1, <2>2, <2>5, <2>6 DEF CallOwned
  <2> QED
    BY <1>1, <2>1, <2>4, <2>7, CallMoves
<1>8. ASSUME NEW c \in Calls, AppendRead(c) PROVE CallInv'
  <2>1. call[c].ph = "bound" /\ conv' = conv /\ crow' = crow
    BY <1>8 DEF AppendRead, rows
  <2>2. /\ call[c].by \in CaseRuns /\ crow[call[c].by] \in {"running", "gone"}
        /\ conv[call[c].by] = "open" /\ call[c].run = call[c].by
    BY <2>1, GoingCall DEF CallInv, CallOwned, Going
  <2>3. CASE ~Exists(crow[call[c].run])
    BY <1>6, <1>8, <2>1, <2>3 DEF AppendRead, Going
  <2>4. CASE Exists(crow[call[c].run])
    <3> DEFINE row == [status |-> crow[call[c].run], steps |-> steps[call[c].run]]
               new == [call[c] EXCEPT !.ph = "read", !.row = row]
    <3>1. call' = [call EXCEPT ![c] = new] /\ call \in [Calls -> CallRecords]
      BY <1>8, <2>4 DEF AppendRead, TypeOK, AgentsOK
    <3>2. new.ph = "read" /\ new.by = call[c].by /\ new.run = call[c].run /\ new.row = row
      BY <3>1 DEF CallRecords
    <3>3. row.status = "running" /\ row.steps = steps[call[c].by]
      BY <2>2, <2>4 DEF Exists
    <3>4. call'[c] = new
      BY <3>1
    <3> HIDE DEF new, row
    <3>5. \A i \in DOMAIN row.steps : row.steps[i].by = call[c].by
      BY <3>3, <2>2 DEF EvidenceIsOwn
    <3>6. CallOwned(c)'
      BY <2>1, <2>2, <3>2, <3>3, <3>4, <3>5 DEF CallOwned
    <3> QED
      BY <1>1, <2>1, <3>1, <3>6, CallMoves
  <2> QED
    BY <2>3, <2>4
<1>9. ASSUME NEW c \in Calls, AppendWrite(c) PROVE CallInv'
  BY <1>6, <1>9 DEF AppendWrite, Going
<1> QED
  BY <1>2, <1>3, <1>4, <1>5, <1>7, <1>8, <1>9, NoRestart
     DEF Next, ExecutorStep, AgentEnds, CallStep, vars, agents, Start, Claim, RejectBusy, NoDevice,
         Finish, OpenDevice, BeginCase, SkipCase, SetActive, UnbindRun, Reload, RecordCase,
         TallyCase, FinishCycle, Release, DeleteCaseRows, DeleteRunRow, DeleteCycle, SelectDevice

LEMMA EvidenceNext ==
    ASSUME SoloInv, Solo, [Next]_vars
    PROVE  EvidenceIsOwn'
<1> USE DEF SoloInv
<1>0. steps \in [CaseRuns -> Seq(StepResults)]
  BY DEF TypeOK, RowsOK
<1>1. ASSUME NEW r \in Runs, RecordCase(r) PROVE EvidenceIsOwn'
  <2>1. PICK status : UpdateTestRun(Case(r), status, snap[r])
    BY <1>1 DEF RecordCase
  <2>2. \A i \in DOMAIN snap[r] : snap[r][i].by = Case(r)
    BY DEF SnapInv
  <2>3. \A x \in CaseRuns : steps'[x] = steps[x] \/ (x = Case(r) /\ steps'[x] = snap[r])
    BY <2>1, <1>0 DEF UpdateTestRun
  <2> QED
    BY <2>2, <2>3 DEF EvidenceIsOwn
<1>2. ASSUME NEW r \in Runs, DeleteCaseRows(r) PROVE EvidenceIsOwn'
  <2>1. \A x \in CaseRuns : steps'[x] = steps[x] \/ steps'[x] = <<>>
    BY <1>2 DEF DeleteCaseRows
  <2> QED
    BY <2>1 DEF EvidenceIsOwn
<1>3. ASSUME NEW c \in Calls, AppendWrite(c) PROVE EvidenceIsOwn'
  <2> DEFINE step == [by |-> call[c].by, no |-> call[c].no, status |-> call[c].status]
             old == call[c].row.steps
             ss == Append(old, step)
  <2>1. call[c].run = call[c].by /\ \A i \in DOMAIN old : old[i].by = call[c].by
    BY <1>3 DEF AppendWrite, CallInv, CallOwned
  <2>2. old \in Seq(StepResults) /\ step \in StepResults
    BY <1>3, CallType DEF TypeOK, AgentsOK, AppendWrite, CallRecords, StepResults
  <2>3. step.by = call[c].by
    OBVIOUS
  <2>4. UpdateTestRun(call[c].by, call[c].row.status, ss)
    BY <1>3, <2>1 DEF AppendWrite
  <2> HIDE DEF step, old
  <2>5. \A i \in DOMAIN ss : ss[i].by = call[c].by
    BY <2>1, <2>2, <2>3
  <2> HIDE DEF ss
  <2>6. \A x \in CaseRuns : steps'[x] = steps[x] \/ (x = call[c].by /\ steps'[x] = ss)
    BY <2>4, <1>0 DEF UpdateTestRun
  <2> QED
    BY <2>5, <2>6 DEF EvidenceIsOwn
<1>4. CASE UNCHANGED steps
  BY <1>4 DEF EvidenceIsOwn
<1> QED
  BY <1>1, <1>2, <1>3, <1>4, NoRestart
     DEF Next, ExecutorStep, AgentEnds, CallStep, vars, rows, Start, Claim, RejectBusy, NoDevice,
         Finish, OpenDevice, BeginCase, SkipCase, SetActive, BindRun, AgentReplies, AgentFails,
         UnbindRun, Reload, TallyCase, FinishCycle, Release, DeleteRunRow, DeleteCycle,
         SelectDevice, ReportStep, LookUpBinding, AppendRead

LEMMA SnapNext ==
    ASSUME SoloInv, Solo, [Next]_vars
    PROVE  SnapInv'
<1> USE DEF SoloInv
<1>0. /\ pc \in [Runs -> Pcs] /\ snap \in [Runs -> Seq(StepResults)]
      /\ cur \in [Runs -> 1..NumCases + 1]
  BY DEF TypeOK, ExecutorOK
<1>1. ASSUME NEW r \in Runs, NEW from \in Pcs \ {"record"}, NEW to \in Pcs \ {"record"},
             Goto(r, from, to), UNCHANGED snap, \A s \in Runs \ {r} : cur'[s] = cur[s]
      PROVE  SnapInv'
  <2>1. \A s \in Runs : /\ pc'[s] # "record" => pc[s] # "record"
                        /\ s # r => Case(s)' = Case(s)
    BY <1>1, <1>0 DEF Goto, Case
  <2>2. snap[r] = <<>>
    BY <1>1 DEF Goto, SnapInv
  <2> QED
    BY <2>1, <2>2, <1>1 DEF SnapInv
<1>2. ASSUME NEW r \in Runs,
             \/ \E d \in Devices : Start(r, d)
             \/ Claim(r) \/ RejectBusy(r) \/ NoDevice(r) \/ OpenDevice(r) \/ FinishCycle(r)
             \/ Release(r) \/ BeginCase(r) \/ SkipCase(r) \/ SetActive(r) \/ BindRun(r)
             \/ AgentReplies(r) \/ AgentFails(r) \/ UnbindRun(r) \/ TallyCase(r)
      PROVE  SnapInv'
  <2> SUFFICES /\ \E from, to \in Pcs \ {"record"} : Goto(r, from, to)
               /\ UNCHANGED snap /\ \A s \in Runs \ {r} : cur'[s] = cur[s]
    BY <1>1
  <2>1. CASE \E d \in Devices : Start(r, d)
    BY <2>1 DEF Start, Pcs, Working, Held
  <2>2. CASE Claim(r) \/ OpenDevice(r) \/ Release(r)
    BY <2>2 DEF Claim, OpenDevice, Release, local, Pcs, Working, Held
  <2>3. CASE RejectBusy(r) \/ NoDevice(r) \/ FinishCycle(r)
    BY <2>3 DEF RejectBusy, NoDevice, FinishCycle, Finish, local, Pcs, Working, Held
  <2>4. CASE BeginCase(r) \/ SkipCase(r) \/ SetActive(r) \/ BindRun(r)
    BY <2>4 DEF BeginCase, SkipCase, SetActive, BindRun, local, Pcs, Working, Held
  <2>5. CASE AgentReplies(r) \/ AgentFails(r) \/ UnbindRun(r)
    BY <2>5 DEF AgentReplies, AgentFails, UnbindRun, local, Pcs, Working, Held
  <2>6. CASE TallyCase(r)
    BY <2>6, <1>0 DEF TallyCase, Pcs, Working, Held
  <2> QED
    BY <1>2, <2>1, <2>2, <2>3, <2>4, <2>5, <2>6
<1>3. ASSUME NEW r \in Runs, Reload(r) PROVE SnapInv'
  <2>1. /\ pc' = [pc EXCEPT ![r] = "record"] /\ cur' = cur
        /\ snap' = [snap EXCEPT ![r] = IF Exists(crow[Case(r)]) THEN steps[Case(r)] ELSE <<>>]
        /\ Case(r) \in CaseRuns
    BY <1>3, CaseType DEF Reload, Goto, Held
  <2>2. ASSUME NEW s \in Runs, s # r PROVE snap'[s] = snap[s] /\ pc'[s] = pc[s] /\ Case(s)' = Case(s)
    BY <2>1, <2>2, <1>0 DEF Case
  <2>3. \A i \in DOMAIN snap'[r] : snap'[r][i].by = Case(r)
    BY <2>1, <1>0 DEF EvidenceIsOwn
  <2>4. pc'[r] = "record" /\ Case(r)' = Case(r)
    BY <2>1, <1>0 DEF Case
  <2> QED
    BY <2>2, <2>3, <2>4 DEF SnapInv
<1>4. ASSUME NEW r \in Runs, RecordCase(r) PROVE SnapInv'
  <2>1. /\ pc' = [pc EXCEPT ![r] = "tally"] /\ cur' = cur /\ snap' = [snap EXCEPT ![r] = <<>>]
    BY <1>4 DEF RecordCase, Goto
  <2>2. ASSUME NEW s \in Runs, s # r PROVE snap'[s] = snap[s] /\ pc'[s] = pc[s] /\ Case(s)' = Case(s)
    BY <2>1, <2>2, <1>0 DEF Case
  <2>3. snap'[r] = <<>>
    BY <2>1, <1>0
  <2> QED
    BY <2>2, <2>3 DEF SnapInv
<1>5. CASE UNCHANGED <<pc, cur, snap>>
  BY <1>5 DEF SnapInv, Case
<1> QED
  BY <1>2, <1>3, <1>4, <1>5, NoRestart
     DEF Next, ExecutorStep, AgentEnds, CallStep, vars, local, DeleteCaseRows, DeleteRunRow,
         DeleteCycle, SelectDevice, ReportStep, LookUpBinding, AppendRead, AppendWrite

LEMMA SoloNext ==
    ASSUME SoloInv, RunningSet, BindingOwned, Solo, [Next]_vars
    PROVE  SoloInv' /\ RunningSet' /\ BindingOwned'
<1>1. TypeOK' /\ Exclusive' /\ RunningSet' /\ BindingOwned'
  BY TypeNext, ExclusiveNext DEF SoloInv
<1>2. RowInv' /\ ConvInv' /\ CallInv' /\ EvidenceIsOwn' /\ SnapInv'
  BY RowNext, ConvNext, CallNext, EvidenceNext, SnapNext
<1> QED
  BY <1>1, <1>2 DEF SoloInv

LEMMA SoloAlways == ASSUME Solo PROVE Spec => []SoloInv
<1>1. Init => SoloInv /\ RunningSet /\ BindingOwned
  BY SoloInit DEF Init, RunningSet, BindingOwned, Held
<1>2. (SoloInv /\ RunningSet /\ BindingOwned) /\ [Next]_vars => (SoloInv /\ RunningSet /\ BindingOwned)'
  BY SoloNext
<1> QED
  BY <1>1, <1>2, PTL DEF Spec

\* On one device, as long as every conversation ends with its request and the
\* process lives, a case row that reads running is the one its executor is at,
\* so no case is left running when its cycle moves on, whoever deletes rows
\* meanwhile and whatever the agents report.
THEOREM RunningCasesAreOwned == ASSUME Solo PROVE Spec => []CaseOwned
<1>1. SoloInv => CaseOwned
  <2> SUFFICES ASSUME SoloInv, NEW r \in Runs, NEW k \in 1..NumCases, crow[<<r, k>>] = "running"
               PROVE  /\ cur[r] = k
                      /\ pc[r] \in {"bind", "ready", "agent", "unbind", "reload", "record"}
    BY DEF CaseOwned
  <2>1. <<r, k>> \in CaseRuns /\ <<r, k>>[1] = r /\ <<r, k>>[2] = k
    BY DEF CaseRuns
  <2> QED
    BY <2>1 DEF SoloInv, RowInv, At, CaseSteps
<1> QED
  BY <1>1, SoloAlways, PTL

\* Under the same conditions report_step_result records into the case run of the
\* conversation that called it: AppendStep's read and its later write of the
\* whole row both find the row of that case, and no other.
THEOREM EvidenceStaysHome == ASSUME Solo PROVE Spec => []EvidenceIsOwn
<1>1. SoloInv => EvidenceIsOwn
  BY DEF SoloInv
<1> QED
  BY <1>1, SoloAlways, PTL

-----------------------------------------------------------------------------
(* A pass rests on its reports. What runCase reloads is still what the row *)
(* holds when it judges it and writes it back, and nothing is appended      *)
(* once the verdict is in, because the conversation is over by then.        *)

\* What runCase has reloaded is still what the row holds.
SnapFresh == \A r \in Runs : pc[r] = "record" /\ crow[Case(r)] # "gone" => snap[r] = steps[Case(r)]

\* A deleted row stays deleted.
LEMMA GoneStays ==
    ASSUME SoloInv, Solo, [Next]_vars, NEW x \in CaseRuns, crow'[x] # "gone"
    PROVE  crow[x] # "gone"
<1> USE DEF SoloInv
<1> SUFFICES ASSUME crow[x] = "gone" PROVE FALSE
    OBVIOUS
<1>0. crow \in [CaseRuns -> RowStates]
  BY DEF TypeOK, RowsOK
<1>1. ASSUME NEW r \in Runs, BeginCase(r) PROVE FALSE
  <2>1. pc[r] = "next" /\ Case(r) \in CaseRuns
    BY <1>1, CaseType DEF BeginCase, Goto
  <2>2. crow[Case(r)] = "none"
    BY <2>1, CaseAt DEF RowInv, Before
  <2> QED
    BY <1>1, <2>1, <2>2, <1>0 DEF BeginCase
<1>2. ASSUME NEW r \in Runs, RecordCase(r) PROVE FALSE
  BY <1>2, <1>0 DEF RecordCase, UpdateTestRun, Exists
<1>3. ASSUME NEW r \in Runs, DeleteCaseRows(r) PROVE FALSE
  BY <1>3 DEF DeleteCaseRows
<1>4. ASSUME NEW c \in Calls, AppendWrite(c) PROVE FALSE
  BY <1>4, <1>0 DEF AppendWrite, UpdateTestRun, Exists
<1>5. CASE UNCHANGED crow
  BY <1>5
<1> QED
  BY <1>1, <1>2, <1>3, <1>4, <1>5, NoRestart
     DEF Next, ExecutorStep, AgentEnds, CallStep, vars, rows, Start, Claim, RejectBusy, NoDevice,
         Finish, OpenDevice, SkipCase, SetActive, BindRun, AgentReplies, AgentFails, UnbindRun,
         Reload, TallyCase, FinishCycle, Release, DeleteRunRow, DeleteCycle, SelectDevice,
         ReportStep, LookUpBinding, AppendRead

\* Only an AppendStep of its own conversation changes the steps of a row that is
\* not deleted: runCase writes back what it read.
LEMMA StepsStay ==
    ASSUME SoloInv, SnapFresh, Solo, [Next]_vars, NEW x \in CaseRuns, crow'[x] # "gone",
           \A c \in Calls : AppendWrite(c) => call[c].by # x
    PROVE  steps'[x] = steps[x]
<1> USE DEF SoloInv
<1>0. steps \in [CaseRuns -> Seq(StepResults)] /\ crow[x] # "gone"
  BY GoneStays DEF TypeOK, RowsOK
<1>1. ASSUME NEW r \in Runs, RecordCase(r) PROVE steps'[x] = steps[x]
  <2>1. PICK status : UpdateTestRun(Case(r), status, snap[r])
    BY <1>1 DEF RecordCase
  <2>2. x = Case(r) => snap[r] = steps[x]
    BY <1>1, <1>0 DEF RecordCase, Goto, SnapFresh
  <2> QED
    BY <2>1, <2>2, <1>0 DEF UpdateTestRun
<1>2. ASSUME NEW r \in Runs, DeleteCaseRows(r) PROVE steps'[x] = steps[x]
  <2>1. CASE x[1] = r
    <3>1. crow[x] = "none"
      BY <1>2, <2>1, <1>0 DEF DeleteCaseRows, Exists
    <3> QED
      BY <3>1, <2>1, <1>2 DEF DeleteCaseRows, RowInv
  <2>2. CASE x[1] # r
    BY <1>2, <2>2 DEF DeleteCaseRows
  <2> QED
    BY <2>1, <2>2
<1>3. ASSUME NEW c \in Calls, AppendWrite(c) PROVE steps'[x] = steps[x]
  <2>1. call[c].run # x
    BY <1>3 DEF AppendWrite, CallInv, CallOwned
  <2> QED
    BY <1>3, <2>1, <1>0 DEF AppendWrite, UpdateTestRun
<1>4. CASE UNCHANGED steps
  BY <1>4
<1> QED
  BY <1>1, <1>2, <1>3, <1>4, NoRestart
     DEF Next, ExecutorStep, AgentEnds, CallStep, vars, rows, Start, Claim, RejectBusy, NoDevice,
         Finish, OpenDevice, BeginCase, SkipCase, SetActive, BindRun, AgentReplies, AgentFails,
         UnbindRun, Reload, TallyCase, FinishCycle, Release, DeleteRunRow, DeleteCycle,
         SelectDevice, ReportStep, LookUpBinding, AppendRead

LEMMA SnapFreshNext ==
    ASSUME SoloInv, SnapFresh, Solo, [Next]_vars
    PROVE  SnapFresh'
<1> USE DEF SoloInv
<1>0. pc \in [Runs -> Pcs] /\ snap \in [Runs -> Seq(StepResults)]
  BY DEF TypeOK, ExecutorOK
<1> SUFFICES ASSUME NEW r \in Runs, pc'[r] = "record", crow'[Case(r)'] # "gone"
             PROVE  snap'[r] = steps'[Case(r)']
  BY DEF SnapFresh
<1>1. CASE Reload(r)
  <2>1. /\ Case(r) \in CaseRuns /\ Case(r)' = Case(r) /\ UNCHANGED <<crow, steps>>
        /\ pc[r] = "reload"
        /\ snap' = [snap EXCEPT ![r] = IF Exists(crow[Case(r)]) THEN steps[Case(r)] ELSE <<>>]
    BY <1>1, CaseType DEF Reload, Goto, Case, Held, rows
  <2>2. crow[Case(r)] \in {"running", "gone"}
    BY <2>1, CaseAt DEF RowInv, CaseSteps
  <2> QED
    BY <2>1, <2>2, <1>0 DEF Exists
<1>2. CASE ~Reload(r)
  <2>1. pc[r] = "record" /\ Case(r)' = Case(r) /\ snap'[r] = snap[r]
    <3>1. ASSUME NEW s \in Runs, NEW from, NEW to, Goto(s, from, to), to # "record",
                 \A t \in Runs \ {s} : cur'[t] = cur[t] /\ snap'[t] = snap[t]
          PROVE  pc[r] = "record" /\ cur'[r] = cur[r] /\ snap'[r] = snap[r]
      BY <3>1, <1>0 DEF Goto
    <3>2. ASSUME NEW s \in Runs, ExecutorStep(s) \/ AgentEnds(s)
          PROVE  pc[r] = "record" /\ cur'[r] = cur[r] /\ snap'[r] = snap[r]
      <4>1. CASE Claim(s) \/ OpenDevice(s) \/ Release(s)
        BY <4>1, <3>1 DEF Claim, OpenDevice, Release, local
      <4>2. CASE RejectBusy(s) \/ NoDevice(s) \/ FinishCycle(s)
        BY <4>2, <3>1 DEF RejectBusy, NoDevice, FinishCycle, Finish, local
      <4>3. CASE BeginCase(s) \/ SkipCase(s) \/ SetActive(s) \/ BindRun(s)
        BY <4>3, <3>1 DEF BeginCase, SkipCase, SetActive, BindRun, local
      <4>4. CASE AgentReplies(s) \/ AgentFails(s) \/ UnbindRun(s)
        BY <4>4, <3>1 DEF AgentReplies, AgentFails, UnbindRun, local
      <4>5. CASE TallyCase(s) \/ RecordCase(s)
        BY <4>5, <3>1 DEF TallyCase, RecordCase, TypeOK, ExecutorOK
      <4>6. CASE Reload(s)
        BY <4>6, <1>2, <1>0 DEF Reload, Goto
      <4> QED
        BY <3>2, <4>1, <4>2, <4>3, <4>4, <4>5, <4>6 DEF ExecutorStep, AgentEnds
    <3>3. ASSUME NEW s \in Runs, NEW d \in Devices, Start(s, d)
          PROVE  pc[r] = "record" /\ cur'[r] = cur[r] /\ snap'[r] = snap[r]
      BY <3>3, <3>1 DEF Start
    <3>4. ASSUME UNCHANGED <<pc, cur, snap>>
          PROVE  pc[r] = "record" /\ cur'[r] = cur[r] /\ snap'[r] = snap[r]
      BY <3>4
    <3>5. pc[r] = "record" /\ cur'[r] = cur[r] /\ snap'[r] = snap[r]
      BY <3>2, <3>3, <3>4, NoRestart
         DEF Next, CallStep, vars, local, DeleteCaseRows, DeleteRunRow, DeleteCycle, SelectDevice,
             ReportStep, LookUpBinding, AppendRead, AppendWrite
    <3> QED
      BY <3>5 DEF Case
  <2>2. Case(r) \in CaseRuns
    BY <2>1, CaseType DEF Held
  <2>3. \A c \in Calls : AppendWrite(c) => call[c].by # Case(r)
    <3> SUFFICES ASSUME NEW c \in Calls, AppendWrite(c), call[c].by = Case(r) PROVE FALSE
      OBVIOUS
    <3>1. pc[call[c].by[1]] = "agent"
      BY GoingCall DEF AppendWrite, Going
    <3> QED
      BY <3>1, <2>1 DEF Case
  <2>4. steps'[Case(r)] = steps[Case(r)] /\ crow[Case(r)] # "gone"
    BY <2>1, <2>2, <2>3, StepsStay, GoneStays
  <2> QED
    BY <2>1, <2>4 DEF SnapFresh
<1> QED
  BY <1>1, <1>2

\* What classifyCase calls a pass: at least Expected steps, all of them passed.
LEMMA PassIsAll ==
    ASSUME NEW ss \in Seq(StepResults), NEW answer, classifyCase(ss, answer) = "pass"
    PROVE  ss # <<>> /\ Len(ss) >= Expected /\ \A i \in DOMAIN ss : ss[i].status = "pass"
<1>1. ~Reports(ss, "fail") /\ ~Reports(ss, "blocked") /\ ~(Len(ss) < Expected) /\ ss # <<>>
  BY DEF classifyCase
<1>2. \A i \in DOMAIN ss : ss[i] \in StepResults
  OBVIOUS
<1>3. \A i \in DOMAIN ss : ss[i].status \in StepStates
  BY <1>2 DEF StepResults
<1>4. \A i \in DOMAIN ss : ss[i].status = "pass"
  BY <1>1, <1>3 DEF Reports, StepStates
<1>5. Len(ss) \in Nat /\ Expected \in Nat
  BY CycleAssumption
<1> QED
  BY <1>1, <1>4, <1>5

Backed ==
    \A x \in CaseRuns : crow[x] = "passed" =>
        /\ steps[x] # <<>> /\ Len(steps[x]) >= Expected
        /\ \A i \in DOMAIN steps[x] : steps[x][i].status = "pass"

LEMMA PassNext ==
    ASSUME SoloInv, SnapFresh, Backed, Solo, [Next]_vars
    PROVE  Backed'
<1> USE DEF SoloInv
<1> SUFFICES ASSUME NEW x \in CaseRuns, crow'[x] = "passed"
             PROVE  /\ steps'[x] # <<>> /\ Len(steps'[x]) >= Expected
                    /\ \A i \in DOMAIN steps'[x] : steps'[x][i].status = "pass"
  BY DEF Backed
<1>1. crow[x] # "gone"
  BY GoneStays
<1>2. CASE crow[x] = "passed"
  <2>1. \A c \in Calls : AppendWrite(c) => call[c].by # x
    BY <1>2, GoingCall DEF AppendWrite, Going
  <2>2. steps'[x] = steps[x]
    BY <2>1, StepsStay
  <2> QED
    BY <1>2, <2>2 DEF Backed
<1>3. CASE crow[x] # "passed"
  <2>0. crow \in [CaseRuns -> RowStates] /\ steps \in [CaseRuns -> Seq(StepResults)]
    BY DEF TypeOK, RowsOK
  <2>1. PICK r \in Runs : RecordCase(r) /\ x = Case(r)
    <3>1. ASSUME NEW r \in Runs, BeginCase(r) PROVE FALSE
      BY <3>1, <1>3, <2>0 DEF BeginCase
    <3>2. ASSUME NEW r \in Runs, DeleteCaseRows(r) PROVE FALSE
      BY <3>2, <1>3, <2>0 DEF DeleteCaseRows
    <3>3. ASSUME NEW c \in Calls, AppendWrite(c) PROVE FALSE
      <4>1. call[c].row.status = "running"
        BY <3>3 DEF AppendWrite, CallInv, CallOwned
      <4> QED
        BY <3>3, <4>1, <1>3, <2>0 DEF AppendWrite, UpdateTestRun
    <3>4. ASSUME UNCHANGED crow PROVE FALSE
      BY <3>4, <1>3
    <3>5. \E r \in Runs : RecordCase(r)
      BY <3>1, <3>2, <3>3, <3>4, NoRestart
         DEF Next, ExecutorStep, AgentEnds, CallStep, vars, rows, Start, Claim, RejectBusy,
             NoDevice, Finish, OpenDevice, SkipCase, SetActive, BindRun, AgentReplies, AgentFails,
             UnbindRun, Reload, TallyCase, FinishCycle, Release, DeleteRunRow, DeleteCycle,
             SelectDevice, ReportStep, LookUpBinding, AppendRead
    <3>6. ASSUME NEW r \in Runs, RecordCase(r) PROVE x = Case(r)
      BY <3>6, <1>3, <2>0 DEF RecordCase, UpdateTestRun
    <3> QED
      BY <3>5, <3>6
  <2>2. pc[r] = "record" /\ snap[r] = steps[x]
    BY <2>1, <1>1 DEF RecordCase, Goto, SnapFresh
  <2>3. PICK status : /\ UpdateTestRun(x, status, snap[r])
                      /\ status = IF classifyCase(snap[r], reply[r]) = "pass" THEN "passed" ELSE "failed"
    BY <2>1 DEF RecordCase
  <2>4. status = "passed" /\ steps'[x] = steps[x]
    BY <2>2, <2>3, <2>0, <1>3 DEF UpdateTestRun
  <2>5. steps[x] \in Seq(StepResults) /\ classifyCase(steps[x], reply[r]) = "pass"
    BY <2>0, <2>2, <2>3, <2>4
  <2>6. /\ steps[x] # <<>> /\ Len(steps[x]) >= Expected
        /\ \A i \in DOMAIN steps[x] : steps[x][i].status = "pass"
    BY <2>5, PassIsAll
  <2> QED
    BY <2>4, <2>6
<1> QED
  BY <1>2, <1>3

\* On one device, as long as every conversation ends with its request and the
\* process lives, a case row that reads passed still holds the reports the pass was
\* given for, one at least for every expected step, all passes and all from the
\* case's own conversation: none is lost or added between AppendStep's read and its
\* write, or between runCase's reload and its record, whatever agents report.
THEOREM PassesAreBacked == ASSUME Solo PROVE Spec => []PassIsBacked
<1>1. Init => SnapFresh /\ Backed
  BY DEF Init, SnapFresh, Backed
<1>2. SoloInv /\ (SnapFresh /\ Backed) /\ [Next]_vars => (SnapFresh /\ Backed)'
  BY SnapFreshNext, PassNext
<1>3. SoloInv /\ Backed => PassIsBacked
  BY DEF SoloInv, EvidenceIsOwn, Backed, PassIsBacked
<1> QED
  BY <1>1, <1>2, <1>3, SoloAlways, PTL DEF Spec

-----------------------------------------------------------------------------
(* The totals of a run and its case rows. execute counts in its own local  *)
(* totals and writes the rows and the totals column in different           *)
(* statements; tally counts exactly the rows that read passed, and all of  *)
(* the cases execute is done with.                                         *)

Intact(r) == \A k \in 1..NumCases : crow[<<r, k>>] # "gone"
Worked(r) == IF pc[r] = "tally" THEN cur[r] ELSE cur[r] - 1
Tallied(r) ==
    Intact(r) =>
        /\ tally[r]["pass"] = PassedCases(r)
        /\ totals[r]["pass"] <= tally[r]["pass"]
        /\ tally[r]["pass"] + tally[r]["fail"] + tally[r]["blocked"] + tally[r]["notrun"] = Worked(r)
        /\ run[r] = "passed" => /\ totals[r] = tally[r]
                                /\ tally[r]["pass"] + tally[r]["notrun"] = NumCases
TallyInv == \A r \in Runs : Tallied(r)

\* Only runCase makes a row read passed, and nothing but a delete takes it back.
LEMMA PassedRows ==
    ASSUME SoloInv, Solo, [Next]_vars, NEW x \in CaseRuns, crow'[x] # "gone",
           \A s \in Runs : RecordCase(s) => x # Case(s)
    PROVE  crow'[x] = "passed" <=> crow[x] = "passed"
<1> USE DEF SoloInv
<1>0. crow \in [CaseRuns -> RowStates]
  BY DEF TypeOK, RowsOK
<1>1. ASSUME NEW r \in Runs, BeginCase(r) PROVE crow'[x] = "passed" <=> crow[x] = "passed"
  <2>1. pc[r] = "next" /\ Case(r) \in CaseRuns
    BY <1>1, CaseType DEF BeginCase, Goto
  <2>2. crow[Case(r)] = "none"
    BY <2>1, CaseAt DEF RowInv, Before
  <2> QED
    BY <1>1, <2>1, <2>2, <1>0 DEF BeginCase
<1>2. ASSUME NEW r \in Runs, RecordCase(r) PROVE crow'[x] = "passed" <=> crow[x] = "passed"
  BY <1>2, <1>0 DEF RecordCase, UpdateTestRun
<1>3. ASSUME NEW r \in Runs, DeleteCaseRows(r) PROVE crow'[x] = "passed" <=> crow[x] = "passed"
  BY <1>3 DEF DeleteCaseRows
<1>4. ASSUME NEW c \in Calls, AppendWrite(c) PROVE crow'[x] = "passed" <=> crow[x] = "passed"
  <2>1. /\ call[c].row.status = "running" /\ call[c].run = call[c].by
        /\ crow[call[c].by] \in {"running", "gone"}
    BY <1>4, GoingCall DEF AppendWrite, CallInv, CallOwned, Going
  <2> QED
    BY <1>4, <2>1, <1>0 DEF AppendWrite, UpdateTestRun
<1>5. CASE UNCHANGED crow
  BY <1>5
<1> QED
  BY <1>1, <1>2, <1>3, <1>4, <1>5, NoRestart
     DEF Next, ExecutorStep, AgentEnds, CallStep, vars, rows, Start, Claim, RejectBusy, NoDevice,
         Finish, OpenDevice, SkipCase, SetActive, BindRun, AgentReplies, AgentFails, UnbindRun,
         Reload, TallyCase, FinishCycle, Release, DeleteRunRow, DeleteCycle, SelectDevice,
         ReportStep, LookUpBinding, AppendRead

LEMMA TallyTypes ==
    ASSUME TypeOK, NEW r \in Runs
    PROVE  /\ \A c \in Categories : tally[r][c] \in Nat /\ totals[r][c] \in Nat
           /\ tally[r] \in [Categories -> Nat] /\ totals[r] \in [Categories -> Nat]
           /\ cur[r] \in Nat /\ cur[r] <= NumCases + 1 /\ Worked(r) \in Int
           /\ {"pass", "fail", "blocked", "notrun"} \subseteq Categories
           /\ NumCases \in Nat
<1>1. tally[r] \in [Categories -> Nat] /\ totals[r] \in [Categories -> Nat] /\ cur[r] \in 1..NumCases + 1
  BY DEF TypeOK, ExecutorOK, RowsOK
<1> QED
  BY <1>1, CycleAssumption DEF Categories, Worked

\* A step in which the executor of r does not count.
LEMMA TallyKept ==
    ASSUME TypeOK, NEW r \in Runs, Tallied(r), Intact(r),
           PassedCases(r)' = PassedCases(r), tally'[r] = tally[r], Worked(r)' = Worked(r),
           totals'[r] \in {totals[r], tally[r]},
           run'[r] = "passed" => run[r] = "passed" /\ totals'[r] = totals[r]
    PROVE  Tallied(r)'
<1>1. tally[r]["pass"] \in Nat
  BY TallyTypes
<1> QED
  BY <1>1 DEF Tallied

LEMMA TallyNext ==
    ASSUME SoloInv, VerdictInv, TallyInv, Solo, [Next]_vars
    PROVE  TallyInv'
<1> USE DEF SoloInv
<1> SUFFICES ASSUME NEW r \in Runs, Intact(r)' PROVE Tallied(r)'
  BY DEF TallyInv, Tallied
<1>0. /\ pc \in [Runs -> Pcs] /\ cur \in [Runs -> 1..NumCases + 1]
      /\ tally \in [Runs -> [Categories -> Nat]] /\ totals \in [Runs -> [Categories -> Nat]]
      /\ run \in [Runs -> RowStates] /\ crow \in [CaseRuns -> RowStates] /\ NumCases \in Nat
  BY CycleAssumption DEF TypeOK, ExecutorOK, RowsOK
<1>1. \A k \in 1..NumCases : <<r, k>> \in CaseRuns
  BY DEF CaseRuns
<1>2. Intact(r) /\ Tallied(r)
  BY <1>1, GoneStays DEF Intact, TallyInv
<1>3. CASE RecordCase(r)
  <2> DEFINE category == classifyCase(snap[r], reply[r])
             Passed == {k \in 1..NumCases : crow[<<r, k>>] = "passed"}
  <2>1. /\ pc[r] = "record" /\ pc' = [pc EXCEPT ![r] = "tally"]
        /\ UpdateTestRun(Case(r), IF category = "pass" THEN "passed" ELSE "failed", snap[r])
        /\ tally' = [tally EXCEPT ![r] = Count(@, category)] /\ UNCHANGED <<run, totals, cur>>
    BY <1>3 DEF RecordCase, Goto
  <2>2. category \in {"pass", "fail", "blocked"}
    BY DEF classifyCase
  <2> HIDE DEF category
  <2>3. Case(r) \in CaseRuns /\ Case(r) = <<r, cur[r]>> /\ cur[r] \in 1..NumCases
    BY <2>1, CaseType DEF Case, CaseRuns, Held
  <2>4. crow[Case(r)] = "running"
    <3>1. crow[Case(r)] \in {"running", "gone"}
      BY <2>1, <2>3, CaseAt DEF RowInv, CaseSteps
    <3> QED
      BY <3>1, <2>3, <1>2 DEF Intact
  <2>5. \A k \in 1..NumCases : crow'[<<r, k>>] = IF k = cur[r] THEN IF category = "pass" THEN "passed" ELSE "failed"
                                                ELSE crow[<<r, k>>]
    BY <2>1, <2>3, <2>4, <1>0, <1>1 DEF UpdateTestRun, Exists
  <2>6. IsFiniteSet(Passed) /\ Cardinality(Passed) \in Nat /\ cur[r] \notin Passed
    <3>1. IsFiniteSet(1..NumCases)
      BY <1>0, FS_Interval
    <3>2. IsFiniteSet(Passed)
      BY <3>1, FS_Subset
    <3> QED
      BY <3>2, <2>3, <2>4, FS_CardinalityType
  <2>7. PassedCases(r)' = PassedCases(r) + (IF category = "pass" THEN 1 ELSE 0)
    <3>1. PassedCases(r) = Cardinality(Passed)
      BY DEF PassedCases
    <3>2. CASE category = "pass"
      <4>1. {k \in 1..NumCases : crow'[<<r, k>>] = "passed"} = Passed \cup {cur[r]}
        BY <2>3, <2>5, <3>2
      <4>2. PassedCases(r)' = Cardinality(Passed \cup {cur[r]})
        BY <4>1 DEF PassedCases
      <4> HIDE DEF Passed
      <4>3. Cardinality(Passed \cup {cur[r]}) = Cardinality(Passed) + 1
        BY <2>6, FS_AddElement
      <4> QED
        BY <3>1, <3>2, <4>2, <4>3
    <3>3. CASE category # "pass"
      <4>1. {k \in 1..NumCases : crow'[<<r, k>>] = "passed"} = Passed
        BY <2>3, <2>4, <2>5, <3>3
      <4>2. PassedCases(r)' = Cardinality(Passed)
        BY <4>1 DEF PassedCases
      <4> HIDE DEF Passed
      <4> QED
        BY <2>6, <3>1, <3>3, <4>2
    <3> QED
      BY <3>2, <3>3
  <2>8. tally'[r] = [tally[r] EXCEPT ![category] = @ + 1] /\ totals'[r] = totals[r]
    BY <2>1, <1>0 DEF Count
  <2>9. run'[r] # "passed"
    BY <2>1 DEF VerdictInv, Unfinished, Working, Held
  <2>10. Worked(r)' = Worked(r) + 1
    BY <2>1, <1>0 DEF Worked
  <2>11. PassedCases(r) \in Nat
    BY <2>6 DEF PassedCases
  <2> QED
    BY <2>2, <2>7, <2>8, <2>9, <2>10, <2>11, <1>2, TallyTypes DEF Tallied
<1>4. CASE ~RecordCase(r)
  <2>1. \A k \in 1..NumCases : crow'[<<r, k>>] = "passed" <=> crow[<<r, k>>] = "passed"
    <3> SUFFICES ASSUME NEW k \in 1..NumCases PROVE crow'[<<r, k>>] = "passed" <=> crow[<<r, k>>] = "passed"
      OBVIOUS
    <3>1. \A s \in Runs : RecordCase(s) => <<r, k>> # Case(s)
      BY <1>4 DEF Case
    <3> QED
      BY <3>1, <1>1, PassedRows DEF Intact
  <2>2. PassedCases(r)' = PassedCases(r)
    <3>1. {k \in 1..NumCases : crow'[<<r, k>>] = "passed"} = {k \in 1..NumCases : crow[<<r, k>>] = "passed"}
      BY <2>1
    <3> QED
      BY <3>1 DEF PassedCases
  <2>3. ASSUME tally'[r] = tally[r], pc'[r] = "tally" <=> pc[r] = "tally", cur'[r] = cur[r],
               totals'[r] = totals[r], run'[r] = "passed" => run[r] = "passed"
        PROVE  Tallied(r)'
    <3>1. Worked(r)' = Worked(r)
      BY <2>3 DEF Worked
    <3> QED
      BY <3>1, <2>2, <2>3, <1>2, TallyKept
  <2>4. CASE SkipCase(r)
    <3>1. PICK category \in {"notrun", "fail"} : tally' = [tally EXCEPT ![r] = Count(@, category)]
      BY <2>4 DEF SkipCase
    <3>2. /\ pc[r] = "next" /\ pc' = [pc EXCEPT ![r] = "tally"] /\ UNCHANGED <<run, totals, cur>>
      BY <2>4 DEF SkipCase, Goto, rows
    <3>3. tally'[r] = [tally[r] EXCEPT ![category] = @ + 1] /\ totals'[r] = totals[r]
      BY <3>1, <3>2, <1>0 DEF Count
    <3>4. run'[r] # "passed"
      BY <3>2 DEF VerdictInv, Unfinished, Working, Held
    <3>5. Worked(r)' = Worked(r) + 1
      BY <3>2, <1>0 DEF Worked
    <3> QED
      BY <3>3, <3>4, <3>5, <2>2, <1>2, TallyTypes DEF Tallied
  <2>5. CASE TallyCase(r)
    <3>1. /\ pc[r] = "tally" /\ pc' = [pc EXCEPT ![r] = "next"] /\ UNCHANGED tally
          /\ cur' = [cur EXCEPT ![r] = @ + 1] /\ UpdateCycleRun(r, "running")
      BY <2>5 DEF TallyCase, Goto
    <3>2. Worked(r)' = Worked(r)
      BY <3>1, <1>0 DEF Worked
    <3>3. totals'[r] \in {totals[r], tally[r]} /\ run'[r] \in {"running", run[r]}
      BY <3>1, <1>0 DEF UpdateCycleRun
    <3>4. run[r] # "passed"
      BY <3>1 DEF VerdictInv, Unfinished, Working, Held
    <3> QED
      BY <3>1, <3>2, <3>3, <3>4, <2>2, <1>2, TallyKept
  <2>6. CASE RejectBusy(r) \/ NoDevice(r)
    <3>1. /\ pc[r] \in {"busy", "open"} /\ \E to \in {"done", "release"} : pc' = [pc EXCEPT ![r] = to]
          /\ UNCHANGED <<tally, cur>> /\ UpdateCycleRun(r, "failed")
      BY <2>6 DEF RejectBusy, NoDevice, Finish, Goto, local
    <3>2. Worked(r)' = Worked(r)
      BY <3>1, <1>0 DEF Worked
    <3>3. totals'[r] \in {totals[r], tally[r]} /\ run'[r] \in {"failed", run[r]}
      BY <3>1, <1>0 DEF UpdateCycleRun
    <3>4. run[r] # "passed"
      BY <3>1 DEF VerdictInv, Unfinished, Working, Held
    <3> QED
      BY <3>1, <3>2, <3>3, <3>4, <2>2, <1>2, TallyKept
  <2>7. CASE FinishCycle(r)
    <3>1. /\ pc[r] = "next" /\ pc' = [pc EXCEPT ![r] = "release"] /\ cur[r] > NumCases
          /\ UNCHANGED <<tally, cur>> /\ UpdateCycleRun(r, Verdict(tally[r]))
      BY <2>7 DEF FinishCycle, Finish, Goto, local
    <3>2. Worked(r)' = Worked(r) /\ Worked(r) = cur[r] - 1
      BY <3>1, <1>0 DEF Worked
    <3>3. run[r] \in {"running", "gone"}
      BY <3>1 DEF VerdictInv, Unfinished, Working, Held
    <3>4. CASE run[r] = "running"
      <4>1. totals'[r] = tally[r] /\ tally'[r] = tally[r] /\ run'[r] = Verdict(tally[r])
        BY <3>1, <3>4, <1>0 DEF UpdateCycleRun, Exists
      <4>2. Worked(r) = NumCases
        BY <3>1, <3>2, TallyTypes
      <4>3. run'[r] = "passed" => tally[r]["fail"] = 0 /\ tally[r]["blocked"] = 0
        BY <4>1, TallyTypes DEF Verdict
      <4> QED
        BY <4>1, <4>2, <4>3, <3>2, <2>2, <1>2, TallyTypes DEF Tallied
    <3>5. CASE run[r] = "gone"
      <4>1. totals'[r] = totals[r] /\ run'[r] = "gone"
        BY <3>1, <3>5, <1>0 DEF UpdateCycleRun, Exists
      <4> QED
        BY <3>1, <3>2, <4>1, <2>2, <1>2, TallyKept
    <3> QED
      BY <3>3, <3>4, <3>5
  <2>8. CASE \E d \in Devices : Start(r, d)
    BY <2>8, <2>3, <1>0 DEF Start, Goto
  <2>9. CASE \/ Claim(r) \/ OpenDevice(r) \/ BeginCase(r) \/ SetActive(r) \/ BindRun(r)
             \/ AgentReplies(r) \/ AgentFails(r) \/ UnbindRun(r) \/ Reload(r) \/ Release(r)
    <3>1. UNCHANGED <<tally, totals, cur, run>> /\ \E from, to \in Pcs \ {"tally"} : Goto(r, from, to)
      <4>1. CASE Claim(r) \/ OpenDevice(r) \/ BeginCase(r) \/ SetActive(r) \/ BindRun(r)
        BY <4>1 DEF Claim, OpenDevice, BeginCase, SetActive, BindRun, rows, local, Pcs, Working, Held
      <4>2. CASE AgentReplies(r) \/ AgentFails(r)
        BY <4>2 DEF AgentReplies, AgentFails, rows, local, Pcs, Working, Held
      <4>3. CASE UnbindRun(r) \/ Reload(r) \/ Release(r)
        BY <4>3 DEF UnbindRun, Reload, Release, rows, local, Pcs, Working, Held
      <4> QED
        BY <2>9, <4>1, <4>2, <4>3
    <3> QED
      BY <3>1, <2>3, <1>0 DEF Goto
  <2>10. ASSUME NEW s \in Runs, s # r, ExecutorStep(s) \/ AgentEnds(s) \/ \E d \in Devices : Start(s, d)
         PROVE  Tallied(r)'
    <3> SUFFICES /\ pc'[r] = pc[r] /\ cur'[r] = cur[r] /\ tally'[r] = tally[r]
                 /\ totals'[r] = totals[r] /\ run'[r] = run[r]
      BY <2>3
    <3>1. CASE \E d \in Devices : Start(s, d)
      BY <3>1, <2>10, <1>0 DEF Start, Goto
    <3>2. CASE Claim(s) \/ OpenDevice(s) \/ BeginCase(s) \/ SetActive(s) \/ BindRun(s)
      BY <3>2, <2>10, <1>0 DEF Claim, OpenDevice, BeginCase, SetActive, BindRun, rows, local, Goto
    <3>3. CASE AgentReplies(s) \/ AgentFails(s) \/ UnbindRun(s) \/ Reload(s) \/ Release(s)
      BY <3>3, <2>10, <1>0 DEF AgentReplies, AgentFails, UnbindRun, Reload, Release, rows, local, Goto
    <3>4. CASE RejectBusy(s) \/ NoDevice(s) \/ FinishCycle(s)
      BY <3>4, <2>10, <1>0 DEF RejectBusy, NoDevice, FinishCycle, Finish, UpdateCycleRun, local, Goto
    <3>5. CASE SkipCase(s) \/ RecordCase(s)
      BY <3>5, <2>10, <1>0 DEF SkipCase, RecordCase, rows, Goto
    <3>6. CASE TallyCase(s)
      BY <3>6, <2>10, <1>0 DEF TallyCase, UpdateCycleRun, Goto
    <3> QED
      BY <2>10, <3>1, <3>2, <3>3, <3>4, <3>5, <3>6 DEF ExecutorStep, AgentEnds
  <2>11. CASE UNCHANGED <<pc, cur, tally, totals, run>>
    BY <2>11, <2>3
  <2>12. CASE \E s \in Runs : DeleteRunRow(s)
    BY <2>12, <2>3, <1>0 DEF DeleteRunRow, local
  <2>13. CASE \E c \in Cycles : DeleteCycle(c)
    BY <2>13, <2>3, <1>0 DEF DeleteCycle, local
  <2>14. \A s \in Runs : ExecutorStep(s) \/ AgentEnds(s) \/ (\E d \in Devices : Start(s, d)) => Tallied(r)'
    <3>1. ExecutorStep(r) \/ AgentEnds(r) => Tallied(r)'
      BY <1>4, <2>4, <2>5, <2>6, <2>7, <2>9 DEF ExecutorStep, AgentEnds
    <3> QED
      BY <3>1, <2>8, <2>10
  <2> QED
    BY <2>11, <2>12, <2>13, <2>14, NoRestart
       DEF Next, CallStep, vars, rows, local, DeleteCaseRows, SelectDevice, ReportStep,
           LookUpBinding, AppendRead, AppendWrite
<1> QED
  BY <1>3, <1>4

\* On one device, as long as every conversation ends with its request and the
\* process lives: unless case rows were deleted under it, a run never claims a
\* pass its case rows do not show, and a run that passed accounts for every case.
THEOREM RollupsMatchRows == ASSUME Solo PROVE Spec => []RollupMatchesRows
<1>1. Init => TallyInv
  <2> SUFFICES ASSUME Init, NEW r \in Runs PROVE Tallied(r)
    BY DEF TallyInv
  <2>1. {k \in 1..NumCases : crow[<<r, k>>] = "passed"} = {}
    BY DEF Init, CaseRuns
  <2>2. PassedCases(r) = 0
    BY <2>1, FS_EmptySet DEF PassedCases
  <2>3. Worked(r) = 0 /\ run[r] # "passed"
    BY DEF Init, Worked
  <2>4. tally[r] = ZeroTotals /\ totals[r] = ZeroTotals
    BY DEF Init
  <2> QED
    BY <2>2, <2>3, <2>4 DEF Tallied, ZeroTotals, Categories
<1>2. TypeOK /\ TallyInv => RollupMatchesRows
  <2> SUFFICES ASSUME TypeOK, TallyInv, NEW r \in Runs, \A k \in 1..NumCases : crow[<<r, k>>] # "gone"
               PROVE  /\ totals[r]["pass"] <= PassedCases(r)
                      /\ run[r] = "passed" => /\ totals[r]["pass"] = PassedCases(r)
                                              /\ totals[r]["pass"] + totals[r]["notrun"] = NumCases
    BY DEF RollupMatchesRows
  <2> QED
    BY DEF TallyInv, Tallied, Intact
<1>3. SoloInv /\ VerdictInv /\ TallyInv /\ [Next]_vars => VerdictInv' /\ TallyInv'
  BY TallyNext, VerdictStep DEF SoloInv
<1>4. SoloInv => TypeOK
  BY DEF SoloInv
<1> QED
  BY <1>1, <1>2, <1>3, <1>4, VerdictInit, SoloAlways, PTL DEF Spec

=============================================================================
