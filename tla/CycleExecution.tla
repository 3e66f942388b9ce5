--------------------------- MODULE CycleExecution ---------------------------
(***************************************************************************)
(* Test cycles: the goroutine that executes a cycle run case by case       *)
(* (scenario.CycleExecutor), the agent conversations it opens, the         *)
(* report_step_result calls those make through the MCP server, and the     *)
(* cycle_runs and test_runs rows they all write.                           *)
(*                                                                         *)
(* The executor and the tool calls share the MCP server's active device    *)
(* and its device -> case run binding. AppendStep is a SELECT and a later  *)
(* UPDATE of the whole row, so it interleaves with the executor's own      *)
(* UPDATE. The agent is another process: a conversation whose HTTP request *)
(* was cut, or whose API process died, may go on calling tools. Statements *)
(* of the store do not fail, except where "store" is in Faults.            *)
(***************************************************************************)
EXTENDS Naturals, Sequences, FiniteSets

CONSTANTS
    Runs,         \* ids of cycle runs
    Cycles,       \* test cycles that exist at the start
    CycleOf,      \* the cycle each run id is a run of
    Devices,      \* instances a cycle may be run on
    Calls,        \* bound: report_step_result calls in a behaviour
    None,         \* no device, no case run
    NumCases,     \* len(cycle.CaseIDs), the same for every cycle
    Expected,     \* len(tc.Steps), the same for every case
    Disciplined,  \* agents report each numbered step once, in order, one at a time
    Faults,       \* what the environment may do
    MaxRestarts   \* bound on process restarts

FaultKinds ==
    { "timeout",    \* callAgent ends while the conversation goes on
      "agent",      \* the agent run fails
      "nodevice",   \* the instance row is gone when execute reads it
      "nocase",     \* the test case is gone when runCase reads it
      "store",      \* the INSERT of a case run fails
      "select",     \* somebody calls select_device
      "delete" }    \* cycle runs and cycles are deleted through the API

CaseRuns == Runs \X (1..NumCases)

ASSUME CycleAssumption ==
    /\ CycleOf \in [Runs -> Cycles]
    /\ NumCases \in Nat
    /\ Expected \in Nat
    /\ Disciplined \in BOOLEAN
    /\ Faults \subseteq FaultKinds
    /\ MaxRestarts \in Nat
    /\ IsFiniteSet(Calls)
    /\ None \notin Devices \cup CaseRuns

VARIABLES
    cycles,    \* test_cycles rows
    run,       \* cycle_runs rows: status, "none" before the insert, "gone" after a delete
    totals,    \* cycle_runs rows: the totals column
    crow,      \* test_runs rows of the cases: status, "none" or "gone"
    steps,     \* test_runs rows of the cases: the steps column
    pc,        \* where execute is
    dev,       \* the instance a run was started on
    cur,       \* index of the case execute is at
    tally,     \* execute's local totals
    reply,     \* how callAgent returned
    snap,      \* the steps runCase reloaded
    running,   \* CycleExecutor.running
    active,    \* mcp.Service.active
    runs,      \* mcp.Service.runs: the case run a device is bound to
    conv,      \* agent conversations, one per case run
    call,      \* report_step_result calls
    deleting,  \* deleteCycleRun requests between their two statements
    restarts

rows == <<cycles, run, totals, crow, steps>>
local == <<dev, cur, tally, reply, snap>>
binder == <<active, runs>>
agents == <<conv, call>>
vars == <<rows, pc, local, running, binder, agents, deleting, restarts>>

-----------------------------------------------------------------------------

Categories == {"pass", "fail", "blocked", "notrun"}
RowStates == {"none", "running", "passed", "failed", "gone"}
StepStates == {"pass", "fail", "blocked"}

\* What a row keeps of a report: its step (as text), its status, and, for the
\* properties only, the conversation that made it.
StepResults == [by : CaseRuns, no : Nat, status : StepStates]
CallRecords == [ph : {"free", "resolved", "bound", "read", "over"},
                by : CaseRuns \cup {None}, no : Nat, status : StepStates,
                dev : Devices \cup {None}, run : CaseRuns \cup {None},
                row : [status : RowStates, steps : Seq(StepResults)]]

Held == {"open", "next", "bind", "ready", "agent", "unbind", "reload", "record",
         "tally", "release"}
Working == Held \cup {"claim", "busy"}
Pcs == Working \cup {"idle", "done", "crashed"}

ZeroTotals == [c \in Categories |-> 0]
FreeCall == [ph |-> "free", by |-> None, no |-> 0, status |-> "pass", dev |-> None,
             run |-> None, row |-> [status |-> "none", steps |-> <<>>]]

RowsOK ==
    /\ cycles \subseteq Cycles
    /\ run \in [Runs -> RowStates]
    /\ totals \in [Runs -> [Categories -> Nat]]
    /\ crow \in [CaseRuns -> RowStates]
    /\ steps \in [CaseRuns -> Seq(StepResults)]

ExecutorOK ==
    /\ pc \in [Runs -> Pcs]
    /\ dev \in [Runs -> Devices \cup {None}]
    /\ \A r \in Runs : pc[r] # "idle" => dev[r] \in Devices
    /\ cur \in [Runs -> 1..NumCases + 1]
    /\ \A r \in Runs : pc[r] \in Held \ {"open", "next", "release"} => cur[r] <= NumCases
    /\ tally \in [Runs -> [Categories -> Nat]]
    /\ reply \in [Runs -> {"ok", "bad", "error"}]
    /\ snap \in [Runs -> Seq(StepResults)]
    /\ running \subseteq Devices

BinderOK ==
    /\ active \in Devices \cup {None}
    /\ runs \in [Devices -> CaseRuns \cup {None}]

AgentsOK ==
    /\ conv \in [CaseRuns -> {"none", "open", "over"}]
    /\ call \in [Calls -> CallRecords]
    /\ \A c \in Calls :
          /\ call[c].ph # "free" => call[c].by \in CaseRuns
          /\ call[c].ph \in {"bound", "read"} => call[c].run \in CaseRuns

TypeOK ==
    /\ RowsOK /\ ExecutorOK /\ BinderOK /\ AgentsOK
    /\ deleting \subseteq Runs
    /\ restarts \in Nat

Init ==
    /\ cycles = Cycles
    /\ run = [r \in Runs |-> "none"]
    /\ totals = [r \in Runs |-> ZeroTotals]
    /\ crow = [x \in CaseRuns |-> "none"]
    /\ steps = [x \in CaseRuns |-> <<>>]
    /\ pc = [r \in Runs |-> "idle"]
    /\ dev = [r \in Runs |-> None]
    /\ cur = [r \in Runs |-> 1]
    /\ tally = [r \in Runs |-> ZeroTotals]
    /\ reply = [r \in Runs |-> "ok"]
    /\ snap = [r \in Runs |-> <<>>]
    /\ running = {}
    /\ active = None
    /\ runs = [d \in Devices |-> None]
    /\ conv = [x \in CaseRuns |-> "none"]
    /\ call = [c \in Calls |-> FreeCall]
    /\ deleting = {}
    /\ restarts = 0

Goto(r, from, to) == pc[r] = from /\ pc' = [pc EXCEPT ![r] = to]
Exists(status) == status \notin {"none", "gone"}

\* The case run execute is at.
Case(r) == <<r, cur[r]>>

-----------------------------------------------------------------------------
(* Store.                                                                  *)

\* UPDATE cycle_runs ... WHERE id = ?: nothing happens to a deleted row.
UpdateCycleRun(r, status) ==
    /\ run' = [run EXCEPT ![r] = IF Exists(@) THEN status ELSE @]
    /\ totals' = [totals EXCEPT ![r] = IF Exists(run[r]) THEN tally[r] ELSE @]

\* Fault: the status column is missing from the UPDATE.
UpdateSteps(x, status, ss) ==
    /\ steps' = [steps EXCEPT ![x] = IF Exists(crow[x]) THEN ss ELSE @]
    /\ UNCHANGED crow

UpdateTestRun(x, status, ss) ==
    /\ crow' = [crow EXCEPT ![x] = IF Exists(@) THEN status ELSE @]
    /\ steps' = [steps EXCEPT ![x] = IF Exists(crow[x]) THEN ss ELSE @]

\* DeleteCycleRun is two statements: the case rows, then the run row. Nothing
\* keeps a run that is still executing from being deleted.
DeleteCaseRows(r) ==
    /\ "delete" \in Faults
    /\ Exists(run[r])
    /\ deleting' = deleting \cup {r}
    /\ crow' = [x \in CaseRuns |-> IF x[1] = r /\ Exists(crow[x]) THEN "gone" ELSE crow[x]]
    /\ steps' = [x \in CaseRuns |-> IF x[1] = r THEN <<>> ELSE steps[x]]
    /\ UNCHANGED <<cycles, run, totals, pc, local, running, binder, agents, restarts>>

DeleteRunRow(r) ==
    /\ r \in deleting
    /\ deleting' = deleting \ {r}
    /\ run' = [run EXCEPT ![r] = "gone"]
    /\ UNCHANGED <<cycles, totals, crow, steps, pc, local, running, binder, agents, restarts>>

\* DeleteTestCycle: the foreign key cascades to cycle_runs; test_runs has none.
DeleteCycle(c) ==
    /\ "delete" \in Faults
    /\ c \in cycles
    /\ cycles' = cycles \ {c}
    /\ run' = [r \in Runs |-> IF CycleOf[r] = c /\ Exists(run[r]) THEN "gone" ELSE run[r]]
    /\ UNCHANGED <<totals, crow, steps, pc, local, running, binder, agents, deleting, restarts>>

-----------------------------------------------------------------------------
(* The executor.                                                           *)

\* Start: insert the run, hand it to a goroutine. Manual, scheduled and build
\* triggers all end here; an explicit target need not be free.
Start(r, d) ==
    /\ CycleOf[r] \in cycles
    /\ run[r] = "none"
    /\ Goto(r, "idle", "claim")
    /\ run' = [run EXCEPT ![r] = "running"]
    /\ dev' = [dev EXCEPT ![r] = d]
    /\ UNCHANGED <<cycles, totals, crow, steps, cur, tally, reply, snap, running,
                   binder, agents, deleting, restarts>>

\* Fault: the running set is not consulted.
ClaimAnyway(r) ==
    /\ Goto(r, "claim", "open")
    /\ running' = running \cup {dev[r]}
    /\ UNCHANGED <<rows, local, binder, agents, deleting, restarts>>

\* The critical section that serializes runs per device.
Claim(r) ==
    /\ Goto(r, "claim", IF dev[r] \in running THEN "busy" ELSE "open")
    /\ running' = running \cup {dev[r]}
    /\ UNCHANGED <<rows, local, binder, agents, deleting, restarts>>

\* finishCycle; the deferred release of the device comes after it, and only for
\* a run that holds the device.
Finish(r, from, status, to) ==
    /\ Goto(r, from, to)
    /\ UpdateCycleRun(r, status)
    /\ UNCHANGED <<cycles, crow, steps, local, running, binder, agents, deleting, restarts>>

\* Faults: execute returns early without finishCycle, or without the deferred
\* release of the device.
ReturnBusy(r) ==
    /\ Goto(r, "busy", "done")
    /\ UNCHANGED <<rows, local, running, binder, agents, deleting, restarts>>
ReturnNoDevice(r) ==
    /\ "nodevice" \in Faults
    /\ Goto(r, "open", "release")
    /\ UNCHANGED <<rows, local, running, binder, agents, deleting, restarts>>
KeepDevice(r) == "nodevice" \in Faults /\ Finish(r, "open", "failed", "done")

RejectBusy(r) == Finish(r, "busy", "failed", "done")
NoDevice(r) == "nodevice" \in Faults /\ Finish(r, "open", "failed", "release")

\* GetInstance and the best-effort installBuild.
OpenDevice(r) ==
    /\ Goto(r, "open", "next")
    /\ UNCHANGED <<rows, local, running, binder, agents, deleting, restarts>>

\* Fault: the loop runs one case too far.
BeginCasePastEnd(r) ==
    /\ cur[r] <= NumCases + 1
    /\ Goto(r, "next", "bind")
    /\ crow' = [x \in CaseRuns |-> IF x = Case(r) THEN "running" ELSE crow[x]]
    /\ UNCHANGED <<cycles, run, totals, steps, local, running, binder, agents, deleting, restarts>>

\* GetTestCase and CreateCaseRun.
BeginCase(r) ==
    /\ cur[r] <= NumCases
    /\ Goto(r, "next", "bind")
    /\ crow' = [crow EXCEPT ![Case(r)] = "running"]
    /\ UNCHANGED <<cycles, run, totals, steps, local, running, binder, agents, deleting, restarts>>

Count(t, category) == [t EXCEPT ![category] = @ + 1]

SkipCase(r) ==
    /\ cur[r] <= NumCases
    /\ Goto(r, "next", "tally")
    /\ \E category \in {"notrun", "fail"} :
          /\ (IF category = "notrun" THEN "nocase" ELSE "store") \in Faults
          /\ tally' = [tally EXCEPT ![r] = Count(@, category)]
    /\ UNCHANGED <<rows, dev, cur, reply, snap, running, binder, agents, deleting, restarts>>

SetActive(r) ==
    /\ Goto(r, "bind", "ready")
    /\ active' = dev[r]
    /\ UNCHANGED <<rows, local, running, runs, agents, deleting, restarts>>

\* Fault: the first case run of the cycle run is bound for every case.
BindFirstCase(r) ==
    /\ Goto(r, "ready", "agent")
    /\ runs' = [runs EXCEPT ![dev[r]] = <<r, 1>>]
    /\ conv' = [conv EXCEPT ![Case(r)] = "open"]
    /\ UNCHANGED <<rows, local, running, active, call, deleting, restarts>>

\* BindRun, and the request that opens the conversation.
BindRun(r) ==
    /\ Goto(r, "ready", "agent")
    /\ runs' = [runs EXCEPT ![dev[r]] = Case(r)]
    /\ conv' = [conv EXCEPT ![Case(r)] = "open"]
    /\ UNCHANGED <<rows, local, running, active, call, deleting, restarts>>

Pending(x) == {c \in Calls : call[c].by = x /\ call[c].ph \notin {"free", "over"}}

\* The agent answers when its own tool calls have returned; its summary may or
\* may not speak of failure.
AgentReplies(r) ==
    /\ Goto(r, "agent", "unbind")
    /\ conv[Case(r)] = "open"
    /\ Pending(Case(r)) = {}
    /\ conv' = [conv EXCEPT ![Case(r)] = "over"]
    /\ \E a \in {"ok", "bad"} : reply' = [reply EXCEPT ![r] = a]
    /\ UNCHANGED <<rows, dev, cur, tally, snap, running, binder, call, deleting, restarts>>

\* callAgent returns an error: the agent's own, or the case's deadline, which
\* does not end the conversation.
AgentFails(r) ==
    /\ Goto(r, "agent", "unbind")
    /\ \/ /\ "agent" \in Faults
          /\ Pending(Case(r)) = {}
          /\ conv' = [conv EXCEPT ![Case(r)] = "over"]
       \/ "timeout" \in Faults /\ UNCHANGED conv
    /\ reply' = [reply EXCEPT ![r] = "error"]
    /\ UNCHANGED <<rows, dev, cur, tally, snap, running, binder, call, deleting, restarts>>

UnbindRun(r) ==
    /\ Goto(r, "unbind", "reload")
    /\ runs' = [runs EXCEPT ![dev[r]] = None]
    /\ UNCHANGED <<rows, local, running, active, agents, deleting, restarts>>

\* GetTestRun; without a row the steps stay the empty ones of CreateCaseRun.
Reload(r) ==
    /\ Goto(r, "reload", "record")
    /\ snap' = [snap EXCEPT ![r] = IF Exists(crow[Case(r)]) THEN steps[Case(r)] ELSE <<>>]
    /\ UNCHANGED <<rows, dev, cur, tally, reply, running, binder, agents, deleting, restarts>>

Reports(ss, status) == \E i \in DOMAIN ss : ss[i].status = status

\* Fault: too few reported steps are not noticed.
classifyReported(ss, answer) ==
    IF answer = "error" \/ Reports(ss, "fail") \/ (ss = <<>> /\ answer = "bad") THEN "fail"
    ELSE IF ss = <<>> \/ Reports(ss, "blocked") THEN "blocked"
    ELSE "pass"

classifyCase(ss, answer) ==
    IF answer = "error" \/ Reports(ss, "fail") \/ (ss = <<>> /\ answer = "bad") THEN "fail"
    ELSE IF ss = <<>> \/ Len(ss) < Expected \/ Reports(ss, "blocked") THEN "blocked"
    ELSE "pass"

\* The end of runCase and the switch over its result; its locals die with it.
RecordCase(r) ==
    LET category == classifyCase(snap[r], reply[r])
    IN  /\ Goto(r, "record", "tally")
        /\ UpdateTestRun(Case(r), IF category = "pass" THEN "passed" ELSE "failed", snap[r])
        /\ tally' = [tally EXCEPT ![r] = Count(@, category)]
        /\ reply' = [reply EXCEPT ![r] = "ok"]
        /\ snap' = [snap EXCEPT ![r] = <<>>]
        /\ UNCHANGED <<cycles, run, totals, dev, cur, running, binder, agents, deleting, restarts>>

\* The intermediate UpdateCycleRun, whose status is still running.
TallyCase(r) ==
    /\ Goto(r, "tally", "next")
    /\ UpdateCycleRun(r, "running")
    /\ cur' = [cur EXCEPT ![r] = @ + 1]
    /\ UNCHANGED <<cycles, crow, steps, dev, tally, reply, snap, running, binder, agents,
                   deleting, restarts>>

\* Fault: blocked cases do not count against the run.
VerdictOfFailures(t) == IF t["fail"] > 0 THEN "failed" ELSE "passed"

Verdict(t) == IF t["fail"] > 0 \/ t["blocked"] > 0 THEN "failed" ELSE "passed"

FinishCycle(r) == cur[r] > NumCases /\ Finish(r, "next", Verdict(tally[r]), "release")

Release(r) ==
    /\ Goto(r, "release", "done")
    /\ running' = running \ {dev[r]}
    /\ UNCHANGED <<rows, local, binder, agents, deleting, restarts>>

-----------------------------------------------------------------------------
(* The tools.                                                              *)

SelectDevice(d) ==
    /\ "select" \in Faults
    /\ active' = d
    /\ UNCHANGED <<rows, pc, local, running, runs, agents, deleting, restarts>>

CallsOf(x) == {c \in Calls : call[c].by = x}

\* Which step number an agent may report next.
Reportable(x) ==
    IF Disciplined
      THEN IF Pending(x) = {} THEN {Cardinality(CallsOf(x)) + 1} \cap 1..Expected ELSE {}
      ELSE 1..Expected

\* report_step_result resolves the active device ...
ReportStep(c, x, n, status) ==
    /\ call[c].ph = "free"
    /\ conv[x] = "open"
    /\ n \in Reportable(x)
    /\ call' = [call EXCEPT ![c] = [@ EXCEPT !.ph = "resolved", !.by = x, !.no = n,
                                             !.status = status, !.dev = active]]
    /\ UNCHANGED <<rows, pc, local, running, binder, conv, deleting, restarts>>

EndCall(c) == [call EXCEPT ![c] = [FreeCall EXCEPT !.ph = "over", !.by = call[c].by]]

\* ... then looks up the case run bound to it. Without an active device the sole
\* reachable one is taken, but then nothing has been bound since the start.
LookUpBinding(c) ==
    LET d == call[c].dev
        bound == IF d \in Devices THEN runs[d] ELSE None
    IN  /\ call[c].ph = "resolved"
        /\ call' = IF bound = None THEN EndCall(c)
                   ELSE [call EXCEPT ![c] = [@ EXCEPT !.ph = "bound", !.run = bound]]
        /\ UNCHANGED <<rows, pc, local, running, binder, conv, deleting, restarts>>

\* AppendStep, after the screenshot: GetTestRun ...
AppendRead(c) ==
    LET x == call[c].run
    IN  /\ call[c].ph = "bound"
        /\ call' = IF ~Exists(crow[x]) THEN EndCall(c)
                   ELSE [call EXCEPT ![c] = [@ EXCEPT !.ph = "read",
                            !.row = [status |-> crow[x], steps |-> steps[x]]]]
        /\ UNCHANGED <<rows, pc, local, running, binder, conv, deleting, restarts>>

\* ... and UpdateTestRun of everything that was read, with the step appended.
AppendWrite(c) ==
    LET step == [by |-> call[c].by, no |-> call[c].no, status |-> call[c].status]
    IN  /\ call[c].ph = "read"
        /\ UpdateTestRun(call[c].run, call[c].row.status, Append(call[c].row.steps, step))
        /\ call' = EndCall(c)
        /\ UNCHANGED <<cycles, run, totals, pc, local, running, binder, conv, deleting, restarts>>

-----------------------------------------------------------------------------

\* Fault: the sweep's WHERE status = 'running' is missing.
SweptAll(status) == IF Exists(status) THEN "failed" ELSE status

\* UPDATE cycle_runs SET status = 'failed' WHERE status = 'running'.
Swept(status) == IF status = "running" THEN "failed" ELSE status

\* The process dies and starts again. FailStrandedCycleRuns is one transaction
\* and runs before anything else can see the rows.
Restart ==
    /\ restarts < MaxRestarts
    /\ restarts' = restarts + 1
    /\ crow' = [x \in CaseRuns |-> IF crow[x] = "running" /\ run[x[1]] = "running"
                                     THEN "failed" ELSE crow[x]]
    /\ run' = [r \in Runs |-> Swept(run[r])]
    /\ pc' = [r \in Runs |-> IF pc[r] \in Working THEN "crashed" ELSE pc[r]]
    /\ running' = {}
    /\ active' = None
    /\ runs' = [d \in Devices |-> None]
    /\ call' = [c \in Calls |-> IF call[c].ph = "free" THEN call[c]
                                ELSE [FreeCall EXCEPT !.ph = "over", !.by = call[c].by]]
    /\ deleting' = {}
    /\ cur' = [r \in Runs |-> 1]
    /\ tally' = [r \in Runs |-> ZeroTotals]
    /\ reply' = [r \in Runs |-> "ok"]
    /\ snap' = [r \in Runs |-> <<>>]
    /\ UNCHANGED <<cycles, totals, steps, dev, conv>>

ExecutorStep(r) ==
    \/ Claim(r) \/ RejectBusy(r) \/ NoDevice(r) \/ OpenDevice(r) \/ BeginCase(r)
    \/ SkipCase(r) \/ SetActive(r) \/ BindRun(r) \/ UnbindRun(r) \/ Reload(r)
    \/ RecordCase(r) \/ TallyCase(r) \/ FinishCycle(r) \/ Release(r)
AgentEnds(r) == AgentReplies(r) \/ AgentFails(r)
CallStep(c) == LookUpBinding(c) \/ AppendRead(c) \/ AppendWrite(c)

Next ==
    \/ \E r \in Runs, d \in Devices : Start(r, d)
    \/ \E r \in Runs : ExecutorStep(r) \/ AgentEnds(r) \/ DeleteCaseRows(r) \/ DeleteRunRow(r)
    \/ \E c \in Calls, x \in CaseRuns, n \in 1..Expected, s \in StepStates : ReportStep(c, x, n, s)
    \/ \E c \in Calls : CallStep(c)
    \/ \E c \in Cycles : DeleteCycle(c)
    \/ \E d \in Devices : SelectDevice(d)
    \/ Restart

\* Goroutines run on their own, and callAgent returns within its 15 minutes.
Fairness ==
    /\ \A r \in Runs : WF_vars(ExecutorStep(r)) /\ WF_vars(AgentEnds(r))
    /\ \A c \in Calls : WF_vars(CallStep(c))

Spec == Init /\ [][Next]_vars /\ Fairness

-----------------------------------------------------------------------------
(* Properties.                                                             *)

\* A run that reads running has an executor that will end it, also after a
\* restart and however it is raced: ListDueCycles skips every cycle that has
\* such a run, so one without an executor would silence a schedule for good.
RunningHasExecutor == \A r \in Runs : run[r] = "running" => pc[r] \in Working \ {"release"}

\* At most one executor uses a device, the running set is exactly the devices in
\* use, and a device is bound only to the case run its own executor waits for.
DeviceExclusive ==
    /\ \A r, s \in Runs : pc[r] \in Held /\ pc[s] \in Held /\ dev[r] = dev[s] => r = s
    /\ running = {dev[r] : r \in {s \in Runs : pc[s] \in Held}}
    /\ \A d \in Devices : runs[d] # None =>
          \E r \in Runs : pc[r] \in {"agent", "unbind"} /\ dev[r] = d /\ runs[d] = Case(r)

\* A verdict is never taken back: no intermediate update, late report or sweep
\* changes a run that was reported passed or failed.
VerdictIsFinal ==
    [][\A r \in Runs : run[r] \in {"passed", "failed"} => run'[r] \in {run[r], "gone"}]_vars

\* With one device and no conversation outliving its request: a case row that
\* reads running is the one its executor is working on.
CaseOwned ==
    \A r \in Runs, k \in 1..NumCases :
        crow[<<r, k>>] = "running" =>
            cur[r] = k /\ pc[r] \in {"bind", "ready", "agent", "unbind", "reload", "record"}

\* mcp/server.go:111: "BindRun ties a device to a cycle case-run so
\* report_step_result records evidence into it": a case row holds only steps
\* that its own conversation reported.
EvidenceIsOwn == \A x \in CaseRuns : \A i \in DOMAIN steps[x] : steps[x][i].by = x

\* A pass is never less than the reports it was given for: a case row that reads
\* passed still holds at least one step result for every expected step, each of
\* them a pass and from the case's own conversation. With one device and no
\* conversation outliving its request, neither AppendStep's read and later write
\* of the whole row nor the write-back of what runCase reloaded takes one away.
PassIsBacked ==
    \A x \in CaseRuns : crow[x] = "passed" =>
        /\ steps[x] # <<>> /\ Len(steps[x]) >= Expected
        /\ \A i \in DOMAIN steps[x] : steps[x][i].status = "pass" /\ steps[x][i].by = x

\* scenario/cycle.go:221: "A case is only PASS when every expected step was
\* reported and all passed".
PassIsVerified ==
    \A x \in CaseRuns : crow[x] = "passed" =>
        \A n \in 1..Expected : \E i \in DOMAIN steps[x] :
            steps[x][i].no = n /\ steps[x][i].status = "pass"

PassedCases(r) == Cardinality({k \in 1..NumCases : crow[<<r, k>>] = "passed"})

\* As long as no case row was deleted under the executor, the totals column never
\* claims a pass the case rows do not show, and a passed run accounts for every
\* case of its cycle.
RollupMatchesRows ==
    \A r \in Runs : (\A k \in 1..NumCases : crow[<<r, k>>] # "gone") =>
        /\ totals[r]["pass"] <= PassedCases(r)
        /\ run[r] = "passed" => /\ totals[r]["pass"] = PassedCases(r)
                                /\ totals[r]["pass"] + totals[r]["notrun"] = NumCases

\* Every run that was started ends, whatever the agent does and wherever the
\* process dies.
RunsEnd == \A r \in Runs : run[r] = "running" ~> run[r] # "running"

\* Every device a run has claimed is given back, on every path through execute.
DevicesFreed == \A d \in Devices : d \in running ~> d \notin running

=============================================================================
