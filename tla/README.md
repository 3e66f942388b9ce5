# A TLA+ model of OpenCuttles

OpenCuttles (its README calls the product Testral) is an appliance for agentic UI
testing: a Go API over one SQLite database provisions Cuttlefish Android VMs,
drives desktops through a runner that dials home, and executes test cycles by
letting an LLM agent operate a device through MCP tools. This directory holds
TLA+ modules of its concurrent core, TLC models of them, and TLAPS proofs.

Paths below are relative to `src/`; `internal/` stands for `backend/internal/`.

## 1. Inventory

### Process structure

One API process, one SQLite connection (`store.OpenSQLite` sets
`SetMaxOpenConns(1)`): a statement, or a transaction, is atomic; everything a
handler does is interleaved with the others between two statements. Handlers
leave goroutines behind that outlive the request. Outside the process: the
Cuttlefish VMs (they survive a restart of the API), the agent sidecar (its
conversations survive too), and one runner process per desktop.

### Components

| Component | State | Operations | Hard behaviour | Correct means |
|---|---|---|---|---|
| Instance lifecycle: `internal/orchestrator`, `instances` and `operations` rows | state, port, source of an instance; status of an operation; VMs on the host | create, start, stop, delete and their workers; register and delete a desktop or handset; Reconcile at startup | check-then-act on the state; workers that overtake each other; expired contexts that cannot write their own failure; restart between two writes; best-effort clean-up | no instance stuck mid-transition; "running" means a VM; a deleted instance leaves none; ports and numbers not shared |
| Cycle execution: `internal/scenario/cycle.go`, `internal/mcp`, `cycle_runs` and case `test_runs` rows | run and case rows, set of busy devices, active device, device-to-case binding | Start, execute, runCase, SetActive, BindRun, UnbindRun, report_step_result, select_device, deletes, FailStrandedCycleRuns | a global active device; read-modify-write of the case row; agents that outlive their request; deletes under a running executor; restart | a running row has an executor; one run per device; evidence in the right case; a pass is backed by evidence; verdicts final; runs end |
| Runner tunnel: `internal/runnerhub`, `runner/tunnel.go` | sessions, outbox, pending calls, ids, online state of the row | connect, call, send, result, disconnect | late, lost and reordered results; a stream superseded by a newer one; timeouts against late answers | an answer reaches its own call; every call ends; a command runs once; online means connected |
| Scheduler and triggers: `internal/scheduler`, `api/builds.go` | cron, next and last run of a cycle | tick, edits, on-build fan-out | edits that write back a stale next run; runs in flight that silence a schedule | a due cycle fires once per due time, and is not due for ever |
| Images: `ensureImage`, `deleteImage`, `images` rows | image status and build target, files in a directory | find or make a version's row, fetch, self-heal, register, delete; start and stop instances on it | two deployments fetching into one directory; fetches that fail or are cut off; files removed after the row; a catalog or a mode that changes with a restart | a VM is launched on the complete files of the build its image names |
| Builds and installation: `api/builds.go`, `cycle.go`, `runner/control.go` | build rows and artifacts, the runner's `installs` | upload, install over adb, ask a runner and poll it, fetch, verify, run | artifacts fetched while they arrive; retries and late installers; restarts of either side | told "installed" means installed, and what ran is what was uploaded |
| Device watch: `internal/devicewatch` | online state and display size of handsets | register, poll, reconnect | a failed listing read as "nothing is there"; transports that the adb server lost | online follows adb, and nothing stale is written |
| Runner agent: `runner/tunnel.go`, `control*.go` | connection, keys and buttons held down, `installs` | dial loop, commands, input, installs | commands that interleave; a step failing while something is held | nothing stays held down; commands run once |
| Device control and MCP tools: `internal/devicecontrol`, `internal/mcp`, `api/control.go` | active device, rows, addresses | resolve a device, the operations of a tool, adb with one reconnect, the tunnel | the active device, the row, the port and the input size are read at different times | a command reaches the device it is for, once, where it is aimed at |
| Auth: `internal/auth`, rate limiter | users, sessions, attempts | bootstrap, login, request behind one of three guards, logout, prune | concurrent bootstrap; expired rows that are still there; the edge of a sliding window | access takes a live session, or the service token where a route accepts it; attempts are limited |
| Replayed tests: `internal/scenario/runner.go`, `tests` and `test_runs` rows, the recorder in `internal/devicecontrol` | a test run and its steps, its screenshots, the recorder and its file on the device | Start, execute, one step with its attempts, record, finish, delete a test | two runs on one device; a deadline that also ends the statements that report it; recorders and files left behind; screenshots replaced between attempts | a pass is earned; the report follows the run; the evidence is what decided; the video is the run's own; runs end |
| Others: exports, insights, parsing, LLM and vision clients, CA, dashboard, scripts | none of their own | | I/O and formatting | not modelled |

Interaction: the scheduler, the API and the build trigger all call
`CycleExecutor.Start`; the executor sets the MCP server's active device and
binding and calls the agent, which calls back into the MCP server, which writes
the case row; device control reaches desktops through `Hub.Call`, whose
`OnOnline` callback writes the instance row that target selection reads.

`PROJECT.json` lists the hazards with the line at which each one bites and the
properties that watch it.

## 2. Plan

Done, in this order:

1. `InstanceLifecycle`: instances, operations, workers, restart.
2. `CycleExecution`: runs, cases, agent, tool calls, restart.
3. `RunnerHub`, and `RunnerCall`, the abstract specification it implements.
4. `CycleSchedule`: due cycles, edits that write a whole row back, the fan-out
   after a build, restart.
5. `ScenarioRunner`: replayed tests, their evidence and recordings.

6. `DesktopInput`, `DeviceTools`, `BuildInstall`, `Access`, `ImageStore`, checked
   together by `MCAppliance`.
7. `DeviceWatch`, checked with the tunnel by `MCReach`.
8. Proofs of the type invariant and of every safety property that a run checks, of
   the safety part of `RunnerHub => RunnerCall`, and that `MCAppliance` and `MCReach`
   implement their parts.

Next:

9. A restart of the appliance in `RunnerHub`, with the proofs that rest on it.
10. Which of the conditional theorems of section 5 survive with a weaker hypothesis,
   for example `DeletedIsDown` when VMs may die by themselves.

## 3. Modules and the code

Every definition that models code is in `PROJECT.json` under `map` with its
lines. Definitions whose comment starts with "Fault:" are wrong variants of the
definition after them; no specification uses them. Each is paired in
`PROJECT.json` (`mutants`) with a property that fails when the variant takes the
place of the original.

### InstanceLifecycle

An element of `Ops` is one accepted request: its handler, its row in `operations`
and its worker, with a program counter `pc` that runs through both. `st` is the
state column (plus `unborn` and `gone` for no row), `live` the VMs on the host; a
VM belongs to the instance it was launched for and occupies the number derived
from that row's port.

| Code | Actions |
|---|---|
| `createInstance`, `store.CreateInstance` | `CreateInstance`, then `CheckDeploy` for the re-read in `Deploy` |
| `StartInstance`, `StopInstance`, `DeleteInstance`, `Deploy` | `Request` (read and guard), `OpenOperation`, `MarkPending` (UPDATE), `SpawnWorker` (re-read and go) |
| client goes away | `AbortRequest` |
| `runStart`, `runDeploy` | `Begin`, `EnsureImage`, `MarkStarting`, `Launch`, `MarkBooting`, `WaitReady`, `MarkRunning` |
| `runStop`, `runDelete` | `Stop`, `MarkStopped`, `Release`, `Remove` |
| error paths, `finishOp` | `MarkError`, `RowVanished`, `FinishOperation`; `DeadlinePasses` and the outcome `expired`, after which no write of the worker succeeds |
| restart, `Reconcile` | `Crash`, then one `Reconcile(i)` per row; the API serves when `todo` is empty |
| desktops, handsets | `RegisterDevice`, `DeleteRegistration` |

The host commands (`launch`, `stop`, `waitReady`, `clearStaleGroup`) are sets of
outcomes: what the command reports and which VMs it leaves. `Toolchain`
distinguishes the legacy tools, on which `clearStaleGroup` does nothing;
`ExecuteCvd` FALSE is the dry run.

### CycleExecution

One executor per run (`pc`, and its locals `dev`, `cur`, `tally`, `reply`,
`snap`), one conversation per case run, and `Calls`, the report_step_result calls
of a behaviour. A call takes four steps, as in the code: resolve the active
device, look up the binding, read the row, write the row. The executor's steps are
the statements of `execute` and `runCase`. `steps[x][i].by` remembers which
conversation reported a step; the code does not have it and only properties read it. Agents report
any step any number of times, in any order; with `Disciplined`, which only the run
`cycle_evidence` sets, they follow the prompt of `renderCasePrompt`: each numbered step
once, in order. `Restart` contains the whole startup sweep, which is one
transaction that runs before anything else.

### RunnerHub and RunnerCall

One device (the hub is keyed by device id). `handler` is the StreamHandler
goroutine of each stream, `pc` the goroutine of each `Hub.Call`; the runner
executes each command in a goroutine of its own, so results are reordered freely.
`ResultHandler` is two steps, as in the code: pick the registered session
(`PostResult`), then `resolve`. `via` and `call` in a command are for the
properties. An error the runner reports is an answer like any other.

`RunnerCall` is what callers rely on: a call ends with the answer to its own
command or with an error, and the command runs at most once, perhaps after the
caller gave up. `RunnerHub` instantiates it with a refinement mapping
(`Abstract`), checked as the property `KeepsPromise`.

### CycleSchedule

The rows of `test_cycles`, reduced to cron, next run and the two switches, the
rows of `cycle_runs` that read running, the scheduler's loop (`due`, `item`,
`now`) and the API requests.

| Code | Actions |
|---|---|
| `Scheduler.tick` | `Tick` (the query), then `Advance` and `Fire` for each listed cycle |
| `createCycle` | `CreateCycle` |
| `updateCycle`, `updateCycleSchedule` | `EditSchedule` (read, `applyCron`), then `UpdateTestCycle` |
| `updateCycleCases` | `EditCases` (read), then `UpdateTestCycle`: the whole row is written |
| `deleteCycle`, `deleteCycleRun` | `DeleteTestCycle` with its cascade, `DeleteCycleRun` |
| `runCycle`, `uploadBuild` | `RunCycle` or `ListCyclesForBuild`, then `StartRequested` per cycle |
| restart, `FailStrandedCycleRuns` | `Restart` |

Time is counted in half seconds because the database compares timestamps as text:
`formatTime` leaves out a zero fraction, so the next run "12:00:00Z" sorts after
"12:00:00.5Z" of the same second (`TextLeq`). A cron spec is modelled by its
period; `NextIn` is the first multiple after a time, or, for the specs of `Never`,
which parse but match no date, `ZeroTime`, as in the cron library. The branch of `tick`
for a spec that does not parse is left out: every spec in a row has been parsed by
`applyCron`. Which device is chosen does
not matter here: a start may find one or none. What a run does between its INSERT
and its verdict is `CycleExecution`; `RunEnds` stands for it.

### ScenarioRunner

An element of `Runs` is one replayed test: the request, its goroutine (`pc`) and
its `test_runs` row. A screenshot is the number of the screen it shows, so that
"older" and "the one that decided" can be said. `ground`, `filmed` and `alone` are
not in the code: the screenshot the sidecar last judged, the runs whose recorder
really started, and the runs that never shared their device; only properties read
them. `rec` and `file` are the screenrecord processes and the recording file on the
device, by the runs they belong to.

| Code | Actions |
|---|---|
| `runTest`, `Runner.Start` | `Read` (test and instance), `Start` (INSERT and go) |
| `execute` up to the loop, `StartRecording` | `MakeDir`, `KillStale`, `StartRecorder` |
| `runStep`, `groundAndTap` | `Screenshot` and dispatch, `Act`, `Wait`, `Judge` (Locate or Query), `Recapture`, `Tap` |
| `execute` after a step | `AppendResult` (result and UPDATE), `Settle` |
| `StopRecording`, `finish` | `StopRecorder`, `PullVideo`, `EraseFile`, `Finish` |
| 15 minutes | `Deadline`: from then on commands, sidecar calls and statements of the run fail |
| `DeleteTest` | `DeleteTestRuns`, `DeleteTestRow` |
| restart | `Restart`; nothing sweeps these rows |

A test is a sequence of step kinds, which is what `Classify` finds in the texts and
the code branches on; what the sidecar sees in a picture is a free choice. A rewrite of the step's screenshot between attempts may fail when the
file is opened, which leaves the older picture, or after it was truncated, which leaves
a torn one (`Rewrite`); `lost` remembers it, for the properties, since the code drops the
error. `Faults` names what may go wrong: `adb` commands, `vision` calls, `disk` writes, the
`deadline`, `kill` (pkill does not end a recorder) and `silent` (the recorder, put
in the background, does not start). The locals of `runStep` are reset when its
result is appended.

### DesktopInput

What a runner does with a click, text, key, chord or drag. `status` is a command's
goroutine, `rest` what its loop has still to go through, `todo` the events of the
current turn; `held` is the state of the operating system. `Receive` contains the
refusals of the three platforms (`virtualKey`, `x11Keysym`, `macKey`, `macChord`,
`macClick`). On Windows every event is a step; on Linux and macOS all but a drag is
one external command, hence one step. `LetGo` is the deferred release of a chord's
modifiers and of a drag's button; `lost` holds what is down because the command
that should release it failed.

### DeviceTools

One call of a tool of the MCP server or of the control API. `Plans` gives, for every
tool, the sequences of `devicecontrol.Service` operations its handler can make, and
`Script` the commands of an operation as hard (a failure ends it) or soft. `Call`
settles on a device (`resolveDevice`), `CheckRow` is a tool's own look at the row,
`Gate` the `resolve` of each operation, `Send` one command through `adb`, with its reconnect and
repetition for every host:port address (`TcpAddresses`: a VM's loopback port and the
handsets connected over TCP, not those on USB), or through the tunnel. Beside the call other clients
select devices, VMs stop and hand their port on, handsets and runners come and go,
the adb server forgets its transports and displays are resized. Instance ids are
never used again, so the VM that takes over the port of the call's VM is another one.
Calls only share the active device, so one call and `select_device` of another client
are enough.

### BuildInstall

`uploadBuild` as `CreateBuild`, `Stream`, `SetBuildLocation` and `UploadFails`; the
cycle's side as `BeginInstall`, then `InstallAPK`, or `install_app`,
`install_status` and `GiveUp`; the runner's goroutine as `fetchBuild`, which
includes the comparison of the checksum, and `RunInstaller`. `installs` is the map
of that name in the runner, `ran` what an installer accepted, for the property.
Both sides restart, and an artifact on the disk may rot.

### Access

`bootstrapAdmin` is a count (`Bootstrap`) and an insert (`InsertAdmin`); `Login`
creates a session, `Request` is the middleware: `require` takes a session
(`GetSessionUser`), `serviceTokenOnly` the service token the process was configured
with, `mcpAuth` either. `Logout`, and `Restart` with `PruneExpiredSessions` and perhaps
another service token. `allow` is the rate limiter: it drops
what left the window, refuses without counting, or counts. `admitted` is every
attempt it ever let through, for the property, and `attempts` the ones it still
keeps. `Copy` is a cookie used from a second browser.

### ImageStore

One Android version and its directory. A deployment goes through `GetVersionImage`
or `CreateVersionImage` (`GetOrCreateVersionImage` is a query and an insert), or
names a row (`NameImage`), `InsertInstance`, `ReadImage`, `EnsureImage` or
`EnsureUnseen` (dry run), `BeginFetch`, `EndFetch`, `MarkImage` and `Launch`. That is the only time
an instance's image is seen to: `StartInstance`, from stopped or after a failure, goes
straight to `Launch`, on the files that are there and whatever the image's row says,
as `runStart` does. `StopInstance` also stands for a boot that failed. A restart fails
what was being launched and leaves what was being provisioned (`stuck`) to be deleted. `DeleteImage` removes the row and `RemoveFiles` the
directory. `sound` remembers whether the last launch found the complete files of the
build its image names, or was a start from a row that did not read ready; `muddled` is set when two had the directory, or rows for it, at
once, which the property leaves out.

### DeviceWatch

Handsets (`link`), the adb server's TCP transports (`transport`), the rows and the
poller. A poll is `BeginPoll` (rows), `FirstListing`, `ConnectOne` per unlisted or
offline TCP target, `SecondListing`, then `ReconcilePhone` row by row, with
`ReadSize` and `WriteDisplay` for one that came online. A listing or a statement may
fail; a failed listing is an empty one, as in the code. `since` collects what adb
had to say of a handset since the poll began and `excused` the rows whose size
changed or could not be read; only the properties read them.

### MCAppliance, MCReach, MCCycleSchedule and MCScenarioRunner

Parts that share no state are put together in one model. A variable `focus` picks
the part that moves and never changes, so the reachable states are the sum, not the
product, of those of the parts. That loses nothing: no property speaks of two
parts, and a step of one is a stutter of the others (`ApplianceImplementsParts` and
`ReachImplementsParts` prove the latter). In `MCReach` the properties of
the part that does not move hold of its initial state, which its fairness accepts
because nothing of it is enabled: no stream or call has begun, and the poller finds
no rows.

`MCCycleSchedule` puts the scheduler beside an instance of `CycleExecution`. The
scheduler's fairness takes for granted that runs end, and the same run shows that they
do (`RunsEnd`). `MCScenarioRunner` has `ScenarioRunner` twice in the same variables: one
run with every kind of step and every fault, and two runs on one device with fewer
faults and a restart. `TheRunGetsVerdict` is `RunGetsVerdict` of the first, whose
fairness the specification has; the invariants are checked of both.

## 4. Runs

| Run | Bounds | Shows |
|---|---|---|
| `lifecycle_races` | 1 instance, 3 overlapping requests, failing commands and VMs | `OperationsFinish`, `InstancesSettle`, `FinalIsFinal` |
| `lifecycle_serial` | 2 instances, 3 requests, one at a time per instance, expired contexts, cancelled requests, 2 restarts | `TransitionOwned`, `RunningIsReal`, `DeletedIsDown`, `PortsDistinct` |
| `cycle_races` | 2 runs, 2 devices, 1 tool call, timeouts, deletes, 1 restart | `RunningHasExecutor`, `DeviceExclusive`, `VerdictIsFinal` |
| `cycle_cases` | 2 runs, 1 device, 2 cases of 2 steps, 2 tool calls, failing agents, stores and selections | `CaseOwned`, `EvidenceIsOwn`, `PassIsBacked`, `RollupMatchesRows` |
| `schedule` | scheduler: 1 cycle, with both triggers at first, 2 runs in flight, 2 requests, a spec of 1 second and one that matches no date, clock from 2 to 4 half seconds, 1 restart; execution: 2 runs, 1 device, 1 case, 1 tool call, timeouts, 1 restart | `ArmedHasNext`, `OneCronRun`, `DueIsHandled`; `RunsEnd`, `DevicesFreed` |
| `scenario` | first: 1 run, tests with every kind of step, 4 and 3 attempts as in the code, 3 screens, every fault; second: 2 runs of a one-step test on 1 device, deadlines, silent recorders, 1 restart, nobody deletes the test | `PassIsEarned`, `EvidenceGrounds`, `TheRunGetsVerdict`, `RowTellsRun`, `VideoIsOwn` |
| `hub_races` | 3 streams, 2 calls, outbox of 1 | `SessionAnswersOwn`, `OnlineHasSession` |
| `reach` | tunnel: 1 stream, 2 calls, outbox of 1; watch: 2 handsets (1 over TCP), 1 row, 2 changes of the world, 1 failing command | `KeepsPromise`, `RowsFollowHandsets`, `WritesWereSeen` |
| `appliance_parts` | input: 2 commands, drags of 2 moves, 5 chords; tools: 1 call of any tool, 2 VMs that share a port, one of them without it at first, 2 handsets (1 over TCP), 1 desktop, at most one handset or desktop answering at first, 2 moves beside it; installation: 2 builds, 2 cycle runs, 2 troubles; access: 2 browsers, 1 name, 1 session token, 1 service token or none, 1 attempt per window of 2 ticks, sessions of 1 tick, clock to 2, 1 restart; images: 2 rows, 2 deployments, 2 catalog builds, 2 upsets | `NothingStaysHeld`, `CommandsArriveAsMeant`, `InstallsAreVerified`, `AccessIsEarned`, `LaunchesAreWhole` |

Why the bounds are enough. Three requests give a worker that overtakes another
while a third is being accepted; two instances are what a shared port or number
needs, and three requests let one be created, deleted and replaced; two restarts
let Reconcile itself be interrupted. Two runs are what a
conflict over a device, or over the active device, needs, and two tool calls what a case of two steps needs to pass, with both
reports, with one report twice, or with one left out. Three streams let a session be superseded by one
that is itself superseded; the code's outbox of 16 is cut to 1 so that it fills
up. One cycle is enough for the scheduler, because cycles share nothing there; two
requests are an edit that went stale and a trigger or a second edit. The clock
starts on a second that may be due, passes a fraction and ends on a whole second:
it must not end on a fraction, where the text comparison would wait for ever. Steps
of a replayed test only meet through the device, so one run shows what a step may
do and two what runs leave to each other; three screens let a target appear, go
and be missed.

For the parts of `appliance_parts` and `reach`: two commands are what one that is
still running and one that overtakes it need, and two moves put a failure in the
middle of a drag; a port is handed on by two VMs and two moves (one stops being the
port's VM, the other becomes it); two cycle runs let one give up and the next find
what the first left, with a restart and a failure between them; a limit of one
attempt and a window of two ticks put every attempt at an edge of the window, and a
session expires while its row is still there; two deployments are one that fetched
and one that trusts or repairs what it left, with a failure and a restart or a new
catalog between; one row is enough for the poller because it treats rows one at a
time and shares only the listing, in which the second handset is the wrong one. One session token and one name are enough there because a token is given once; the service token is there, is not, or appears with a
restart. What the proofs cover holds without these bounds.

Preconditions stated in the properties' comments: `RunningIsReal` and
`DeletedIsDown` are about requests that do not overlap on an instance
(`Overlap = 1`): with overlapping requests a stop may take down the VM that a
start has just launched. They assume VMs do not die by themselves and that the
group clean-up works. `CaseOwned`, `EvidenceIsOwn`, `PassIsBacked` and
`RollupMatchesRows` need one device and conversations that end with their request.
`PassIsBacked` counts results, as the code does: that they are of different steps is not
so (`cycle_verified`). `DueIsHandled` is about specs that match some date
(`schedule_spin`). `EvidenceGrounds` says of a step whose screenshot file could not be
rewritten only that the file shows nothing later than what decided. `VideoIsOwn` is about runs that had the
device to themselves and whose recorder started, and assumes that pkill works
(`"kill" \notin Faults`); `RowTellsRun` and `TheRunGetsVerdict` are about runs that keep
their deadline. `NothingStaysHeld` excepts what is held because the releasing command
itself failed. `CommandsArriveAsMeant` excepts a VM that stopped after the operation
had read its row, a command over a host:port address
whose own output says "not found", which runs twice, and an input size that
could not be read or changed meanwhile. `InstallsAreVerified` excepts builds stored
without a checksum. `LaunchesAreWhole` is about a
directory that one deployment, under one row, uses at a time; of a start, which ensures
nothing, it speaks only while the image's row reads ready. `RowsFollowHandsets` leaves out the size of a handset that was
resized while online, which the code reads only when a row comes online. None of the models takes deadlock as
an error: a behaviour ends when its requests, runs or calls are used up.

Runs that find a disagreement between the code and what a document or comment
says of it; `PROJECT.json` quotes the lines:

| Run | The code |
|---|---|
| `cycle_evidence` | with two devices, evidence goes to the active device's case |
| `cycle_verified` | a step reported twice stands in for one nobody reported, and the case passes, against `cycle.go:221` |
| `schedule_spin` | a cycle whose cron spec matches no date (30 February) is given the zero time and is due, and started, at every tick, against `scheduler.go:60` |

Seen while modelling, without a run of their own: Reconcile has no case for
`provisioning`, so a restart during a deployment leaves the row in a state from
which neither start nor stop is accepted, while `docs/architecture.md` says that
instances stranded mid-transition move to `error` (`TransitionOwned` leaves that
state out); `updateCycleCases` writes every column of the row it read back, so the
next run that the scheduler has advanced in between returns to its old value and the
cycle is due a second time (`EditCases`, `Advance`, `UpdateTestCycle`);
`finish(ctx, run, false, "run timed out")` writes with the context that has just
ended, so a replayed test that meets its deadline reads running for ever and that
verdict is never stored, and a replayed test the process died under stays running
too, because the startup sweep looks for cycle runs; its evidence after the last
failed attempt is a screenshot nobody judged, and when a screenshot could not be
rewritten the report shows an older one than decided, or a torn file, and nothing says
so (`runner.go:233`, `267`); a recorder that silently failed to
start gives the run the file an earlier one left; the recording stops after 180
seconds although a run may take 15 minutes; a run started while its test is being
deleted leaves a row without a test. `Runner.Start` asks for the state running,
which handsets and desktops, being online, do not have. `nextPortsTx` takes MAX over
all rows, and desktops and handsets have port 0, so the first VM after a
registered device gets port 1; on the legacy toolchain a delete hands its
worker the row already set to `deleting`, so that the VM is not stopped, its group
is not released, and its number goes to the next instance; command ids restart at
1 in every tunnel session, so the late result of an old session answers the call
with the same id in the new one; a case whose cycle was deleted while it ran
survives the startup sweep as running, because the sweep finds it through the
deleted run. Not contradicted by any document: an operation whose
handler loses its row to a delete stays running; a worker out of time leaves both
rows as they are; a late AppendStep can put a finished case row back to running;
a scheduled run that starts between a verdict and the release of its device fails
as busy; a cycle whose cases were all deleted counts as passed.

In the tunnel: a superseded stream's handler calls `OnOnline(false)` when it notices
(`hub.go:211`), which may come after the new stream reported online, so that a
connected desktop reads offline until it dials in again, while the comment at
`hub.go:130` has the callback follow the session. In the runner: an entry of
`installs` is never cleared, so that installing an earlier build once more is reported
done without being done, a failed installation stays failed until the runner restarts,
and one that was interrupted by a restart reads "unknown" until the cycle's six
minutes are over; an installation that was given up may finish after the next build's;
`install_status` reads the entry after it has unlocked the map. In device control: adb
repeats a command on a host:port target, a VM or a handset over TCP, when the command's
own output says "not found"; a
VM's port may be handed on between the look at the row and the command; when the input
size cannot be read a tap is scaled by the screenshot; Perf on a desktop returns
nothing without an error; a poll whose second listing fails writes every handset
offline. Of accounts: two concurrent bootstraps with different names both create an
administrator. Of images: an instance whose fetch failed is
in `error`, from which the console offers a start, and `runStart` (`service.go:162-171`)
launches without `ensureImage` on whatever part of the image is there; one whose fetch a
restart cut off stays in `provisioning` and can only be deleted; two concurrent deployments make two rows for one directory
and fetch into it at once; a row given a new build is marked ready by the fetch of the
old one; a deletion removes the files under a row that was made after its own was
deleted (`server.go:606`); dry-run mode marks left-over files ready.

### Fairness

Weak fairness per goroutine: handlers, workers, executors and tool calls run on
their own, and everything they wait for has a deadline in the code (worker
contexts of 2 to 60 minutes, 15 minutes per case and per replayed test, 30 and 60
seconds per command and 90 per call of the sidecar, `sendTimeout` and
`callTimeout`). No fairness for requests, agents' reports, the network or
restarts. The scheduler's loop and the clock are weakly fair (a ticker of 30
seconds), and a run ends because `RunsEnd` of `CycleExecution` says so.
The poller is weakly fair (`Watcher.Run` polls every five seconds, and its commands have
timeouts); nothing is assumed of handsets, the adb server or failures but that they are
finitely many in a behaviour, without which no row could settle. `lifecycle_races` leaves out expired contexts and
restarts, after which an operation indeed stays running.

## 5. Proofs

| Module | About |
|---|---|
| `InstanceLifecycle_proofs` | `InstanceLifecycle` |
| `CycleExecution_proofs` | `CycleExecution` |
| `CycleSchedule_proofs` | `CycleSchedule` |
| `ScenarioRunner_proofs` | `ScenarioRunner` |
| `RunnerHub_proofs` | `RunnerHub`, and that it implements `RunnerCall` |
| `Reach_proofs` | `DeviceWatch`, and with it and `RunnerHub_proofs` the composition `MCReach` |
| `Stores_proofs` | `BuildInstall`, `Access`, `ImageStore` |
| `Appliance_proofs` | `DesktopInput`, `DeviceTools`, and with them and `Stores_proofs` the composition `MCAppliance` |

They establish what follows for every value of the constants that satisfies the
named assumption of each module (`ConstantsAssumption`, `CycleAssumption`,
`ScheduleAssumption`, `ScenarioAssumption`, `HubAssumption`, `InstallAssumption`,
`AccessAssumption`, `ImageAssumption`, `WatchAssumption`, `InputAssumption`,
`ToolsAssumption`), which TLC evaluates in the runs. Three groups of theorems have a
hypothesis of their own besides: `Serial`, `Solo` and `OneStream`, below.

* The type invariant of each module and of the two compositions. For `DesktopInput` it
  takes `KeysInv`, that commands press only keys and buttons they may press;

Instance lifecycle:

* `TransitionOwned`, which is inductive given the types. An action
  that ends a request writes a settled state, or leaves `gone`, before it stops being an owner; a restart puts every row in
  `todo` and Reconcile settles it;
* `PortsDistinct`, from `PortInv`: a new row's port exceeds every port in the table, and ports of
  rows never change;
* `FinalIsFinal`: an operation row is written only by its own worker, whose `pc`
  says that it has not finished; the proof needs `OutcomeInv`, that a
  finished operation's request is `done`;
* `RunningIsReal` and `DeletedIsDown` under `Serial`: requests for one instance do not
  overlap, the tools are cvd's and executed, group clean-up works and VMs do not die by
  themselves. Each of these is a way in which the code does lose one property or the
  other; commands may still fail, deadlines pass, requests be cancelled and the process
  restart at any point and any number of times.
  `SerialInv` says that a request is alone with its instance, also without the startup
  sweep (`OneAtATime`), that while a worker may touch the VM the row is mid-transition,
  with the VM up when it is about to say running and down when the row is about to go
  (`HeldRows`), and that only provisioned rows have VMs (`VmsHaveRows`). With
  `PortsDistinct` that makes the VM a command finds by its number the instance's own
  (`OwnGroup`), which the properties presuppose and neither states.

Test cycles:

* `RunningHasExecutor` and `VerdictIsFinal`, from `VerdictInv`: the status of a run
  row as a function of where its executor is. The property alone is not inductive,
  since it does not say that a finished executor has written its verdict;
* `DeviceExclusive`, from the three parts `Exclusive`, `RunningSet` and
  `BindingOwned`, each of which needs the others;
* `CaseOwned` and `EvidenceIsOwn` under `Solo`: one device, no conversation that
  outlives its request, no restart, which is what makes the active device the right
  one. `cycle_evidence` shows what two devices do; after one restart TLC finds all
  three of `CaseOwned`, `EvidenceIsOwn` and `RollupMatchesRows` violated, because the
  agent's conversations survive it and report into whatever is bound then. `SoloInv` relates four actors:
  a case row reads running while its executor is at that case (`RowInv`), the open
  conversation is the one the device is bound to (`ConvInv`), a tool call in flight
  between its four steps belongs to that conversation and holds a row that still reads
  running (`CallInv`), and what `runCase` has reloaded is its own case's (`SnapInv`);
* `PassIsBacked` under `Solo`, for agents that report what they like, from `SnapFresh`
  (what `runCase` has reloaded is what the row holds) and `StepsStay` (only the case's
  own conversation, over by then, changes what a row holds). That the
  results cover every step is not claimed: `classifyCase` counts them;
* `RollupMatchesRows` under `Solo`, from `TallyInv`: the tally is at every point of the
  executor the number of case rows it has recorded, and its parts add up to the cases
  done; `Cardinality` of the passed rows follows the counter one case at a time;
* `ArmedHasNext`, from `ArmedInv`, which adds that the rows requests are about to
  write back are armed as well;
* `OneCronRun`, from `SoloInv`: a tick lists a cycle once and only without a run in
  flight, so a cycle still to be started has no scheduled run until then;

Replayed tests:

* `PassIsEarned` and `RowTellsRun`, from `VerdictInv`: what the results so far, the
  flag `ok` and the row are at each point of the goroutine. The properties only look
  at the row, and say nothing of a goroutine that is about to write it;
* `EvidenceGrounds`, from `EvidenceInv`: between two attempts the screenshot in hand,
  the file and the last judged screenshot are ordered, one way while every rewrite has
  worked and the other after one was `lost`, and after a find the first and the last are
  equal;
* `VideoIsOwn`, if pkill works, from `VideoInv`: a run that has its device to itself
  is the only busy one there, finds no recorder alive when it starts its own, and from
  then on the file holds no pictures but its own;

Tunnel and device watch:

* `ClosedIsUnregistered` and `OnlineHasSession`, from `LifeInv`: which handler
  states a registered, closed or superseded session may be in;
* `SessionAnswersOwn`, from `IdsInv` (ids in use are at most `seq`, belong to one
  call, and each pending entry is that of its call) and `TravelInv` (every command
  in the outbox, at the runner or on its way back is `Genuine`: it carries the id
  and the session of its call);
* that no command is executed twice, over any number of streams, from `OnceInv`: a
  command is in one place only, and what was executed or is being executed was sent and
  will not be sent again;
* that `RunnerHub` implements `RunnerCall!SafeSpec` under `OneStream`, step by step from
  `HubInv` (the invariants above and `BackInv`: what travels back, or was delivered, was
  executed). The hypothesis is needed: ids restart in every session, so after a
  reconnect an old session's late result can answer the new session's call;
* `WritesWereSeen`, from `TargetInv` (a row and the poller's copy of it name one
  handset, because ids are not used again) and `SeenInv` (the listing a poll goes by
  was made while it ran, or failed);
* `MCReach` implements both with their fairness, so all of this holds of it.

Appliance:

* `InstallsAreVerified`, from `UploadInv` (a row has a path only once its file is
  complete), `RunnerInv` (what a runner holds or ran was located, is never partial, and
  is rotten only without a checksum; "done" means that an installer accepted it) and
  `AnswerInv`. It needs the order of `uploadBuild`, which writes path and checksum in
  one statement after the file;
* `AccessIsEarned`, from `SessionInv` (a session row belongs to an account and was not
  closed, and a token is given once; what was let in on a
  service token carries that of the running process) and `LimiterInv`: the limiter has kept every
  admitted attempt younger than a window. The code counts what it kept at one moment;
  the property is about every window in any history, so the proof takes the
  last attempt of a window and shows that all the others in it were still kept then;
* `LaunchesAreWhole`, from `ImageInv`: as long as nothing was `muddled`, the directory
  has one row, that row and the files agree (`RowsTrue`), and what each
  deployment carries from its reads is still true of both (`DeployClean`). A start has
  read nothing, and relies on `RowsTrue` alone: it is whole when the row reads ready;
* `CommandsArriveAsMeant`, from `ToolsInv`: the VM that has a row has the port
  (`RowsInv`), and at each point of a call what was read before is still so, or the call
  has `moved` or `resized` recorded against it, or its VM is `Away` for good (`CallInv`).
  The last holds because ids are not used again. The proof goes through every tool's plan
  by lemmas about scripts and outcomes (`UnsentArrives`, `AdbCounts`, `Delivered`), not
  by cases;
* `NothingStaysHeld`, from `TurnInv` (what the events of a turn press they release, and
  off Windows only a drag spans several) and `HeldInv`: whatever is held, and not lost,
  is owed by some busy command (`Owes`), in its slice of held keys or among its next
  events. The property speaks of moments when no command runs and says nothing while
  commands interleave;
* `MCAppliance` implements its five parts, so their properties hold of it together.

`ClosedIsUnregistered` and the single execution of commands are proved and no run checks
them by themselves.

A proof found a flaw in a model. In `DeviceTools` a deleted VM could be created again under
the id the call still held; `CommandsArriveAsMeant` then fails, but only after more moves
than the run allows, so the bound had hidden that the model did not have the code's
fresh ids. It now has them.

Only model-checked: everything under fairness (`OperationsFinish`,
`InstancesSettle`, `RunsEnd`, `DevicesFreed`, `DueIsHandled`, `TheRunGetsVerdict`,
`RowsFollowHandsets`, and of `KeepsPromise` that an issued call ends), since liveness
and ENABLED are out of the prover's reach. The hypotheses `Serial`, `Solo` and
`OneStream` are satisfied by the runs `lifecycle_serial`, `cycle_cases` and `reach`, which
check the same properties.

## 6. Not modelled

Presentation, exports, insights, parsing, the LLM and vision clients, certificates,
proxies and installation scripts have no protocol of their own. The retention sweep
deletes files by age in days; notifications are one request without retries;
migrations run before anything else. The library of test cases and the settings are
single statements. Of the runner, the wizard, the tray, the service registration and
the backoff between dials are left out: no property here depends on how long it waits. Failures of single SQL
statements are not modelled, except the insert of a case run. In the hub a
restart of the appliance, and in the lifecycle the console URL, are left out; the
image table, of which the lifecycle knows that `EnsureImage` succeeds or fails, is in
`ImageStore`. Out of the prover's reach are liveness under fairness and what a
recursive definition computes.
