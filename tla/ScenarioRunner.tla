--------------------------- MODULE ScenarioRunner ---------------------------
(***************************************************************************)
(* Replayable tests: scenario.Runner takes a test's steps one by one, each *)
(* on a fresh screenshot that the vision sidecar grounds, and films the    *)
(* session with the device's own recorder. Every run has a goroutine with  *)
(* a deadline of 15 minutes; nothing keeps two runs off one device, and    *)
(* they share its screen, its recorder and the one recording file.         *)
(*                                                                         *)
(* After the deadline every command, every call of the sidecar and every   *)
(* statement on the database fails, because they all use the run's         *)
(* context. A screenshot is represented by the screen it shows, numbered   *)
(* in the order in which the device displayed them.                        *)
(***************************************************************************)
EXTENDS Integers, Sequences, FiniteSets

CONSTANTS
    Runs,        \* bound: runs started
    Tests,
    Plans,       \* what tests may consist of: steps, by what their verb demands
    Devices,
    None,
    Torn,        \* a screenshot file whose last rewrite failed after truncating it
    Gone,        \* a row that was deleted
    LocateTries, \* attempts to find a target
    QueryTries,  \* attempts to find an expected text
    ExecuteCvd,  \* OPENCUTTLES_EXECUTE_CVD
    Faults,      \* what may go wrong
    MaxScreens,  \* bound on what a device displays
    MaxRestarts  \* bound on restarts of the API process

\* What Classify finds in the text of a step. "act" is a key, a known app, a
\* swipe, or typing into the field that has the focus: one command.
Kinds == {"act", "wait", "tap", "type", "assert", "unknown"}
FaultKinds == {"adb", "vision", "disk", "deadline", "kill", "silent"}

ASSUME ScenarioAssumption ==
    /\ Plans \subseteq Seq(Kinds) \ {<<>>}
    /\ LocateTries \in Nat \ {0} /\ QueryTries \in Nat \ {0}
    /\ ExecuteCvd \in BOOLEAN /\ Faults \subseteq FaultKinds
    /\ MaxScreens \in Nat /\ MaxRestarts \in Nat
    /\ None \notin Nat /\ Torn \notin Nat /\ None # Torn /\ None # Gone

VARIABLES
    pc,        \* where a run's goroutine is
    testOf, dev,
    plan,      \* test.Steps, as Start read them
    expired,   \* runs whose deadline has passed
    shot,      \* the screenshot in hand
    disk,      \* what the step's screenshot file shows
    lost,      \* runs whose last rewrite of that file failed, for the properties
    ground,    \* the screenshot the sidecar last judged, for the properties
    tries,     \* attempts so far at this step
    ok,        \* the result of the step, and in the end of the run
    steps,     \* run.Steps
    video,     \* whose pictures session.mp4 holds
    recording,
    row,       \* test_runs
    test,      \* tests: the steps of each
    doomed,    \* tests whose runs a DELETE has removed
    inst,      \* the state of the instance: TRUE is running
    screen,    \* what the device displays
    rec,       \* whose screenrecord processes are alive on the device
    file,      \* whose recorders wrote the device's recording file
    filmed,    \* runs whose recorder really started, for the properties
    alone,     \* runs that have had their device to themselves, likewise
    restarts

stepVars == <<shot, disk, lost, ground, tries, ok>>
runVars == <<testOf, dev, plan, steps, video, recording>>
testVars == <<test, doomed>>
deviceVars == <<inst, screen>>
recVars == <<rec, file, filmed>>
vars == <<pc, expired, stepVars, runVars, row, testVars, deviceVars, recVars, alone, restarts>>

-----------------------------------------------------------------------------

Frames == Nat
\* A step's result: whether it passed, what its screenshot file shows, whether the
\* last rewrite of that was lost, and the screenshot the step was judged by, if the
\* sidecar judged one.
Results == [pass : BOOLEAN, evidence : Frames \cup {None, Torn}, lost : BOOLEAN,
            ground : Frames \cup {None}]
Rows == [status : {"running", "passed", "failed"}, steps : Seq(Results),
         video : SUBSET Runs]
Working == {"dir", "record", "film", "shot", "act", "wait", "locate", "tap", "text",
            "query", "again", "append", "settle", "stop", "pull", "erase", "finish"}
Points == Working \cup {"idle", "insert", "refused", "done", "dead"}

TypeOK ==
    /\ pc \in [Runs -> Points]
    /\ testOf \in [Runs -> Tests] /\ dev \in [Runs -> Devices]
    /\ expired \subseteq Runs /\ filmed \subseteq Runs /\ alone \subseteq Runs /\ lost \subseteq Runs
    /\ shot \in [Runs -> Frames]
    /\ disk \in [Runs -> Frames \cup {None, Torn}]
    /\ ground \in [Runs -> Frames \cup {None}]
    /\ tries \in [Runs -> Nat]
    /\ ok \in [Runs -> BOOLEAN] /\ recording \in [Runs -> BOOLEAN]
    /\ plan \in [Runs -> Plans \cup {<<>>}] /\ steps \in [Runs -> Seq(Results)]
    /\ video \in [Runs -> SUBSET Runs]
    /\ row \in [Runs -> Rows \cup {None, Gone}]
    /\ test \in [Tests -> Plans \cup {Gone}] /\ doomed \subseteq Tests
    /\ inst \in [Devices -> BOOLEAN] /\ screen \in [Devices -> Frames]
    /\ rec \in [Devices -> SUBSET Runs] /\ file \in [Devices -> SUBSET Runs]
    /\ restarts \in Nat

Init ==
    /\ pc = [r \in Runs |-> "idle"]
    /\ testOf \in [Runs -> Tests] /\ dev \in [Runs -> Devices]
    /\ expired = {} /\ filmed = {} /\ alone = {} /\ lost = {}
    /\ shot = [r \in Runs |-> 0]
    /\ disk = [r \in Runs |-> None] /\ ground = [r \in Runs |-> None]
    /\ tries = [r \in Runs |-> 0]
    /\ ok = [r \in Runs |-> TRUE] /\ recording = [r \in Runs |-> FALSE]
    /\ plan = [r \in Runs |-> <<>>] /\ steps = [r \in Runs |-> <<>>]
    /\ video = [r \in Runs |-> {}]
    /\ row = [r \in Runs |-> None]
    /\ test \in [Tests -> Plans] /\ doomed = {}
    /\ inst = [d \in Devices |-> TRUE] /\ screen = [d \in Devices |-> 0]
    /\ rec = [d \in Devices |-> {}] /\ file = [d \in Devices |-> {}]
    /\ restarts = 0

Goto(r, point) == pc' = [pc EXCEPT ![r] = point]
Kind(r) == plan[r][Len(steps[r]) + 1]
Stored(r) == row[r] \notin {None, Gone}

\* resolve reads the row of the instance and refuses one that is not running; a
\* command then needs the VM and time. A command that adb answers with "not
\* found" has been tried again after adb connect.
Reachable(r) == ExecuteCvd /\ inst[dev[r]] /\ r \notin expired
CommandFails(r) == ~Reachable(r) \/ "adb" \in Faults

\* A call of the sidecar.
VisionWorks(r) == r \notin expired
VisionFails(r) == r \in expired \/ "vision" \in Faults

\* os.WriteFile opens the file, truncates it and writes: either may fail.
WriteFile(r, frame, ifFailed) ==
    \E v \in {frame} \cup (IF "disk" \in Faults THEN ifFailed ELSE {}) :
        disk' = [disk EXCEPT ![r] = v]

\* The file is rewritten, if the first screenshot could be written; the error is
\* dropped, whether the older screenshot is still there or a torn file.
Rewrite(r, frame) ==
    IF disk[r] = None THEN UNCHANGED <<disk, lost>>
    ELSE /\ WriteFile(r, frame, {disk[r], Torn})
         /\ lost' = IF disk'[r] = frame THEN lost \ {r} ELSE lost \cup {r}

\* UpdateTestRun with the run's context; no row, no update, no error.
UpdateTestRun(r, status) ==
    row' = IF r \notin expired /\ Stored(r)
           THEN [row EXCEPT ![r] = [status |-> status, steps |-> steps'[r],
                                    video |-> video[r]]]
           ELSE row

-----------------------------------------------------------------------------
(* The request: runTest and Start.                                         *)

\* The goroutines that work on a device.
Busy(d) == {r \in Runs : pc[r] \in Working /\ dev[r] = d}

\* Fault: the error of GetTest is not looked at.
ReadUnchecked(r) ==
    /\ pc[r] = "idle"
    /\ IF inst[dev[r]] THEN Goto(r, "insert") ELSE Goto(r, "refused")
    /\ plan' = [plan EXCEPT ![r] = test[testOf[r]]]
    /\ UNCHANGED <<expired, stepVars, testOf, dev, steps, video, recording, row, testVars,
                   deviceVars, recVars, alone, restarts>>

\* GetTest and GetInstance.
Read(r) ==
    /\ pc[r] = "idle"
    /\ \/ /\ test[testOf[r]] # Gone /\ inst[dev[r]]
          /\ plan' = [plan EXCEPT ![r] = test[testOf[r]]]
          /\ Goto(r, "insert")
       \/ /\ test[testOf[r]] = Gone \/ ~inst[dev[r]]
          /\ Goto(r, "refused")
          /\ UNCHANGED plan
    /\ UNCHANGED <<expired, stepVars, testOf, dev, steps, video, recording, row, testVars,
                   deviceVars, recVars, alone, restarts>>

\* CreateTestRun, and the goroutine.
Start(r) ==
    /\ pc[r] = "insert"
    /\ Goto(r, "dir")
    /\ row' = [row EXCEPT ![r] = [status |-> "running", steps |-> <<>>, video |-> {}]]
    /\ alone' = IF Busy(dev[r]) = {} THEN alone \cup {r} ELSE alone \ Busy(dev[r])
    /\ UNCHANGED <<expired, stepVars, runVars, testVars, deviceVars, recVars, restarts>>

-----------------------------------------------------------------------------
(* execute: the artifact directory and the recording.                      *)

MakeDir(r) ==
    /\ pc[r] = "dir"
    /\ \/ Goto(r, "record") /\ UNCHANGED ok
       \/ "disk" \in Faults /\ Goto(r, "finish") /\ ok' = [ok EXCEPT ![r] = FALSE]
    /\ UNCHANGED <<expired, shot, disk, lost, ground, tries, runVars, row, testVars, deviceVars,
                   recVars, alone, restarts>>

\* pkill, whose failure is ignored.
Pkill(d) ==
    \E alive \in {{}} \cup (IF "kill" \in Faults THEN {rec[d]} ELSE {}) :
        rec' = [rec EXCEPT ![d] = alive]

\* Fault: a recorder that is still alive is left alone.
KeepStale(r) ==
    /\ pc[r] = "record"
    /\ IF Reachable(r) THEN Goto(r, "film") ELSE Goto(r, "shot")
    /\ UNCHANGED <<expired, stepVars, runVars, row, testVars, deviceVars, recVars, alone,
                   restarts>>

\* StartRecording: resolve, and a pkill for a stale recorder.
KillStale(r) ==
    /\ pc[r] = "record"
    /\ \/ Reachable(r) /\ Pkill(dev[r]) /\ Goto(r, "film")
       \/ ~Reachable(r) /\ Goto(r, "shot") /\ UNCHANGED rec
    /\ UNCHANGED <<expired, stepVars, runVars, row, testVars, deviceVars, file, filmed, alone,
                   restarts>>

\* The recorder is put in the background, so that adb reports success whether
\* or not it starts. One that starts truncates the file.
StartRecorder(r) ==
    /\ pc[r] = "film"
    /\ Goto(r, "shot")
    /\ \/ /\ Reachable(r)
          /\ recording' = [recording EXCEPT ![r] = TRUE]
          /\ rec' = [rec EXCEPT ![dev[r]] = @ \cup {r}]
          /\ file' = [file EXCEPT ![dev[r]] = rec[dev[r]] \cup {r}]
          /\ filmed' = filmed \cup {r}
       \/ /\ Reachable(r) /\ "silent" \in Faults
          /\ recording' = [recording EXCEPT ![r] = TRUE]
          /\ UNCHANGED recVars
       \/ CommandFails(r) /\ UNCHANGED <<recording, recVars>>
    /\ UNCHANGED <<expired, stepVars, testOf, dev, plan, steps, video, row, testVars, deviceVars,
                   alone, restarts>>

-----------------------------------------------------------------------------
(* runStep.                                                                *)

\* The step ends with a result.
StepEnds(r, pass) == Goto(r, "append") /\ ok' = [ok EXCEPT ![r] = pass]

\* The screenshot every step starts with, and the dispatch on its verb.
Screenshot(r) ==
    /\ pc[r] = "shot"
    /\ \/ /\ Reachable(r)
          /\ shot' = [shot EXCEPT ![r] = screen[dev[r]]]
          /\ WriteFile(r, screen[dev[r]], {None})
          /\ \/ Kind(r) \in {"act", "wait"} /\ Goto(r, Kind(r)) /\ UNCHANGED ok
             \/ Kind(r) \in {"tap", "type"} /\ Goto(r, "locate") /\ UNCHANGED ok
             \/ Kind(r) = "assert" /\ Goto(r, "query") /\ UNCHANGED ok
             \/ Kind(r) = "unknown" /\ StepEnds(r, FALSE)
       \/ /\ CommandFails(r)
          /\ StepEnds(r, FALSE)
          /\ UNCHANGED <<shot, disk>>
    /\ UNCHANGED <<expired, lost, ground, tries, runVars, row, testVars, deviceVars, recVars,
                   alone, restarts>>

\* Key, LaunchApp, Swipe or Text.
Act(r) ==
    /\ pc[r] \in {"act", "text"}
    /\ \/ Reachable(r) /\ StepEnds(r, TRUE)
       \/ CommandFails(r) /\ StepEnds(r, FALSE)
    /\ UNCHANGED <<expired, shot, disk, lost, ground, tries, runVars, row, testVars, deviceVars,
                   recVars, alone, restarts>>

\* When both the timer and the deadline are ready, select takes either.
Wait(r) ==
    /\ pc[r] = "wait"
    /\ \/ StepEnds(r, TRUE)
       \/ r \in expired /\ StepEnds(r, FALSE)
    /\ UNCHANGED <<expired, shot, disk, lost, ground, tries, runVars, row, testVars, deviceVars,
                   recVars, alone, restarts>>

\* Locate, for groundAndTap, or Query, for an assertion.
Judge(r) ==
    /\ pc[r] \in {"locate", "query"}
    /\ \/ /\ VisionWorks(r)
          /\ ground' = [ground EXCEPT ![r] = shot[r]]
          /\ \/ pc[r] = "locate" /\ Goto(r, "tap") /\ UNCHANGED ok
             \/ pc[r] = "query" /\ StepEnds(r, TRUE)
             \/ Goto(r, "again") /\ UNCHANGED ok
       \/ VisionFails(r) /\ StepEnds(r, FALSE) /\ UNCHANGED ground
    /\ UNCHANGED <<expired, shot, disk, lost, tries, runVars, row, testVars, deviceVars, recVars,
                   alone, restarts>>

TriesOf(r) == IF Kind(r) = "assert" THEN QueryTries ELSE LocateTries

\* The end of an attempt that found nothing.
Retry(r) ==
    IF tries[r] + 1 < TriesOf(r)
    THEN /\ Goto(r, IF Kind(r) = "assert" THEN "query" ELSE "locate")
         /\ UNCHANGED ok
    ELSE StepEnds(r, FALSE)

\* Fault: the file keeps the first screenshot of the step.
KeepFirstShot(r) ==
    /\ pc[r] = "again"
    /\ \/ /\ tries' = [tries EXCEPT ![r] = @ + 1]
          /\ Retry(r)
          /\ \/ Reachable(r) /\ shot' = [shot EXCEPT ![r] = screen[dev[r]]]
             \/ CommandFails(r) /\ UNCHANGED shot
       \/ r \in expired /\ StepEnds(r, FALSE) /\ UNCHANGED <<tries, shot>>
    /\ UNCHANGED <<expired, disk, lost, ground, runVars, row, testVars, deviceVars, recVars, alone,
                   restarts>>

\* Fault: the attempts are not counted.
RetryForever(r) ==
    /\ pc[r] = "again"
    /\ Goto(r, IF Kind(r) = "assert" THEN "query" ELSE "locate")
    /\ UNCHANGED <<expired, stepVars, runVars, row, testVars, deviceVars, recVars, alone,
                   restarts>>

\* A new screenshot for the next attempt, which also replaces the file. The last
\* attempt takes one too.
Recapture(r) ==
    /\ pc[r] = "again"
    /\ \/ /\ tries' = [tries EXCEPT ![r] = @ + 1]
          /\ Retry(r)
          /\ \/ /\ Reachable(r)
                /\ shot' = [shot EXCEPT ![r] = screen[dev[r]]]
                /\ Rewrite(r, screen[dev[r]])
             \/ CommandFails(r) /\ UNCHANGED <<shot, disk, lost>>
       \/ r \in expired /\ StepEnds(r, FALSE) /\ UNCHANGED <<tries, shot, disk, lost>>
    /\ UNCHANGED <<expired, ground, runVars, row, testVars, deviceVars, recVars, alone, restarts>>

\* Decode the screenshot for its size and tap; typing goes on in the field.
Tap(r) ==
    /\ pc[r] = "tap"
    /\ \/ Reachable(r) /\ Kind(r) = "type" /\ Goto(r, "text") /\ UNCHANGED ok
       \/ Reachable(r) /\ Kind(r) = "tap" /\ StepEnds(r, TRUE)
       \/ CommandFails(r) /\ StepEnds(r, FALSE)
    /\ UNCHANGED <<expired, shot, disk, lost, ground, tries, runVars, row, testVars, deviceVars,
                   recVars, alone, restarts>>

-----------------------------------------------------------------------------
(* execute: after a step.                                                  *)

AfterSteps(r) == IF recording[r] THEN "stop" ELSE "finish"
Result(r) == [pass |-> ok[r], evidence |-> disk[r], lost |-> r \in lost, ground |-> ground[r]]

\* runStep has returned, and its variables with it.
Forget(r) ==
    /\ shot' = [shot EXCEPT ![r] = 0] /\ tries' = [tries EXCEPT ![r] = 0]
    /\ disk' = [disk EXCEPT ![r] = None] /\ ground' = [ground EXCEPT ![r] = None]
    /\ lost' = lost \ {r}

\* Fault: a failed step does not end the run.
CarryOn(r) ==
    /\ pc[r] = "append"
    /\ steps' = [steps EXCEPT ![r] = Append(@, Result(r))]
    /\ UpdateTestRun(r, "running")
    /\ Goto(r, "settle")
    /\ Forget(r)
    /\ UNCHANGED <<expired, ok, testOf, dev, plan, video, recording, testVars, deviceVars,
                   recVars, alone, restarts>>

\* Fault: only a step that passed is written to the row.
KeepFailure(r) ==
    /\ pc[r] = "append"
    /\ steps' = [steps EXCEPT ![r] = Append(@, Result(r))]
    /\ IF ok[r] THEN UpdateTestRun(r, "running") ELSE UNCHANGED row
    /\ Goto(r, IF ok[r] THEN "settle" ELSE AfterSteps(r))
    /\ Forget(r)
    /\ UNCHANGED <<expired, ok, testOf, dev, plan, video, recording, testVars, deviceVars,
                   recVars, alone, restarts>>

\* The result is appended and the progress stored; a failed step ends the loop.
AppendResult(r) ==
    /\ pc[r] = "append"
    /\ steps' = [steps EXCEPT ![r] = Append(@, Result(r))]
    /\ UpdateTestRun(r, "running")
    /\ Goto(r, IF ok[r] THEN "settle" ELSE AfterSteps(r))
    /\ Forget(r)
    /\ UNCHANGED <<expired, ok, testOf, dev, plan, video, recording, testVars, deviceVars,
                   recVars, alone, restarts>>

\* The screen settles, unless the deadline comes first.
Settle(r) ==
    /\ pc[r] = "settle"
    /\ \/ /\ Goto(r, IF Len(steps[r]) < Len(plan[r]) THEN "shot" ELSE AfterSteps(r))
          /\ UNCHANGED ok
       \/ r \in expired /\ Goto(r, "finish") /\ ok' = [ok EXCEPT ![r] = FALSE]
    /\ UNCHANGED <<expired, shot, disk, lost, ground, tries, runVars, row, testVars, deviceVars,
                   recVars, alone, restarts>>

\* StopRecording: resolve and pkill.
StopRecorder(r) ==
    /\ pc[r] = "stop"
    /\ \/ Reachable(r) /\ Pkill(dev[r]) /\ Goto(r, "pull")
       \/ ~Reachable(r) /\ Goto(r, "finish") /\ UNCHANGED rec
    /\ UNCHANGED <<expired, stepVars, runVars, row, testVars, deviceVars, file, filmed, alone,
                   restarts>>

\* cat. A file that turns out too small, or cannot be stored, is no video.
PullVideo(r) ==
    /\ pc[r] = "pull"
    /\ \/ /\ Reachable(r) /\ file[dev[r]] # {}
          /\ \E v \in {file[dev[r]], {}} : video' = [video EXCEPT ![r] = v]
          /\ Goto(r, "erase")
       \/ /\ CommandFails(r) \/ file[dev[r]] = {}
          /\ Goto(r, "finish")
          /\ UNCHANGED video
    /\ UNCHANGED <<expired, stepVars, testOf, dev, plan, steps, recording, row, testVars, deviceVars,
                   recVars, alone, restarts>>

\* rm -f, whose failure is ignored.
EraseFile(r) ==
    /\ pc[r] = "erase"
    /\ Goto(r, "finish")
    /\ \/ Reachable(r) /\ file' = [file EXCEPT ![dev[r]] = {}]
       \/ CommandFails(r) /\ UNCHANGED file
    /\ UNCHANGED <<expired, stepVars, runVars, row, testVars, deviceVars, rec, filmed, alone,
                   restarts>>

\* finish.
Finish(r) ==
    /\ pc[r] = "finish"
    /\ Goto(r, "done")
    /\ UNCHANGED <<expired, stepVars, runVars, testVars, deviceVars, recVars, alone, restarts>>
    /\ UpdateTestRun(r, IF ok[r] THEN "passed" ELSE "failed")

-----------------------------------------------------------------------------
(* Around the runs.                                                        *)

\* context.WithTimeout: 15 minutes are over.
Deadline(r) ==
    /\ "deadline" \in Faults
    /\ pc[r] \in Working
    /\ expired' = expired \cup {r}
    /\ UNCHANGED <<pc, stepVars, runVars, row, testVars, deviceVars, recVars, alone, restarts>>

\* DeleteTest, statement by statement.
DeleteTestRuns(t) ==
    /\ test[t] # Gone /\ t \notin doomed
    /\ doomed' = doomed \cup {t}
    /\ row' = [r \in Runs |-> IF Stored(r) /\ testOf[r] = t THEN Gone ELSE row[r]]
    /\ UNCHANGED <<pc, expired, stepVars, runVars, test, deviceVars, recVars, alone, restarts>>

DeleteTestRow(t) ==
    /\ t \in doomed /\ test[t] # Gone
    /\ test' = [test EXCEPT ![t] = Gone]
    /\ UNCHANGED <<pc, expired, stepVars, runVars, row, doomed, deviceVars, recVars, alone,
                   restarts>>

\* The device displays something else.
Display(d) ==
    /\ screen[d] < MaxScreens
    /\ screen' = [screen EXCEPT ![d] = @ + 1]
    /\ UNCHANGED <<pc, expired, stepVars, runVars, row, testVars, inst, recVars, alone, restarts>>

\* --time-limit 180.
RecorderLimit(d, r) ==
    /\ r \in rec[d]
    /\ rec' = [rec EXCEPT ![d] = @ \ {r}]
    /\ UNCHANGED <<pc, expired, stepVars, runVars, row, testVars, deviceVars, file, filmed,
                   alone, restarts>>

\* Somebody stops the instance: its processes end, its storage stays. (The
\* lifecycle is InstanceLifecycle's subject.)
InstanceStops(d) ==
    /\ inst[d]
    /\ inst' = [inst EXCEPT ![d] = FALSE]
    /\ rec' = [rec EXCEPT ![d] = {}]
    /\ UNCHANGED <<pc, expired, stepVars, runVars, row, testVars, screen, file, filmed, alone,
                   restarts>>

InstanceStarts(d) ==
    /\ ~inst[d]
    /\ inst' = [inst EXCEPT ![d] = TRUE]
    /\ UNCHANGED <<pc, expired, stepVars, runVars, row, testVars, screen, recVars, alone,
                   restarts>>

\* The API process dies and starts again. Rows and devices are as they were.
Restart ==
    /\ restarts < MaxRestarts
    /\ restarts' = restarts + 1
    /\ pc' = [r \in Runs |-> IF pc[r] \in Working \cup {"insert"} THEN "dead" ELSE pc[r]]
    /\ UNCHANGED <<expired, stepVars, runVars, row, testVars, deviceVars, recVars, alone>>

-----------------------------------------------------------------------------

execute(r) ==
    \/ MakeDir(r) \/ KillStale(r) \/ StartRecorder(r)
    \/ Screenshot(r) \/ Act(r) \/ Wait(r) \/ Judge(r) \/ Recapture(r) \/ Tap(r)
    \/ AppendResult(r) \/ Settle(r)
    \/ StopRecorder(r) \/ PullVideo(r) \/ EraseFile(r) \/ Finish(r)

Next ==
    \/ \E r \in Runs : Read(r) \/ Start(r) \/ execute(r) \/ Deadline(r)
    \/ \E t \in Tests : DeleteTestRuns(t) \/ DeleteTestRow(t)
    \/ \E d \in Devices :
          Display(d) \/ InstanceStops(d) \/ InstanceStarts(d) \/ \E r \in Runs : RecorderLimit(d, r)
    \/ Restart

\* The goroutine of a run is scheduled, and whatever it waits for has a timeout.
Spec == Init /\ [][Next]_vars /\ \A r \in Runs : WF_vars(execute(r))

-----------------------------------------------------------------------------

\* A run's row reads passed only when every step of its test was executed and
\* passed: a failed step, a failed command, the deadline or a failed directory
\* never leads to finish with a pass (execute, finish).
PassIsEarned ==
    \A r \in Runs :
        Stored(r) /\ row[r].status = "passed" =>
            /\ Len(row[r].steps) = Len(plan[r])
            /\ \A i \in 1..Len(row[r].steps) : row[r].steps[i].pass

\* As long as the deadline has not passed, the report of a run shows all it has
\* done: the row has every step result the goroutine has, and a verdict once
\* the goroutine has ended (the comment of Start).
RowTellsRun ==
    \A r \in Runs :
        Stored(r) /\ r \notin expired =>
            /\ row[r].steps = steps[r]
            /\ pc[r] = "done" <=> row[r].status # "running"

\* The screenshot kept for a step that passed is the one in which the target or
\* the text was found, and for a step that failed one that is not older than the
\* last one judged, whatever the device displayed meanwhile (groundAndTap: "The
\* evidence screenshot is updated to the capture that grounded"). When that update
\* failed, which nothing reports, the file shows an older screen than the one the
\* step was judged by, or the same, and never a later one.
EvidenceGrounds ==
    \A r \in Runs : \A i \in 1..Len(steps[r]) :
        LET s == steps[r][i]
        IN s.evidence \in Frames /\ s.ground # None =>
              CASE s.lost            -> s.evidence <= s.ground
                [] ~s.lost /\ s.pass -> s.evidence = s.ground
                [] OTHER             -> s.evidence >= s.ground

\* A run that had the device to itself, and whose recorder started, gets its own
\* pictures as video, even if an earlier run was cut off by its deadline or a
\* restart and left a recorder or a file behind (StartRecording's pkill). It
\* assumes that pkill works.
VideoIsOwn ==
    \A r \in alone \cap filmed : Stored(r) => row[r].video \subseteq {r}

\* Every run that is started gets a verdict, unless its deadline passes, the
\* process dies, or its test is deleted: retries are bounded, and every path
\* through execute ends in finish.
RunGetsVerdict ==
    \A r \in Runs :
        pc[r] = "dir" ~> \/ Stored(r) /\ row[r].status # "running"
                         \/ r \in expired \/ pc[r] = "dead" \/ row[r] = Gone

=============================================================================
