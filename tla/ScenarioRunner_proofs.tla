------------------------ MODULE ScenarioRunner_proofs ------------------------
(***************************************************************************)
(* Proofs about ScenarioRunner, for every value of its constants that      *)
(* satisfies ScenarioAssumption.                                           *)
(***************************************************************************)
EXTENDS ScenarioRunner, TLAPS

\* The initial state has the declared types.
LEMMA InitTyped == Init => TypeOK
  BY ScenarioAssumption DEF Init, TypeOK, Points, Frames

\* What the two commands with more than one outcome leave.
LEMMA PkillTyped ==
    ASSUME TypeOK, NEW d \in Devices, Pkill(d)
    PROVE  rec' \in [Devices -> SUBSET Runs]
  <1>1. PICK alive \in {{}} \cup {rec[d]} : rec' = [rec EXCEPT ![d] = alive]
    BY DEF Pkill
  <1>2. alive \in SUBSET Runs
    BY DEF TypeOK
  <1> QED
    BY <1>1, <1>2 DEF TypeOK

LEMMA WriteTyped ==
    ASSUME TypeOK, NEW r \in Runs, NEW frame \in Frames,
           NEW ifFailed \in SUBSET (Frames \cup {None, Torn}), WriteFile(r, frame, ifFailed)
    PROVE  disk' \in [Runs -> Frames \cup {None, Torn}]
  BY DEF WriteFile, TypeOK

LEMMA RewriteTyped ==
    ASSUME TypeOK, NEW r \in Runs, NEW frame \in Frames, Rewrite(r, frame)
    PROVE  disk' \in [Runs -> Frames \cup {None, Torn}] /\ lost' \subseteq Runs
  <1>1. disk[r] \in Frames \cup {None, Torn} /\ lost \subseteq Runs
    BY DEF TypeOK
  <1>2. CASE disk[r] = None
    BY <1>2 DEF Rewrite, TypeOK
  <1>3. CASE disk[r] # None
    <2>1. WriteFile(r, frame, {disk[r], Torn}) /\ lost' \subseteq Runs
      BY <1>1, <1>3 DEF Rewrite
    <2>2. {disk[r], Torn} \in SUBSET (Frames \cup {None, Torn})
      BY <1>1
    <2> QED
      BY <2>1, <2>2, WriteTyped
  <1> QED
    BY <1>2, <1>3

\* A step of a run's goroutine keeps them.
LEMMA ExecuteTyped ==
    ASSUME TypeOK, NEW r \in Runs, execute(r)
    PROVE  TypeOK'
  <1> USE DEF Goto
  <1>1. CASE MakeDir(r)
    BY <1>1 DEF TypeOK, MakeDir, Points, Working, runVars, testVars, deviceVars, recVars
  <1>2. CASE KillStale(r)
    <2>1. rec' \in [Devices -> SUBSET Runs]
      BY <1>2, PkillTyped DEF TypeOK, KillStale
    <2> QED
      BY <1>2, <2>1 DEF TypeOK, KillStale, Points, Working, stepVars, runVars, testVars, deviceVars
  <1>3. CASE StartRecorder(r)
    <2>1. rec[dev[r]] \cup {r} \in SUBSET Runs
      BY DEF TypeOK
    <2>2. /\ rec' \in [Devices -> SUBSET Runs] /\ file' \in [Devices -> SUBSET Runs]
          /\ filmed' \subseteq Runs /\ recording' \in [Runs -> BOOLEAN]
      <3>1. /\ rec \in [Devices -> SUBSET Runs] /\ file \in [Devices -> SUBSET Runs]
            /\ filmed \subseteq Runs /\ recording \in [Runs -> BOOLEAN] /\ dev[r] \in Devices
        BY DEF TypeOK
      <3>2. \/ UNCHANGED recVars
            \/ /\ rec' = [rec EXCEPT ![dev[r]] = rec[dev[r]] \cup {r}]
               /\ file' = [file EXCEPT ![dev[r]] = rec[dev[r]] \cup {r}]
               /\ filmed' = filmed \cup {r}
        BY <1>3 DEF StartRecorder
      <3>3. recording' \in [Runs -> BOOLEAN]
        BY <1>3, <3>1 DEF StartRecorder
      <3> QED
        BY <2>1, <3>1, <3>2, <3>3 DEF recVars
    <2> QED
      BY <1>3, <2>2 DEF TypeOK, StartRecorder, Points, Working, stepVars, testVars, deviceVars
  <1>4. CASE Screenshot(r)
    <2>1. disk' \in [Runs -> Frames \cup {None, Torn}]
      <3>1. {None} \in SUBSET (Frames \cup {None, Torn}) /\ screen[dev[r]] \in Frames
        BY DEF TypeOK
      <3>2. WriteFile(r, screen[dev[r]], {None}) \/ UNCHANGED disk
        BY <1>4 DEF Screenshot
      <3>3. disk \in [Runs -> Frames \cup {None, Torn}]
        BY DEF TypeOK
      <3> QED
        BY <3>1, <3>2, <3>3, WriteTyped
    <2>2. \E point \in Working : Goto(r, point)
      BY <1>4 DEF Screenshot, StepEnds, Working
    <2>3. pc' \in [Runs -> Points]
      BY <2>2 DEF TypeOK, Points
    <2>4. ok' \in [Runs -> BOOLEAN] /\ shot' \in [Runs -> Frames]
      <3>1. ok \in [Runs -> BOOLEAN] /\ shot \in [Runs -> Frames] /\ screen[dev[r]] \in Frames
        BY DEF TypeOK
      <3> QED
        BY <1>4, <3>1 DEF Screenshot, StepEnds
    <2> QED
      BY <1>4, <2>1, <2>3, <2>4 DEF TypeOK, Screenshot, runVars, testVars, deviceVars, recVars
  <1>5. CASE Act(r)
    BY <1>5 DEF TypeOK, Act, StepEnds, Points, Working, runVars, testVars, deviceVars, recVars
  <1>6. CASE Wait(r)
    BY <1>6 DEF TypeOK, Wait, StepEnds, Points, Working, runVars, testVars, deviceVars, recVars
  <1>7. CASE Judge(r)
    <2>1. pc' \in [Runs -> Points] /\ ok' \in [Runs -> BOOLEAN]
      BY <1>7 DEF TypeOK, Judge, StepEnds, Points, Working
    <2>2. ground' \in [Runs -> Frames \cup {None}]
      <3>1. ground \in [Runs -> Frames \cup {None}] /\ shot[r] \in Frames
        BY DEF TypeOK
      <3>2. ground' = [ground EXCEPT ![r] = shot[r]] \/ UNCHANGED ground
        BY <1>7 DEF Judge
      <3> QED
        BY <3>1, <3>2
    <2> QED
      BY <1>7, <2>1, <2>2 DEF TypeOK, Judge, runVars, testVars, deviceVars, recVars
  <1>8. CASE Recapture(r)
    <2>1. disk' \in [Runs -> Frames \cup {None, Torn}] /\ lost' \subseteq Runs
      <3>1. screen[dev[r]] \in Frames
        BY DEF TypeOK
      <3>2. Rewrite(r, screen[dev[r]]) \/ UNCHANGED <<disk, lost>>
        BY <1>8 DEF Recapture
      <3>3. disk \in [Runs -> Frames \cup {None, Torn}] /\ lost \subseteq Runs
        BY DEF TypeOK
      <3> QED
        BY <3>1, <3>2, <3>3, RewriteTyped
    <2>2. \E point \in Working : Goto(r, point)
      BY <1>8 DEF Recapture, Retry, StepEnds, Working
    <2>3. pc' \in [Runs -> Points]
      BY <2>2 DEF TypeOK, Points
    <2>4. ok' \in [Runs -> BOOLEAN] /\ shot' \in [Runs -> Frames] /\ tries' \in [Runs -> Nat]
      <3>1. /\ ok \in [Runs -> BOOLEAN] /\ shot \in [Runs -> Frames] /\ tries \in [Runs -> Nat]
            /\ screen[dev[r]] \in Frames
        BY DEF TypeOK
      <3>2. UNCHANGED ok \/ ok' = [ok EXCEPT ![r] = FALSE]
        BY <1>8 DEF Recapture, Retry, StepEnds
      <3>3. tries[r] + 1 \in Nat
        BY <3>1
      <3> QED
        BY <1>8, <3>1, <3>2, <3>3 DEF Recapture
    <2> QED
      BY <1>8, <2>1, <2>3, <2>4 DEF TypeOK, Recapture, runVars, testVars, deviceVars, recVars
  <1>9. CASE Tap(r)
    BY <1>9 DEF TypeOK, Tap, StepEnds, Points, Working, runVars, testVars, deviceVars, recVars
  <1>10. CASE AppendResult(r)
    <2>1. Result(r) \in Results
      BY DEF TypeOK, Result, Results
    <2>2. steps' \in [Runs -> Seq(Results)]
      BY <1>10, <2>1 DEF TypeOK, AppendResult
    <2>3. row' \in [Runs -> Rows \cup {None, Gone}]
      BY <1>10, <2>2 DEF TypeOK, AppendResult, UpdateTestRun, Rows
    <2> QED
      BY <1>10, <2>2, <2>3 DEF TypeOK, AppendResult, AfterSteps, Forget, Points, Working, Frames,
         testVars, deviceVars, recVars
  <1>11. CASE Settle(r)
    BY <1>11 DEF TypeOK, Settle, AfterSteps, Points, Working, runVars, testVars, deviceVars, recVars
  <1>12. CASE StopRecorder(r)
    <2>1. rec' \in [Devices -> SUBSET Runs]
      BY <1>12, PkillTyped DEF TypeOK, StopRecorder
    <2> QED
      BY <1>12, <2>1 DEF TypeOK, StopRecorder, Points, Working, stepVars, runVars, testVars, deviceVars
  <1>13. CASE PullVideo(r)
    <2>1. video' \in [Runs -> SUBSET Runs]
      <3>1. video \in [Runs -> SUBSET Runs] /\ file[dev[r]] \in SUBSET Runs
        BY DEF TypeOK
      <3> QED
        BY <1>13, <3>1 DEF PullVideo
    <2> QED
      BY <1>13, <2>1 DEF TypeOK, PullVideo, Points, Working, stepVars, testVars, deviceVars, recVars
  <1>14. CASE EraseFile(r)
    BY <1>14 DEF TypeOK, EraseFile, Points, Working, stepVars, runVars, testVars, deviceVars
  <1>15. CASE Finish(r)
    BY <1>15 DEF TypeOK, Finish, UpdateTestRun, Stored, Rows, Points, Working, stepVars, runVars, testVars, deviceVars, recVars
  <1> QED
    BY <1>1, <1>2, <1>3, <1>4, <1>5, <1>6, <1>7, <1>8, <1>9, <1>10, <1>11, <1>12, <1>13,
       <1>14, <1>15 DEF execute

\* So does everything else that happens.
LEMMA TypeNext == TypeOK /\ [Next]_vars => TypeOK'
  <1> SUFFICES ASSUME TypeOK, [Next]_vars PROVE TypeOK'
    OBVIOUS
  <1> USE DEF Goto
  <1>1. ASSUME NEW r \in Runs, Read(r) PROVE TypeOK'
    BY <1>1 DEF TypeOK, Read, Points, stepVars, testVars, deviceVars, recVars
  <1>2. ASSUME NEW r \in Runs, Start(r) PROVE TypeOK'
    <2>1. [status |-> "running", steps |-> <<>>, video |-> {}] \in Rows
      BY DEF Rows
    <2> QED
      BY <1>2, <2>1 DEF TypeOK, Start, Points, Working, stepVars, runVars, testVars, deviceVars, recVars
  <1>3. ASSUME NEW r \in Runs, execute(r) PROVE TypeOK'
    BY <1>3, ExecuteTyped
  <1>4. ASSUME NEW r \in Runs, Deadline(r) PROVE TypeOK'
    BY <1>4 DEF TypeOK, Deadline, stepVars, runVars, testVars, deviceVars, recVars
  <1>5. ASSUME NEW t \in Tests, DeleteTestRuns(t) \/ DeleteTestRow(t) PROVE TypeOK'
    BY <1>5 DEF TypeOK, DeleteTestRuns, DeleteTestRow, stepVars, runVars, deviceVars, recVars
  <1>6. ASSUME NEW d \in Devices, Display(d) PROVE TypeOK'
    BY <1>6 DEF TypeOK, Display, Frames, stepVars, runVars, testVars, recVars
  <1>7. ASSUME NEW d \in Devices, InstanceStops(d) \/ InstanceStarts(d) PROVE TypeOK'
    <2>1. inst' \in [Devices -> BOOLEAN] /\ rec' \in [Devices -> SUBSET Runs]
      BY <1>7 DEF TypeOK, InstanceStops, InstanceStarts, recVars
    <2> QED
      BY <1>7, <2>1 DEF TypeOK, InstanceStops, InstanceStarts, stepVars, runVars, testVars, recVars
  <1>8. ASSUME NEW d \in Devices, NEW r \in Runs, RecorderLimit(d, r) PROVE TypeOK'
    <2>1. rec[d] \ {r} \in SUBSET Runs
      BY DEF TypeOK
    <2> QED
      BY <1>8, <2>1 DEF TypeOK, RecorderLimit, stepVars, runVars, testVars, deviceVars
  <1>9. CASE Restart
    BY <1>9 DEF TypeOK, Restart, Points, stepVars, runVars, testVars, deviceVars, recVars
  <1>10. CASE UNCHANGED vars
    BY <1>10 DEF TypeOK, vars, stepVars, runVars, testVars, deviceVars, recVars
  <1> QED
    BY <1>1, <1>2, <1>3, <1>4, <1>5, <1>6, <1>7, <1>8, <1>9, <1>10 DEF Next

\* Every reachable state of a scenario run has the declared types.
THEOREM TypeCorrect == Spec => []TypeOK
  BY InitTyped, TypeNext, PTL DEF Spec

-----------------------------------------------------------------------------
(* What a step of a goroutine does not touch.                              *)

\* A goroutine touches nothing of another run.
LEMMA OthersKept ==
    ASSUME TypeOK, NEW r \in Runs, NEW q \in Runs \ {r}, execute(r)
    PROVE  /\ pc'[q] = pc[q] /\ ok'[q] = ok[q] /\ row'[q] = row[q] /\ steps'[q] = steps[q]
           /\ shot'[q] = shot[q] /\ disk'[q] = disk[q] /\ ground'[q] = ground[q]
           /\ (q \in lost' <=> q \in lost)
           /\ video'[q] = video[q] /\ (q \in filmed' <=> q \in filmed)
  <1> USE DEF TypeOK, Goto, stepVars, runVars, recVars
  <1>1. CASE MakeDir(r)
    BY <1>1 DEF MakeDir
  <1>2. CASE KillStale(r)
    BY <1>2 DEF KillStale, Pkill
  <1>3. CASE StartRecorder(r)
    BY <1>3 DEF StartRecorder
  <1>4. CASE Screenshot(r)
    BY <1>4 DEF Screenshot, WriteFile, StepEnds
  <1>5. CASE Act(r)
    BY <1>5 DEF Act, StepEnds
  <1>6. CASE Wait(r)
    BY <1>6 DEF Wait, StepEnds
  <1>7. CASE Judge(r)
    BY <1>7 DEF Judge, StepEnds
  <1>8. CASE Recapture(r)
    BY <1>8 DEF Recapture, Retry, Rewrite, WriteFile, StepEnds
  <1>9. CASE Tap(r)
    BY <1>9 DEF Tap, StepEnds
  <1>10. CASE AppendResult(r)
    BY <1>10 DEF AppendResult, UpdateTestRun, Forget
  <1>11. CASE Settle(r)
    BY <1>11 DEF Settle
  <1>12. CASE StopRecorder(r)
    BY <1>12 DEF StopRecorder, Pkill
  <1>13. CASE PullVideo(r)
    BY <1>13 DEF PullVideo
  <1>14. CASE EraseFile(r)
    BY <1>14 DEF EraseFile
  <1>15. CASE Finish(r)
    BY <1>15 DEF Finish, UpdateTestRun
  <1> QED
    BY <1>1, <1>2, <1>3, <1>4, <1>5, <1>6, <1>7, <1>8, <1>9, <1>10, <1>11, <1>12, <1>13, <1>14, <1>15 DEF execute

\* It leaves the plans, the deadlines and the screens to others.
LEMMA ScopeKept ==
    ASSUME NEW r \in Runs, execute(r)
    PROVE  UNCHANGED <<plan, dev, testOf, expired, screen, alone, test, doomed>>
  BY DEF execute, MakeDir, KillStale, StartRecorder, Screenshot, Act, Wait, Judge, Recapture, Tap, AppendResult, Settle, StopRecorder, PullVideo, EraseFile, Finish,
     stepVars, runVars, testVars, deviceVars

-----------------------------------------------------------------------------
(* Verdicts.                                                               *)

AllPass(results) == \A i \in 1..Len(results) : results[i].pass
InStep == {"shot", "act", "wait", "locate", "tap", "text", "query", "again", "append"}
Ending == {"stop", "pull", "erase", "finish"}

\* How far a run is, and what that says about its results.
RunInv(q) ==
    /\ pc[q] \in {"idle", "insert", "refused"} => row[q] = None
    /\ pc[q] \in {"idle", "insert", "dir", "record", "film"} => steps[q] = <<>>
    /\ pc[q] \in Working \cup {"insert"} => plan[q] # <<>>
    /\ pc[q] \in InStep => Len(steps[q]) < Len(plan[q])
    /\ pc[q] = "settle" => Len(steps[q]) <= Len(plan[q]) /\ ok[q]
    /\ pc[q] \in InStep \cup {"settle"} => AllPass(steps[q])
    /\ pc[q] \in Ending /\ ok[q] => AllPass(steps[q]) /\ Len(steps[q]) = Len(plan[q])

\* PassIsEarned for one run.
EarnedInv(q) ==
    Stored(q) /\ row[q].status = "passed" =>
        Len(row[q].steps) = Len(plan[q]) /\ AllPass(row[q].steps)

\* RowTellsRun for one run.
ToldInv(q) ==
    Stored(q) /\ q \notin expired =>
        row[q].steps = steps[q] /\ (pc[q] = "done" <=> row[q].status # "running")

VerdictInv == \A q \in Runs : RunInv(q) /\ EarnedInv(q) /\ ToldInv(q)

\* Appending a result.
LEMMA AppendPass ==
    ASSUME NEW results \in Seq(Results), NEW x \in Results
    PROVE  /\ Len(Append(results, x)) = Len(results) + 1
           /\ AllPass(results) /\ x.pass => AllPass(Append(results, x))
  BY DEF AllPass

\* The verdict of a run through a step of its goroutine.
LEMMA VerdictExecute ==
    ASSUME TypeOK, VerdictInv, NEW r \in Runs, execute(r)
    PROVE  RunInv(r)' /\ EarnedInv(r)' /\ ToldInv(r)'
  <1> DEFINE Kept == UNCHANGED <<steps, row, plan, expired>>
  <1>a. RunInv(r) /\ EarnedInv(r) /\ ToldInv(r)
    BY DEF VerdictInv
  <1>b. UNCHANGED <<plan, expired>>
    BY ScopeKept
  <1>c. /\ pc \in [Runs -> Points] /\ ok \in [Runs -> BOOLEAN] /\ steps[r] \in Seq(Results)
        /\ plan[r] \in Seq(Kinds) \cup {<<>>}
        /\ row \in [Runs -> Rows \cup {None, Gone}]
    BY ScenarioAssumption DEF TypeOK
  <1>d. ASSUME Kept, pc'[r] # "done", pc[r] # "done", RunInv(r)'
        PROVE  RunInv(r)' /\ EarnedInv(r)' /\ ToldInv(r)'
    BY <1>a, <1>d DEF EarnedInv, ToldInv, Stored
  <1>e. AllPass(<<>>) /\ Len(<<>>) = 0 /\ (plan[r] # <<>> => Len(plan[r]) > 0)
    BY <1>c DEF AllPass
  <1> USE DEF Goto, runVars, stepVars
  <1>1. CASE MakeDir(r)
    <2>1. Kept /\ pc'[r] # "done" /\ pc[r] # "done"
      BY <1>1, <1>b, <1>c DEF MakeDir
    <2>2. RunInv(r)'
      BY <1>1, <1>a, <1>c, <2>1 DEF MakeDir, RunInv, InStep, Ending, Working
    <2> QED
      BY <1>d, <2>1, <2>2
  <1>2. CASE KillStale(r)
    <2>1. Kept /\ pc'[r] # "done" /\ pc[r] # "done"
      BY <1>2, <1>b, <1>c DEF KillStale
    <2>2. RunInv(r)'
      BY <1>2, <1>a, <1>c, <1>e, <2>1 DEF KillStale, RunInv, InStep, Ending, Working
    <2> QED
      BY <1>d, <2>1, <2>2
  <1>3. CASE StartRecorder(r)
    <2>1. Kept /\ pc'[r] # "done" /\ pc[r] # "done"
      BY <1>3, <1>b, <1>c DEF StartRecorder
    <2>2. RunInv(r)'
      BY <1>3, <1>a, <1>c, <1>e, <2>1 DEF StartRecorder, RunInv, InStep, Ending, Working
    <2> QED
      BY <1>d, <2>1, <2>2
  <1>4. CASE Screenshot(r)
    <2>1. Kept /\ pc'[r] # "done" /\ pc[r] # "done"
      BY <1>4, <1>b, <1>c DEF Screenshot, StepEnds
    <2>2. RunInv(r)'
      BY <1>4, <1>a, <1>c, <2>1 DEF Screenshot, StepEnds, RunInv, InStep, Ending, Working
    <2> QED
      BY <1>d, <2>1, <2>2
  <1>5. CASE Act(r)
    <2>1. Kept /\ pc'[r] # "done" /\ pc[r] # "done"
      BY <1>5, <1>b, <1>c DEF Act, StepEnds
    <2>2. RunInv(r)'
      BY <1>5, <1>a, <1>c, <2>1 DEF Act, StepEnds, RunInv, InStep, Ending, Working
    <2> QED
      BY <1>d, <2>1, <2>2
  <1>6. CASE Wait(r)
    <2>1. Kept /\ pc'[r] # "done" /\ pc[r] # "done"
      BY <1>6, <1>b, <1>c DEF Wait, StepEnds
    <2>2. RunInv(r)'
      BY <1>6, <1>a, <1>c, <2>1 DEF Wait, StepEnds, RunInv, InStep, Ending, Working
    <2> QED
      BY <1>d, <2>1, <2>2
  <1>7. CASE Judge(r)
    <2>1. Kept /\ pc'[r] # "done" /\ pc[r] # "done"
      BY <1>7, <1>b, <1>c DEF Judge, StepEnds
    <2>2. RunInv(r)'
      BY <1>7, <1>a, <1>c, <2>1 DEF Judge, StepEnds, RunInv, InStep, Ending, Working
    <2> QED
      BY <1>d, <2>1, <2>2
  <1>8. CASE Recapture(r)
    <2>1. Kept /\ pc'[r] # "done" /\ pc[r] # "done"
      BY <1>8, <1>b, <1>c DEF Recapture, Retry, StepEnds
    <2>2. RunInv(r)'
      BY <1>8, <1>a, <1>c, <2>1 DEF Recapture, Retry, StepEnds, RunInv, InStep, Ending, Working
    <2> QED
      BY <1>d, <2>1, <2>2
  <1>9. CASE Tap(r)
    <2>1. Kept /\ pc'[r] # "done" /\ pc[r] # "done"
      BY <1>9, <1>b, <1>c DEF Tap, StepEnds
    <2>2. RunInv(r)'
      BY <1>9, <1>a, <1>c, <2>1 DEF Tap, StepEnds, RunInv, InStep, Ending, Working
    <2> QED
      BY <1>d, <2>1, <2>2
  <1>10. CASE Settle(r)
    <2>1. Kept /\ pc'[r] # "done" /\ pc[r] # "done"
      BY <1>10, <1>b, <1>c DEF Settle, AfterSteps
    <2>2. RunInv(r)'
      BY <1>10, <1>a, <1>c, <2>1 DEF Settle, AfterSteps, RunInv, InStep, Ending, Working
    <2> QED
      BY <1>d, <2>1, <2>2
  <1>11. CASE StopRecorder(r)
    <2>1. Kept /\ pc'[r] # "done" /\ pc[r] # "done"
      BY <1>11, <1>b, <1>c DEF StopRecorder
    <2>2. RunInv(r)'
      BY <1>11, <1>a, <1>c, <2>1 DEF StopRecorder, RunInv, InStep, Ending, Working
    <2> QED
      BY <1>d, <2>1, <2>2
  <1>12. CASE PullVideo(r)
    <2>1. Kept /\ pc'[r] # "done" /\ pc[r] # "done"
      BY <1>12, <1>b, <1>c DEF PullVideo
    <2>2. RunInv(r)'
      BY <1>12, <1>a, <1>c, <2>1 DEF PullVideo, RunInv, InStep, Ending, Working
    <2> QED
      BY <1>d, <2>1, <2>2
  <1>13. CASE EraseFile(r)
    <2>1. Kept /\ pc'[r] # "done" /\ pc[r] # "done"
      BY <1>13, <1>b, <1>c DEF EraseFile
    <2>2. RunInv(r)'
      BY <1>13, <1>a, <1>c, <2>1 DEF EraseFile, RunInv, InStep, Ending, Working
    <2> QED
      BY <1>d, <2>1, <2>2
  <1>14. CASE AppendResult(r)
    <2>1. Result(r) \in Results /\ Result(r).pass = ok[r]
      BY DEF Result, Results, TypeOK
    <2>2. /\ steps'[r] = Append(steps[r], Result(r))
          /\ pc'[r] = (IF ok[r] THEN "settle" ELSE AfterSteps(r)) /\ UNCHANGED ok
      BY <1>14, <1>c DEF AppendResult, TypeOK
    <2>3. AllPass(steps[r]) /\ Len(steps[r]) < Len(plan[r]) /\ pc[r] = "append"
      BY <1>14, <1>a DEF AppendResult, RunInv, InStep
    <2>4. Len(steps'[r]) = Len(steps[r]) + 1 /\ (ok[r] => AllPass(steps'[r]))
      BY <2>1, <2>2, <2>3, <1>c, AppendPass
    <2>5. RunInv(r)'
      BY <1>a, <1>b, <1>c, <2>2, <2>3, <2>4 DEF RunInv, InStep, Ending, Working, AfterSteps
    <2>6. \/ row'[r] = row[r] /\ ~(r \notin expired /\ Stored(r))
          \/ row'[r] = [status |-> "running", steps |-> steps'[r], video |-> video[r]]
      BY <1>14, <1>c DEF AppendResult, UpdateTestRun
    <2>7. EarnedInv(r)'
      BY <1>a, <1>b, <2>6 DEF EarnedInv, Stored
    <2>8. ToldInv(r)'
      BY <1>a, <1>b, <2>2, <2>3, <2>6 DEF ToldInv, Stored, AfterSteps
    <2> QED
      BY <2>5, <2>7, <2>8
  <1>15. CASE Finish(r)
    <2>1. /\ pc[r] = "finish" /\ pc'[r] = "done"
          /\ UNCHANGED <<steps, ok>>
      BY <1>15, <1>c DEF Finish
    <2>2. \/ row'[r] = row[r] /\ ~(r \notin expired /\ Stored(r))
          \/ row'[r] = [status |-> IF ok[r] THEN "passed" ELSE "failed",
                        steps |-> steps[r], video |-> video[r]]
      BY <1>15, <1>c, <2>1 DEF Finish, UpdateTestRun
    <2>3. RunInv(r)'
      BY <1>a, <1>b, <2>1 DEF RunInv, InStep, Ending, Working
    <2>4. EarnedInv(r)'
      BY <1>a, <1>b, <2>1, <2>2 DEF EarnedInv, RunInv, Ending, Stored
    <2>5. ToldInv(r)'
      BY <1>a, <1>b, <2>1, <2>2 DEF ToldInv, Stored
    <2> QED
      BY <2>3, <2>4, <2>5
  <1> QED
    BY <1>1, <1>2, <1>3, <1>4, <1>5, <1>6, <1>7, <1>8, <1>9, <1>10, <1>11, <1>12, <1>13, <1>14, <1>15 DEF execute

LEMMA VerdictNext == TypeOK /\ VerdictInv /\ [Next]_vars => VerdictInv'
  <1> SUFFICES ASSUME TypeOK, VerdictInv, [Next]_vars, NEW q \in Runs
               PROVE  RunInv(q)' /\ EarnedInv(q)' /\ ToldInv(q)'
    BY DEF VerdictInv
  <1>a. RunInv(q) /\ EarnedInv(q) /\ ToldInv(q)
    BY DEF VerdictInv
  <1>b. /\ pc \in [Runs -> Points] /\ plan \in [Runs -> Plans \cup {<<>>}]
        /\ row \in [Runs -> Rows \cup {None, Gone}] /\ test \in [Tests -> Plans \cup {Gone}]
        /\ testOf[q] \in Tests /\ <<>> \notin Plans
    BY ScenarioAssumption DEF TypeOK
  <1> USE DEF Goto, stepVars, runVars
  <1>1. ASSUME NEW r \in Runs, Read(r) PROVE RunInv(q)' /\ EarnedInv(q)' /\ ToldInv(q)'
    <2>1. CASE q # r
      <3>1. UNCHANGED <<pc[q], plan[q], ok, steps, row, expired>>
        BY <1>1, <1>b, <2>1 DEF Read
      <3> QED
        BY <1>a, <3>1 DEF RunInv, EarnedInv, ToldInv, Stored
    <2>2. CASE q = r
      <3>1. /\ pc[q] = "idle" /\ UNCHANGED <<steps, row>> /\ pc'[q] \in {"insert", "refused"}
            /\ pc'[q] = "insert" => plan'[q] # <<>>
        BY <1>1, <1>b, <2>2 DEF Read
      <3> QED
        BY <1>a, <3>1 DEF RunInv, EarnedInv, ToldInv, Stored, Working, InStep, Ending
    <2> QED
      BY <2>1, <2>2
  <1>2. ASSUME NEW r \in Runs, Start(r) PROVE RunInv(q)' /\ EarnedInv(q)' /\ ToldInv(q)'
    <2>1. CASE q # r
      <3>1. UNCHANGED <<pc[q], plan, ok, steps, row[q], expired>>
        BY <1>2, <1>b, <2>1 DEF Start
      <3> QED
        BY <1>a, <3>1 DEF RunInv, EarnedInv, ToldInv, Stored
    <2>2. CASE q = r
      <3>1. /\ pc[q] = "insert" /\ UNCHANGED <<steps, plan>> /\ pc'[q] = "dir"
            /\ row'[q] = [status |-> "running", steps |-> <<>>, video |-> {}]
        BY <1>2, <1>b, <2>2 DEF Start
      <3> QED
        BY <1>a, <3>1 DEF RunInv, EarnedInv, ToldInv, Stored, Working, InStep, Ending
    <2> QED
      BY <2>1, <2>2
  <1>3. ASSUME NEW r \in Runs, execute(r) PROVE RunInv(q)' /\ EarnedInv(q)' /\ ToldInv(q)'
    <2>1. CASE q # r
      <3>1. UNCHANGED <<pc[q], ok[q], row[q], steps[q], plan, expired>>
        BY <1>3, <2>1, OthersKept, ScopeKept
      <3> QED
        BY <1>a, <3>1 DEF RunInv, EarnedInv, ToldInv, Stored
    <2> QED
      BY <1>3, <2>1, VerdictExecute
  <1>4. ASSUME NEW r \in Runs, Deadline(r) PROVE RunInv(q)' /\ EarnedInv(q)' /\ ToldInv(q)'
    BY <1>4, <1>a DEF Deadline, RunInv, EarnedInv, ToldInv, Stored
  <1>5. ASSUME NEW t \in Tests, DeleteTestRuns(t) PROVE RunInv(q)' /\ EarnedInv(q)' /\ ToldInv(q)'
    <2>1. UNCHANGED <<pc, plan, ok, steps, expired>> /\ (row'[q] = row[q] \/ (Stored(q) /\ row'[q] = Gone))
      BY <1>5, <1>b DEF DeleteTestRuns
    <2> QED
      BY <1>a, <2>1 DEF RunInv, EarnedInv, ToldInv, Stored
  <1>6. ASSUME \/ \E t \in Tests : DeleteTestRow(t)
               \/ \E d \in Devices :
                     Display(d) \/ InstanceStops(d) \/ InstanceStarts(d) \/
                        \E r \in Runs : RecorderLimit(d, r)
               \/ UNCHANGED vars
        PROVE RunInv(q)' /\ EarnedInv(q)' /\ ToldInv(q)'
    <2>1. UNCHANGED <<pc, plan, ok, steps, expired, row>>
      BY <1>6 DEF DeleteTestRow, Display, InstanceStops, InstanceStarts, RecorderLimit, vars
    <2> QED
      BY <1>a, <2>1 DEF RunInv, EarnedInv, ToldInv, Stored
  <1>7. CASE Restart
    <2>1. /\ UNCHANGED <<plan, ok, steps, expired, row>>
          /\ pc'[q] = pc[q] \/ (pc[q] \in Working \cup {"insert"} /\ pc'[q] = "dead")
      BY <1>7, <1>b DEF Restart
    <2> QED
      BY <1>a, <2>1 DEF RunInv, EarnedInv, ToldInv, Stored, Working, InStep, Ending
  <1> QED
    BY <1>1, <1>2, <1>3, <1>4, <1>5, <1>6, <1>7 DEF Next

\* A row reads passed only when every step of the test was executed and passed.
THEOREM PassesAreEarned == Spec => []PassIsEarned
  <1>1. Init => VerdictInv
    BY DEF Init, VerdictInv, RunInv, EarnedInv, ToldInv, Stored, Working, InStep, Ending
  <1>2. VerdictInv => PassIsEarned
    BY DEF VerdictInv, EarnedInv, PassIsEarned, AllPass
  <1> QED
    BY <1>1, <1>2, VerdictNext, TypeCorrect, PTL DEF Spec

\* Until the deadline, the report of a run shows all it has done.
THEOREM ReportsAreCurrent == Spec => []RowTellsRun
  <1>1. Init => VerdictInv
    BY DEF Init, VerdictInv, RunInv, EarnedInv, ToldInv, Stored, Working, InStep, Ending
  <1>2. VerdictInv => RowTellsRun
    BY DEF VerdictInv, ToldInv, RowTellsRun
  <1> QED
    BY <1>1, <1>2, VerdictNext, TypeCorrect, PTL DEF Spec

-----------------------------------------------------------------------------
(* Evidence.                                                               *)

\* The screenshot in hand, the one on disk and the one judged.
ShotInv(q) ==
    /\ shot[q] <= screen[dev[q]]
    /\ disk[q] \in Frames /\ q \notin lost => disk[q] = shot[q]
    /\ q \in lost => ground[q] # None /\ (disk[q] \in Frames => disk[q] <= ground[q])
    /\ ground[q] # None => ground[q] <= shot[q]
    /\ pc[q] \in {"tap", "text", "again"} => ground[q] = shot[q]
    /\ pc[q] \in {"locate", "tap", "text", "query", "again", "append", "dead"} \/ ground[q] = None
    /\ pc[q] = "append" /\ ok[q] /\ ground[q] # None => ground[q] = shot[q]

Grounded(s) ==
    s.evidence \in Frames /\ s.ground # None =>
        CASE s.lost            -> s.evidence <= s.ground
          [] ~s.lost /\ s.pass -> s.evidence = s.ground
          [] OTHER             -> s.evidence >= s.ground

EvidenceInv ==
    \A q \in Runs : ShotInv(q) /\ \A i \in 1..Len(steps[q]) : Grounded(steps[q][i])


\* The evidence of a run through a step of its goroutine.
LEMMA EvidenceExecute ==
    ASSUME TypeOK, EvidenceInv, NEW r \in Runs, execute(r)
    PROVE  ShotInv(r)' /\ \A i \in 1..Len(steps'[r]) : Grounded(steps'[r][i])
  <1>a. ShotInv(r) /\ \A i \in 1..Len(steps[r]) : Grounded(steps[r][i])
    BY DEF EvidenceInv
  <1>b. UNCHANGED <<dev, screen>>
    BY ScopeKept
  <1>c. /\ pc \in [Runs -> Points] /\ ok \in [Runs -> BOOLEAN] /\ steps \in [Runs -> Seq(Results)]
        /\ shot \in [Runs -> Nat] /\ screen[dev[r]] \in Nat
        /\ disk \in [Runs -> Nat \cup {None, Torn}] /\ ground \in [Runs -> Nat \cup {None}]
        /\ None \notin Nat /\ Torn \notin Nat /\ None # Torn
    BY ScenarioAssumption DEF TypeOK, Frames
  <1> USE DEF Goto, runVars, stepVars, Frames
  <1>1. CASE MakeDir(r)
    <2>1. UNCHANGED <<steps, shot, disk, lost, ground>>
      BY <1>1 DEF MakeDir
    <2>2. ShotInv(r)'
      BY <1>1, <1>a, <1>b, <1>c, <2>1 DEF MakeDir, ShotInv
    <2> QED
      BY <1>a, <2>1, <2>2
  <1>2. CASE KillStale(r)
    <2>1. UNCHANGED <<steps, shot, disk, lost, ground>>
      BY <1>2 DEF KillStale
    <2>2. ShotInv(r)'
      BY <1>2, <1>a, <1>b, <1>c, <2>1 DEF KillStale, ShotInv
    <2> QED
      BY <1>a, <2>1, <2>2
  <1>3. CASE StartRecorder(r)
    <2>1. UNCHANGED <<steps, shot, disk, lost, ground>>
      BY <1>3 DEF StartRecorder
    <2>2. ShotInv(r)'
      BY <1>3, <1>a, <1>b, <1>c, <2>1 DEF StartRecorder, ShotInv
    <2> QED
      BY <1>a, <2>1, <2>2
  <1>4. CASE Act(r)
    <2>1. UNCHANGED <<steps, shot, disk, lost, ground>>
      BY <1>4 DEF Act
    <2>2. ShotInv(r)'
      BY <1>4, <1>a, <1>b, <1>c, <2>1 DEF Act, StepEnds, ShotInv
    <2> QED
      BY <1>a, <2>1, <2>2
  <1>5. CASE Wait(r)
    <2>1. UNCHANGED <<steps, shot, disk, lost, ground>>
      BY <1>5 DEF Wait
    <2>2. ShotInv(r)'
      BY <1>5, <1>a, <1>b, <1>c, <2>1 DEF Wait, StepEnds, ShotInv
    <2> QED
      BY <1>a, <2>1, <2>2
  <1>6. CASE Tap(r)
    <2>1. UNCHANGED <<steps, shot, disk, lost, ground>>
      BY <1>6 DEF Tap
    <2>2. ShotInv(r)'
      BY <1>6, <1>a, <1>b, <1>c, <2>1 DEF Tap, StepEnds, ShotInv
    <2> QED
      BY <1>a, <2>1, <2>2
  <1>7. CASE Settle(r)
    <2>1. UNCHANGED <<steps, shot, disk, lost, ground>>
      BY <1>7 DEF Settle
    <2>2. ShotInv(r)'
      BY <1>7, <1>a, <1>b, <1>c, <2>1 DEF Settle, AfterSteps, ShotInv
    <2> QED
      BY <1>a, <2>1, <2>2
  <1>8. CASE StopRecorder(r)
    <2>1. UNCHANGED <<steps, shot, disk, lost, ground>>
      BY <1>8 DEF StopRecorder
    <2>2. ShotInv(r)'
      BY <1>8, <1>a, <1>b, <1>c, <2>1 DEF StopRecorder, ShotInv
    <2> QED
      BY <1>a, <2>1, <2>2
  <1>9. CASE PullVideo(r)
    <2>1. UNCHANGED <<steps, shot, disk, lost, ground>>
      BY <1>9 DEF PullVideo
    <2>2. ShotInv(r)'
      BY <1>9, <1>a, <1>b, <1>c, <2>1 DEF PullVideo, ShotInv
    <2> QED
      BY <1>a, <2>1, <2>2
  <1>10. CASE EraseFile(r)
    <2>1. UNCHANGED <<steps, shot, disk, lost, ground>>
      BY <1>10 DEF EraseFile
    <2>2. ShotInv(r)'
      BY <1>10, <1>a, <1>b, <1>c, <2>1 DEF EraseFile, ShotInv
    <2> QED
      BY <1>a, <2>1, <2>2
  <1>11. CASE Finish(r)
    <2>1. UNCHANGED <<steps, shot, disk, lost, ground>>
      BY <1>11 DEF Finish
    <2>2. ShotInv(r)'
      BY <1>11, <1>a, <1>b, <1>c, <2>1 DEF Finish, ShotInv
    <2> QED
      BY <1>a, <2>1, <2>2
  <1>12. CASE Screenshot(r)
    <2>1. ground[r] = None /\ r \notin lost /\ UNCHANGED <<steps, ground, lost>>
      BY <1>12, <1>a DEF Screenshot, ShotInv
    <2>2. \/ shot'[r] = screen[dev[r]] /\ disk'[r] \in {screen[dev[r]], None}
          \/ UNCHANGED <<shot, disk>>
      BY <1>12, <1>c DEF Screenshot, WriteFile
    <2>3. ShotInv(r)'
      BY <1>a, <1>b, <1>c, <1>12, <2>1, <2>2 DEF ShotInv, Screenshot, StepEnds
    <2> QED
      BY <1>a, <2>1, <2>3
  <1>13. CASE Judge(r)
    <2>1. UNCHANGED <<steps, shot, disk, lost>>
      BY <1>13 DEF Judge
    <2>2. ShotInv(r)'
      BY <1>a, <1>b, <1>c, <1>13, <2>1 DEF ShotInv, Judge, StepEnds
    <2> QED
      BY <1>a, <2>1, <2>2
  <1>14. CASE Recapture(r)
    <2>1. UNCHANGED <<steps, ground>>
      BY <1>14 DEF Recapture
    <2>2. \/ /\ shot'[r] = screen[dev[r]]
             /\ \/ disk'[r] = screen[dev[r]] /\ r \notin lost'
                \/ disk'[r] \in {disk[r], Torn} /\ r \in lost'
                \/ disk'[r] = None
                   /\ (r \in lost' <=> r \in lost)
          \/ UNCHANGED <<shot, disk, lost>>
      <3>1. \/ shot'[r] = screen[dev[r]] /\ Rewrite(r, screen[dev[r]])
            \/ UNCHANGED <<shot, disk, lost>>
        BY <1>14, <1>c DEF Recapture
      <3>2. ASSUME Rewrite(r, screen[dev[r]])
            PROVE  \/ disk'[r] = screen[dev[r]] /\ r \notin lost'
                   \/ disk'[r] \in {disk[r], Torn} /\ r \in lost'
                   \/ disk'[r] = None /\ (r \in lost' <=> r \in lost)
        <4>1. CASE disk[r] = None
          BY <3>2, <4>1 DEF Rewrite
        <4>2. CASE disk[r] # None
          <5>1. disk'[r] \in {screen[dev[r]], disk[r], Torn}
            BY <1>c, <3>2, <4>2 DEF Rewrite, WriteFile
          <5>2. lost' = IF disk'[r] = screen[dev[r]] THEN lost \ {r} ELSE lost \cup {r}
            BY <3>2, <4>2 DEF Rewrite
          <5> QED
            BY <5>1, <5>2
        <4> QED
          BY <4>1, <4>2
      <3> QED
        BY <3>1, <3>2
    <2>3. pc'[r] \in {"locate", "query", "append"} /\ (pc'[r] = "append" => ~ok'[r]) /\ pc[r] = "again"
      BY <1>14, <1>c DEF Recapture, Retry, StepEnds
    <2>4. ShotInv(r)'
      BY <1>a, <1>b, <1>c, <2>1, <2>2, <2>3 DEF ShotInv
    <2> QED
      BY <1>a, <2>1, <2>4
  <1>15. CASE AppendResult(r)
    <2>1. /\ pc[r] = "append" /\ pc'[r] # "append" /\ pc'[r] \notin {"tap", "text", "again"}
          /\ steps'[r] = Append(steps[r], Result(r))
          /\ shot'[r] = 0 /\ disk'[r] = None /\ ground'[r] = None /\ r \notin lost'
      BY <1>15, <1>c DEF AppendResult, AfterSteps, Forget
    <2>2. Result(r) \in Results
      BY DEF TypeOK, Result, Results
    <2>3. Grounded(Result(r))
      BY <1>a, <1>c, <2>1 DEF ShotInv, Grounded, Result
    <2>4. \A i \in 1..Len(steps'[r]) : Grounded(steps'[r][i])
      BY <1>a, <1>c, <2>1, <2>2, <2>3
    <2>5. ShotInv(r)'
      BY <1>b, <1>c, <2>1 DEF ShotInv
    <2> QED
      BY <2>4, <2>5
  <1> QED
    BY <1>1, <1>2, <1>3, <1>4, <1>5, <1>6, <1>7, <1>8, <1>9, <1>10, <1>11, <1>12, <1>13, <1>14, <1>15 DEF execute

LEMMA EvidenceNext == TypeOK /\ EvidenceInv /\ [Next]_vars => EvidenceInv'
  <1> SUFFICES ASSUME TypeOK, EvidenceInv, [Next]_vars, NEW q \in Runs
               PROVE  ShotInv(q)' /\ \A i \in 1..Len(steps'[q]) : Grounded(steps'[q][i])
    BY DEF EvidenceInv
  <1> DEFINE Own == /\ UNCHANGED <<shot[q], disk[q], ground[q], ok[q], steps[q], dev>>
                    /\ (q \in lost' <=> q \in lost)
             Judged == {"locate", "tap", "text", "query", "again", "append"}
  <1>a. ShotInv(q) /\ \A i \in 1..Len(steps[q]) : Grounded(steps[q][i])
    BY DEF EvidenceInv
  <1>b. /\ pc \in [Runs -> Points] /\ screen \in [Devices -> Nat] /\ dev[q] \in Devices
        /\ shot[q] \in Nat
    BY DEF TypeOK, Frames
  <1>c. ASSUME Own, screen'[dev[q]] \in Nat, screen'[dev[q]] >= screen[dev[q]],
               \/ pc'[q] = pc[q]
               \/ pc'[q] = "dead"
               \/ pc[q] \in {"idle", "insert"} /\ pc'[q] \notin Judged
        PROVE  ShotInv(q)' /\ \A i \in 1..Len(steps'[q]) : Grounded(steps'[q][i])
    <2>1. ShotInv(q)'
      BY <1>a, <1>b, <1>c DEF ShotInv
    <2> QED
      BY <1>a, <1>c, <2>1
  <1> USE DEF Goto, stepVars, runVars, deviceVars
  <1>1. ASSUME NEW r \in Runs, Read(r) \/ Start(r)
        PROVE  ShotInv(q)' /\ \A i \in 1..Len(steps'[q]) : Grounded(steps'[q][i])
    <2>1. Own /\ UNCHANGED screen
      BY <1>1 DEF Read, Start
    <2>2. pc'[q] = pc[q] \/ (pc[q] \in {"idle", "insert"} /\ pc'[q] \notin Judged)
      BY <1>1, <1>b DEF Read, Start
    <2> QED
      BY <1>b, <1>c, <2>1, <2>2
  <1>2. ASSUME NEW r \in Runs, execute(r)
        PROVE  ShotInv(q)' /\ \A i \in 1..Len(steps'[q]) : Grounded(steps'[q][i])
    <2>1. CASE q # r
      <3>1. Own /\ UNCHANGED <<screen, pc[q]>>
        BY <1>2, <2>1, OthersKept, ScopeKept
      <3> QED
        BY <1>b, <1>c, <3>1
    <2> QED
      BY <1>2, <2>1, EvidenceExecute
  <1>3. ASSUME NEW d \in Devices, Display(d)
        PROVE  ShotInv(q)' /\ \A i \in 1..Len(steps'[q]) : Grounded(steps'[q][i])
    <2>1. Own /\ UNCHANGED pc
      BY <1>3 DEF Display
    <2>2. screen'[dev[q]] \in Nat /\ screen'[dev[q]] >= screen[dev[q]]
      BY <1>3, <1>b DEF Display
    <2> QED
      BY <1>c, <2>1, <2>2
  <1>4. ASSUME \/ \E r \in Runs : Deadline(r)
               \/ \E t \in Tests : DeleteTestRuns(t) \/ DeleteTestRow(t)
               \/ \E d \in Devices : InstanceStops(d) \/ InstanceStarts(d) \/
                                      \E r \in Runs : RecorderLimit(d, r)
               \/ UNCHANGED vars
        PROVE  ShotInv(q)' /\ \A i \in 1..Len(steps'[q]) : Grounded(steps'[q][i])
    <2>1. Own /\ UNCHANGED <<pc, screen>>
      BY <1>4 DEF Deadline, DeleteTestRuns, DeleteTestRow, InstanceStops, InstanceStarts,
         RecorderLimit, vars
    <2> QED
      BY <1>b, <1>c, <2>1
  <1>5. CASE Restart
    <2>1. Own /\ UNCHANGED screen /\ (pc'[q] = pc[q] \/ pc'[q] = "dead")
      BY <1>5, <1>b DEF Restart
    <2> QED
      BY <1>b, <1>c, <2>1
  <1> QED
    BY <1>1, <1>2, <1>3, <1>4, <1>5 DEF Next

\* The screenshot kept for a step is the one it was decided by, or a later one
\* if it failed, or an earlier one if the file could not be rewritten.
THEOREM EvidenceIsGrounded == Spec => []EvidenceGrounds
  <1>1. Init => EvidenceInv
    BY ScenarioAssumption DEF Init, EvidenceInv, ShotInv, Frames
  <1>2. EvidenceInv => EvidenceGrounds
    BY DEF EvidenceInv, EvidenceGrounds, Grounded
  <1> QED
    BY <1>1, <1>2, EvidenceNext, TypeCorrect, PTL DEF Spec

-----------------------------------------------------------------------------
(* Videos.                                                                 *)

\* What holds of the device of a run that has had it to itself.
FilmInv(q) ==
    /\ pc[q] \in {"idle", "insert", "refused", "dir", "record", "film"} =>
          q \notin filmed /\ video[q] = {} /\ (Stored(q) => row[q].video = {})
    /\ pc[q] \in {"idle", "insert", "refused"} => q \notin alone
    /\ q \in alone /\ pc[q] \in Working => Busy(dev[q]) = {q}
    /\ q \in alone /\ pc[q] = "film" => rec[dev[q]] = {}
    /\ q \in alone \cap filmed /\ pc[q] \in Working => file[dev[q]] \subseteq {q}
    /\ q \in alone \cap filmed => video[q] \subseteq {q}
    /\ q \in alone \cap filmed /\ Stored(q) => row[q].video \subseteq {q}

VideoInv == \A q \in Runs : FilmInv(q)

\* A goroutine touches no recorder and no file of a device it does not work on.
LEMMA DevicesKept ==
    ASSUME TypeOK, NEW r \in Runs, execute(r), NEW d \in Devices \ {dev[r]}
    PROVE  rec'[d] = rec[d] /\ file'[d] = file[d]
  <1>1. rec \in [Devices -> SUBSET Runs] /\ file \in [Devices -> SUBSET Runs] /\ dev[r] \in Devices
    BY DEF TypeOK
  <1> QED
    BY <1>1 DEF execute, MakeDir, KillStale, StartRecorder, Screenshot, Act, Wait, Judge, Recapture, Tap, AppendResult, Settle, StopRecorder, PullVideo, EraseFile, Finish,
       Pkill, recVars

\* Where a goroutine is before and after a step.
LEMMA Moves ==
    ASSUME TypeOK, NEW r \in Runs, execute(r)
    PROVE  /\ pc[r] \in Working /\ pc'[r] \in Working \cup {"done"}
           /\ pc'[r] = "film" => pc[r] = "record"
           /\ pc'[r] = "record" => pc[r] = "dir"
           /\ pc'[r] # "dir"
  <1>1. pc \in [Runs -> Points]
    BY DEF TypeOK
  <1> USE DEF Goto, Working
  <1>2. CASE MakeDir(r)
    BY <1>1, <1>2 DEF MakeDir
  <1>3. CASE KillStale(r)
    BY <1>1, <1>3 DEF KillStale
  <1>4. CASE StartRecorder(r)
    BY <1>1, <1>4 DEF StartRecorder
  <1>5. CASE Screenshot(r)
    BY <1>1, <1>5 DEF Screenshot, StepEnds
  <1>6. CASE Act(r)
    BY <1>1, <1>6 DEF Act, StepEnds
  <1>7. CASE Wait(r)
    BY <1>1, <1>7 DEF Wait, StepEnds
  <1>8. CASE Judge(r)
    BY <1>1, <1>8 DEF Judge, StepEnds
  <1>9. CASE Recapture(r)
    BY <1>1, <1>9 DEF Recapture, Retry, StepEnds
  <1>10. CASE Tap(r)
    BY <1>1, <1>10 DEF Tap, StepEnds
  <1>11. CASE AppendResult(r)
    BY <1>1, <1>11 DEF AppendResult, AfterSteps
  <1>12. CASE Settle(r)
    BY <1>1, <1>12 DEF Settle, AfterSteps
  <1>13. CASE StopRecorder(r)
    BY <1>1, <1>13 DEF StopRecorder
  <1>14. CASE PullVideo(r)
    BY <1>1, <1>14 DEF PullVideo
  <1>15. CASE EraseFile(r)
    BY <1>1, <1>15 DEF EraseFile
  <1>16. CASE Finish(r)
    BY <1>1, <1>16 DEF Finish
  <1> QED
    BY <1>2, <1>3, <1>4, <1>5, <1>6, <1>7, <1>8, <1>9, <1>10, <1>11, <1>12, <1>13, <1>14, <1>15, <1>16 DEF execute

\* The video of a run through a step of its goroutine, if pkill works.
LEMMA FilmExecute ==
    ASSUME "kill" \notin Faults, TypeOK, VideoInv, NEW r \in Runs, execute(r)
    PROVE  FilmInv(r)'
  <1>a. FilmInv(r)
    BY DEF VideoInv
  <1>b. UNCHANGED <<dev, alone>>
    BY ScopeKept
  <1>c. /\ rec \in [Devices -> SUBSET Runs] /\ file \in [Devices -> SUBSET Runs]
        /\ video \in [Runs -> SUBSET Runs] /\ row \in [Runs -> Rows \cup {None, Gone}]
        /\ dev[r] \in Devices
    BY DEF TypeOK
  <1>d. /\ pc[r] \in Working /\ pc'[r] \in Working \cup {"done"}
        /\ pc'[r] = "film" => pc[r] = "record"
        /\ pc'[r] = "record" => pc[r] = "dir"
        /\ pc'[r] # "dir"
    BY Moves
  <1>e. Busy(dev[r])' \subseteq Busy(dev[r]) \cup {r}
    BY OthersKept, <1>b DEF Busy
  <1>f. pc'[r] \in Working => r \in Busy(dev[r])'
    BY <1>b DEF Busy
  <1>g. r \in alone' /\ pc'[r] \in Working => Busy(dev[r])' = {r}
    BY <1>a, <1>b, <1>d, <1>e, <1>f DEF FilmInv
  <1>h. pc'[r] \notin {"idle", "insert", "refused"}
    BY <1>d DEF Working
  <1>k. ASSUME UNCHANGED <<rec, file, filmed, video, row>> \/ UNCHANGED <<file, filmed, video, row>>,
               pc'[r] = "film" => rec'[dev[r]] = {}
        PROVE  FilmInv(r)'
    BY <1>a, <1>b, <1>d, <1>g, <1>h, <1>k DEF FilmInv, Stored, Working
  <1> USE DEF Goto, runVars, recVars
  <1>1. CASE KillStale(r)
    <2>1. pc'[r] = "film" => rec'[dev[r]] = {}
      BY <1>1, <1>c DEF KillStale, Pkill, TypeOK
    <2> QED
      BY <1>1, <1>k, <2>1 DEF KillStale
  <1>2. CASE StartRecorder(r)
    <2>1. /\ pc[r] = "film" /\ pc'[r] = "shot" /\ UNCHANGED <<video, row>>
      BY <1>2 DEF StartRecorder, TypeOK
    <2>2. \/ UNCHANGED <<file, filmed>>
          \/ file'[dev[r]] = rec[dev[r]] \cup {r} /\ filmed' = filmed \cup {r}
      BY <1>2, <1>c DEF StartRecorder
    <2>3. video[r] = {} /\ r \notin filmed
      BY <1>a, <2>1 DEF FilmInv
    <2>4. r \in alone => rec[dev[r]] = {}
      BY <1>a, <2>1 DEF FilmInv
    <2>5. Stored(r) => row[r].video = {}
      BY <1>a, <2>1 DEF FilmInv
    <2>6. row'[r] = row[r] /\ video'[r] = video[r]
      BY <2>1
    <2>7. r \in alone /\ r \in filmed' => file'[dev[r]] \subseteq {r}
      BY <2>2, <2>3, <2>4
    <2> QED
      BY <1>b, <1>g, <2>1, <2>3, <2>5, <2>6, <2>7 DEF FilmInv, Stored
  <1>3. CASE PullVideo(r)
    <2>1. /\ pc[r] = "pull" /\ pc'[r] \in {"erase", "finish"}
          /\ UNCHANGED <<rec, file, filmed, row>>
          /\ video'[r] \in {video[r], file[dev[r]], {}}
      BY <1>3, <1>c DEF PullVideo, TypeOK
    <2>2. r \in alone \cap filmed => file[dev[r]] \subseteq {r} /\ video[r] \subseteq {r}
      BY <1>a, <1>d DEF FilmInv
    <2>3. r \in alone \cap filmed => video'[r] \subseteq {r}
      BY <2>1, <2>2
    <2> QED
      BY <1>a, <1>b, <1>d, <1>g, <2>1, <2>2, <2>3 DEF FilmInv, Stored
  <1>4. CASE AppendResult(r) \/ Finish(r)
    <2>1. UNCHANGED <<rec, file, filmed, video>>
      BY <1>4 DEF AppendResult, Finish
    <2>2. pc'[r] \notin {"idle", "insert", "refused", "dir", "record", "film"}
      BY <1>4 DEF AppendResult, AfterSteps, Finish, TypeOK
    <2>3. \/ row'[r] = row[r]
          \/ row'[r].video = video[r]
      BY <1>4, <1>c DEF AppendResult, Finish, UpdateTestRun
    <2>4. Stored(r)' => Stored(r)
      BY <1>4, <1>c DEF AppendResult, Finish, UpdateTestRun, Stored
    <2>5. r \in alone \cap filmed /\ Stored(r)' => row'[r].video \subseteq {r}
      BY <1>a, <2>3, <2>4 DEF FilmInv
    <2> QED
      BY <1>a, <1>b, <1>d, <1>g, <2>1, <2>2, <2>5 DEF FilmInv
  <1>5. CASE EraseFile(r)
    <2>1. /\ pc[r] = "erase" /\ pc'[r] = "finish"
          /\ UNCHANGED <<rec, filmed, row, video>>
          /\ file'[dev[r]] \subseteq file[dev[r]]
      BY <1>5, <1>c DEF EraseFile, TypeOK
    <2> QED
      BY <1>a, <1>b, <1>d, <1>g, <2>1 DEF FilmInv, Stored
  <1>6. CASE \/ MakeDir(r) \/ Screenshot(r) \/ Act(r) \/ Wait(r) \/ Judge(r) \/ Recapture(r)
             \/ Tap(r) \/ Settle(r) \/ StopRecorder(r)
    <2>1. UNCHANGED <<file, filmed, video, row>>
      BY <1>6 DEF MakeDir, Screenshot, Act, Wait, Judge, Recapture, Tap, Settle, StopRecorder
    <2>2. pc[r] # "record"
      BY <1>6 DEF MakeDir, Screenshot, Act, Wait, Judge, Recapture, Tap, Settle, StopRecorder
    <2> QED
      BY <1>d, <1>k, <2>1, <2>2
  <1> QED
    BY <1>1, <1>2, <1>3, <1>4, <1>5, <1>6 DEF execute

LEMMA VideoNext ==
    ASSUME "kill" \notin Faults, TypeOK, VideoInv, [Next]_vars
    PROVE  VideoInv'
  <1> SUFFICES ASSUME NEW q \in Runs PROVE FilmInv(q)'
    BY DEF VideoInv
  <1>a. FilmInv(q)
    BY DEF VideoInv
  <1>b. /\ pc \in [Runs -> Points] /\ dev \in [Runs -> Devices]
        /\ rec \in [Devices -> SUBSET Runs]
        /\ row \in [Runs -> Rows \cup {None, Gone}]
    BY DEF TypeOK
  <1>k. ASSUME UNCHANGED <<dev, alone, filmed, video[q], file[dev[q]], pc>>,
               row'[q] \in {row[q], Gone}, rec'[dev[q]] \subseteq rec[dev[q]]
        PROVE  FilmInv(q)'
    <2>1. Busy(dev[q])' = Busy(dev[q])
      BY <1>k DEF Busy
    <2> QED
      BY <1>a, <1>k, <2>1 DEF FilmInv, Stored
  <1> USE DEF Goto, runVars, recVars, deviceVars
  <1>1. ASSUME NEW r \in Runs, Read(r) PROVE FilmInv(q)'
    <2>1. UNCHANGED <<dev, alone, filmed, video, file, rec, row>>
      BY <1>1 DEF Read
    <2>2. /\ pc[r] = "idle" /\ pc'[r] \in {"insert", "refused"}
          /\ \A p \in Runs \ {r} : pc'[p] = pc[p]
      BY <1>1, <1>b DEF Read
    <2>3. Busy(dev[q])' = Busy(dev[q])
      BY <2>1, <2>2 DEF Busy, Working
    <2>4. pc'[q] = pc[q] \/ (pc[q] = "idle" /\ pc'[q] \in {"insert", "refused"})
      BY <2>2
    <2> QED
      BY <1>a, <2>1, <2>3, <2>4 DEF FilmInv, Stored, Working
  <1>2. ASSUME NEW r \in Runs, Start(r) PROVE FilmInv(q)'
    <2>1. UNCHANGED <<dev, filmed, video, file, rec>>
      BY <1>2 DEF Start
    <2>2. /\ pc[r] = "insert" /\ pc'[r] = "dir"
          /\ \A p \in Runs \ {r} : pc'[p] = pc[p] /\ row'[p] = row[p]
          /\ row'[r].video = {}
      BY <1>2, <1>b DEF Start
    <2>3. /\ Busy(dev[r]) = {} => alone' = alone \cup {r}
          /\ Busy(dev[r]) # {} => alone' = alone \ Busy(dev[r])
      BY <1>2 DEF Start
    <2>4. r \in Busy(dev[r])' /\ Busy(dev[r])' = Busy(dev[r]) \cup {r}
      BY <2>1, <2>2 DEF Busy, Working
    <2>5. CASE q = r
      <3>1. r \notin alone /\ r \notin filmed /\ video[r] = {}
        BY <1>a, <2>2, <2>5 DEF FilmInv
      <3>2. r \in alone' => Busy(dev[r])' = {r}
        BY <2>3, <2>4, <3>1
      <3> QED
        BY <2>1, <2>2, <2>5, <3>1, <3>2 DEF FilmInv
    <2>6. CASE q # r
      <3>1. q \in alone' => q \in alone
        BY <2>3, <2>6
      <3>2. dev[q] # dev[r] => Busy(dev[q])' = Busy(dev[q])
        BY <2>1, <2>2 DEF Busy
      <3>3. q \in alone' /\ pc[q] \in Working => dev[q] # dev[r]
        BY <2>3, <2>6 DEF Busy
      <3>4. pc'[q] = pc[q] /\ row'[q] = row[q]
        BY <2>2, <2>6
      <3> QED
        BY <1>a, <2>1, <3>1, <3>2, <3>3, <3>4 DEF FilmInv, Stored
    <2> QED
      BY <2>5, <2>6
  <1>3. ASSUME NEW r \in Runs, execute(r) PROVE FilmInv(q)'
    <2>1. CASE q # r
      <3>1. UNCHANGED <<dev, alone>> /\ pc'[q] = pc[q] /\ row'[q] = row[q] /\ video'[q] = video[q]
        BY <1>3, <2>1, OthersKept, ScopeKept
      <3>2. q \in filmed' <=> q \in filmed
        BY <1>3, <2>1 DEF execute, MakeDir, KillStale, StartRecorder, Screenshot, Act, Wait, Judge,
           Recapture, Tap, AppendResult, Settle, StopRecorder, PullVideo, EraseFile, Finish
      <3>3. pc[r] \in Working
        BY <1>3, Moves
      <3>4. q \in alone /\ pc[q] \in Working => dev[q] # dev[r]
        BY <1>a, <2>1, <3>3 DEF FilmInv, Busy
      <3>5. dev[q] # dev[r] => rec'[dev[q]] = rec[dev[q]] /\ file'[dev[q]] = file[dev[q]]
        BY <1>3, <1>b, DevicesKept
      <3>6. \A p \in Runs \ {r} : pc'[p] = pc[p]
        BY <1>3, OthersKept
      <3>7. dev[q] # dev[r] => Busy(dev[q])' = Busy(dev[q])
        BY <3>1, <3>6 DEF Busy
      <3>8. pc[q] \in Working <=> pc'[q] \in Working
        BY <3>1
      <3>9. "film" \in Working
        BY DEF Working
      <3> QED
        BY <1>a, <3>1, <3>2, <3>4, <3>5, <3>7, <3>8, <3>9 DEF FilmInv, Stored
    <2> QED
      BY <1>3, <2>1, FilmExecute
  <1>4. ASSUME NEW r \in Runs, Deadline(r) PROVE FilmInv(q)'
    BY <1>4, <1>k DEF Deadline
  <1>5. ASSUME NEW t \in Tests, DeleteTestRuns(t) \/ DeleteTestRow(t) PROVE FilmInv(q)'
    <2>1. row'[q] \in {row[q], Gone}
      BY <1>5 DEF DeleteTestRuns, DeleteTestRow
    <2> QED
      BY <1>5, <1>k, <2>1 DEF DeleteTestRuns, DeleteTestRow
  <1>6. ASSUME NEW d \in Devices, NEW r \in Runs,
               Display(d) \/ InstanceStops(d) \/ InstanceStarts(d) \/ RecorderLimit(d, r)
        PROVE  FilmInv(q)'
    <2>1. rec'[dev[q]] \subseteq rec[dev[q]]
      BY <1>6, <1>b DEF Display, InstanceStops, InstanceStarts, RecorderLimit
    <2> QED
      BY <1>6, <1>k, <2>1 DEF Display, InstanceStops, InstanceStarts, RecorderLimit
  <1>7. CASE Restart
    <2>1. UNCHANGED <<dev, alone, filmed, video, file, rec, row>>
      BY <1>7 DEF Restart
    <2>2. \A p \in Runs : pc'[p] \in Working => FALSE
      BY <1>7, <1>b DEF Restart, Working
    <2>3. pc'[q] = pc[q] \/ pc'[q] = "dead"
      BY <1>7, <1>b DEF Restart
    <2>4. "film" \in Working
      BY DEF Working
    <2> QED
      BY <1>a, <2>1, <2>2, <2>3, <2>4 DEF FilmInv, Stored
  <1>8. CASE UNCHANGED vars
    BY <1>8, <1>k DEF vars
  <1> QED
    BY <1>1, <1>2, <1>3, <1>4, <1>5, <1>6, <1>7, <1>8 DEF Next

\* If pkill works, a run that had the device to itself and whose recorder started
\* gets its own pictures, whatever earlier runs left on the device.
THEOREM VideosAreOwn == ASSUME "kill" \notin Faults PROVE Spec => []VideoIsOwn
  <1>1. Init => VideoInv
    BY DEF Init, VideoInv, FilmInv, Stored, Working
  <1>2. TypeOK /\ VideoInv /\ [Next]_vars => VideoInv'
    BY VideoNext
  <1>3. TypeOK /\ VideoInv => VideoIsOwn
    BY DEF TypeOK, VideoInv, FilmInv, VideoIsOwn
  <1> QED
    BY <1>1, <1>2, <1>3, TypeCorrect, PTL DEF Spec

=============================================================================
