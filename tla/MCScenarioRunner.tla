-------------------------- MODULE MCScenarioRunner --------------------------
(***************************************************************************)
(* Replayed tests twice, in the same variables: one run step by step, with *)
(* every kind of step and every fault, and runs that share a device and a  *)
(* process that dies. Every behaviour is one of the two.                   *)
(***************************************************************************)
EXTENDS ScenarioRunner

CONSTANT TheRun   \* the one that is followed step by step

VARIABLE focus    \* which of the two a behaviour is

\* Between them every kind of step, and every order of a judged step and one
\* that is not.
StepPlans == {<<"act">>, <<"tap", "act">>, <<"wait", "assert">>, <<"type">>, <<"unknown">>}

\* One command is enough to film.
Sharing == INSTANCE ScenarioRunner
    WITH Plans <- {<<"act">>}, Faults <- {"deadline", "silent"}, MaxScreens <- 0,
         MaxRestarts <- 1

allVars == <<vars, focus>>

InSteps(A) ==
    /\ focus = "steps" /\ A
    /\ \A r \in Runs \ {TheRun} : pc'[r] = pc[r]
    /\ UNCHANGED focus

\* Nobody deletes the test of the runs that share a device: what is said of them
\* is about rows, and a delete makes rows disappear.
OnDevice(A) == focus = "device" /\ UNCHANGED <<test, doomed, focus>> /\ A

BothInit == \/ focus = "steps" /\ Init
            \/ focus = "device" /\ Sharing!Init

BothNext == InSteps(Next) \/ OnDevice(Sharing!Next)

\* The goroutine of the run that is followed is scheduled.
BothSpec == BothInit /\ [][BothNext]_allVars /\ WF_vars(focus = "steps" /\ execute(TheRun))

-----------------------------------------------------------------------------

\* RunGetsVerdict of the run that is followed: it gets a verdict however often a
\* step is tried again and whatever command, file or call of the sidecar fails
\* (runStep, groundAndTap and every path of execute).
TheRunGetsVerdict == focus = "steps" => RunGetsVerdict

=============================================================================
