-------------------------- MODULE MCCycleSchedule ---------------------------
(***************************************************************************)
(* The scheduler, and what it takes for granted: that runs end. That is    *)
(* CycleExecution's, here with one device, agents that outlive their       *)
(* request and a process that dies. The two share a cycle and the count of *)
(* restarts, and every behaviour has one of them that moves while the      *)
(* other stays as it is initially.                                         *)
(***************************************************************************)
EXTENDS CycleSchedule, Sequences, FiniteSets

CONSTANTS Runs, Device, Call   \* of CycleExecution

VARIABLES cycles, run, totals, crow, steps, pc, dev, cur, tally, reply, snap, running, active,
          runs, conv, call, deleting,
          focus   \* the one that moves

Execution == INSTANCE CycleExecution
    WITH CycleOf <- [r \in Runs |-> CHOOSE c \in Cycles : TRUE], Devices <- {Device},
         Calls <- {Call}, NumCases <- 1, Expected <- 1, Disciplined <- FALSE,
         Faults <- {"timeout", "nodevice"}

executionVars == <<cycles, run, totals, crow, steps, pc, dev, cur, tally, reply, snap, running,
                   active, runs, conv, call, deleting>>
allVars == <<vars, executionVars, focus>>

Schedules(A) == focus = "schedule" /\ A /\ UNCHANGED <<executionVars, focus>>
Executes(A) ==
    /\ focus = "execution" /\ A
    /\ UNCHANGED <<clock, row, slot, schedVars, req, focus>>

\* Bound: a cycle that is there from the beginning has both triggers, until an
\* edit takes one away.
BothInit ==
    /\ focus \in {"schedule", "execution"}
    /\ Init /\ Execution!Init
    /\ \A c \in Cycles : row[c] # None => row[c].enabled /\ row[c].onNewBuild
    /\ focus = "execution" => row = [c \in Cycles |-> None]

BothNext == Schedules(Next) \/ Executes(Execution!Next)

\* The fairness of each, while it is the one that moves.
BothSpec ==
    /\ BothInit /\ [][BothNext]_allVars
    /\ WF_vars(focus = "schedule" /\ SchedulerStep)
    /\ WF_vars(focus = "schedule" /\ ClockTick)
    /\ \A s \in Slots : WF_vars(focus = "schedule" /\ RunEnds(s))
    /\ \A r \in Runs :
          /\ WF_executionVars(focus = "execution" /\ Execution!ExecutorStep(r))
          /\ WF_executionVars(focus = "execution" /\ Execution!AgentEnds(r))
    /\ WF_executionVars(focus = "execution" /\ Execution!CallStep(Call))

-----------------------------------------------------------------------------

\* Every run that was started ends, whatever the agent does and wherever the
\* process dies (execute, finishCycle, FailStrandedCycleRuns).
RunsEnd == Execution!RunsEnd

\* Every device a run has claimed is given back, on every path through execute.
DevicesFreed == Execution!DevicesFreed

=============================================================================
