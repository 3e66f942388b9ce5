---------------------------- MODULE CycleSchedule ----------------------------
(***************************************************************************)
(* When test cycles run: the scheduler's loop over due cycles, the API     *)
(* requests that create, edit, run and delete a cycle, the fan-out after a *)
(* build upload, and a restart. They share the rows of test_cycles and     *)
(* cycle_runs; every statement on them is atomic, and what a goroutine read*)
(* before it writes may be stale by then. What a run does between its      *)
(* INSERT and its verdict is CycleExecution's subject.                     *)
(*                                                                         *)
(* Time is counted in half seconds: an even time is a whole second. Cron   *)
(* times are whole seconds; the clock is not.                              *)
(***************************************************************************)
EXTENDS Integers

CONSTANTS
    Cycles,
    Slots,       \* bound: cycle runs that read running at one time
    Requests,    \* bound: API requests
    Specs,       \* cron specs, by their period
    Never,       \* those that match no date at all, such as 30 February
    None,
    Gone,        \* the row of a deleted cycle
    Boot,        \* when the process first starts
    MaxTime,     \* bound on the clock
    MaxRestarts  \* bound on process restarts

ASSUME ScheduleAssumption ==
    /\ Specs \subseteq {n \in Nat : n # 0 /\ n % 2 = 0} /\ Never \subseteq Specs
    /\ Boot \in Nat /\ MaxTime \in Nat /\ MaxRestarts \in Nat
    /\ None \notin Specs \cup Int /\ None # Gone

VARIABLES
    clock,
    row,       \* test_cycles
    slot,      \* the cycle_runs rows that read running
    due,       \* the scheduler: listed cycles it has not come to
    item,      \* the listed cycle whose next run it has just advanced
    now,       \* time.Now() of the tick
    req,       \* the API requests
    restarts

schedVars == <<due, item, now>>
vars == <<clock, row, slot, schedVars, req, restarts>>

-----------------------------------------------------------------------------

\* The columns that decide when a cycle runs. last_run_at is only displayed.
CycleRows == [cron : Specs \cup {None}, next : Int \cup {None},
              enabled : BOOLEAN, onNewBuild : BOOLEAN]
Triggers == {"cron", "manual", "build"}
\* proc is the process whose goroutine executes the run.
RunRows == [cycle : Cycles, trigger : Triggers, proc : Nat]
Listed == [cycle : Cycles, cron : Specs]
\* A request that writes a row carries it; one that starts runs, their cycles.
RequestStates ==
    [ph : {"idle", "done"}] \cup [ph : {"write"}, cycle : Cycles, row : CycleRows]
        \cup [ph : {"start"}, trigger : {"manual", "build"}, todo : SUBSET Cycles]

TypeOK ==
    /\ clock \in Nat
    /\ row \in [Cycles -> CycleRows \cup {None, Gone}]
    /\ slot \in [Slots -> RunRows \cup {None}]
    /\ due \subseteq Listed
    /\ item \in Listed \cup {None}
    /\ now \in Nat
    /\ req \in [Requests -> RequestStates]
    /\ restarts \in Nat

Exists(c) == row[c] \notin {None, Gone}

\* time.Time{}: the first second of the year 1, long before the clock starts.
ZeroTime == -2

\* The next time of a cron schedule strictly after t; when none is found within
\* five years, the cron library returns the zero time and no error.
NextIn(spec, t) == IF spec \in Never THEN ZeroTime ELSE (t \div spec + 1) * spec

\* formatTime leaves out a zero fraction, so a whole second is "...00Z" and half
\* a second later "...00.5Z". The query compares text, and "." sorts before "Z".
TextLeq(next, t) == IF t % 2 = 1 THEN next < t - 1 ELSE next <= t

\* Fault: the next run is only computed for a cycle that has none.
KeepNext(old, cron) ==
    IF cron = None THEN None ELSE IF old = None THEN old ELSE NextIn(cron, clock)

\* The next_run_at of a cycle whose schedule is being set.
applyCron(old, cron) == IF cron = None THEN None ELSE NextIn(cron, clock)

\* The process starts on a database that an earlier one may have left: next runs
\* written at any time before, perhaps from a spec that was changed or cleared
\* since.
Init ==
    /\ clock = Boot
    /\ row \in [Cycles -> {None} \cup
                 {r \in [cron : Specs \cup {None},
                         next : {NextIn(spec, t) : spec \in Specs, t \in 0..Boot} \cup {None},
                         enabled : BOOLEAN, onNewBuild : BOOLEAN] :
                     r.cron # None => r.next # None}]
    /\ slot = [s \in Slots |-> None]
    /\ due = {} /\ item = None /\ now = Boot
    /\ req = [q \in Requests |-> [ph |-> "idle"]]
    /\ restarts = 0

-----------------------------------------------------------------------------
(* Starting a run: CycleExecutor.Start.                                    *)

\* Start reads the cycle and inserts a run row; the foreign key refuses the row
\* of a cycle that was deleted in between.
Start(c, trigger) ==
    \/ /\ Exists(c)
       /\ \E s \in Slots :
             /\ slot[s] = None
             /\ slot' = [slot EXCEPT ![s] = [cycle |-> c, trigger |-> trigger,
                                              proc |-> restarts]]
    \/ ~Exists(c) /\ UNCHANGED slot

\* resolveTarget finds a running or online device of the cycle's platform, or
\* reports that there is none and no run is started.
StartOnTarget(c, trigger) == Start(c, trigger) \/ UNCHANGED slot

\* The executor writes a verdict.
RunEnds(s) ==
    /\ slot[s] # None
    /\ slot[s].proc = restarts
    /\ slot' = [slot EXCEPT ![s] = None]
    /\ UNCHANGED <<clock, row, schedVars, req, restarts>>

DeleteCycleRun(s) ==
    /\ slot[s] # None
    /\ slot' = [slot EXCEPT ![s] = None]
    /\ UNCHANGED <<clock, row, schedVars, req, restarts>>

-----------------------------------------------------------------------------
(* The scheduler.                                                          *)

InFlight(c) == \E s \in Slots : slot[s] # None /\ slot[s].cycle = c

\* Fault: a run in flight does not matter.
DueAnyway(c) ==
    Exists(c) /\ row[c].enabled /\ row[c].cron # None /\ row[c].next # None
        /\ TextLeq(row[c].next, clock)

\* Fault: the query does not ask for a cron spec.
DueWithoutCron(c) ==
    Exists(c) /\ row[c].enabled /\ row[c].next # None /\ TextLeq(row[c].next, clock)
        /\ ~InFlight(c)

ListDueCycles(c) ==
    /\ Exists(c)
    /\ row[c].enabled /\ row[c].cron # None
    /\ row[c].next # None /\ TextLeq(row[c].next, clock)
    /\ ~InFlight(c)

Tick ==
    /\ due = {} /\ item = None
    /\ due' = {[cycle |-> c, cron |-> row[c].cron] : c \in {x \in Cycles : ListDueCycles(x)}}
    /\ now' = clock
    /\ UNCHANGED <<clock, row, slot, item, req, restarts>>

\* The next run is computed from the listed row, and written whatever the row
\* says by now. The branch for a spec that does not parse writes NULL, but every
\* spec in a row has been parsed by applyCron.
SetCycleSchedule(c, next) ==
    row' = [row EXCEPT ![c] = IF Exists(c) THEN [@ EXCEPT !.next = next] ELSE @]

Advance(d) ==
    /\ item = None
    /\ d \in due
    /\ SetCycleSchedule(d.cycle, NextIn(d.cron, now))
    /\ due' = due \ {d}
    /\ item' = d
    /\ UNCHANGED <<clock, slot, now, req, restarts>>

Fire ==
    /\ item # None
    /\ StartOnTarget(item.cycle, "cron")
    /\ item' = None
    /\ UNCHANGED <<clock, row, due, now, req, restarts>>

-----------------------------------------------------------------------------
(* API requests.                                                           *)

CreateCycle(q, c) ==
    /\ req[q].ph = "idle"
    /\ row[c] = None
    /\ \E cron \in Specs \cup {None}, enabled, build \in BOOLEAN :
          row' = [row EXCEPT ![c] = [cron |-> cron, next |-> applyCron(None, cron),
                                     enabled |-> enabled, onNewBuild |-> build]]
    /\ req' = [req EXCEPT ![q] = [ph |-> "done"]]
    /\ UNCHANGED <<clock, slot, schedVars, restarts>>

\* updateCycle and updateCycleSchedule: the row is read, its schedule replaced
\* and its next run computed; the write is a later statement.
EditSchedule(q, c) ==
    /\ req[q].ph = "idle"
    /\ Exists(c)
    /\ \E cron \in Specs \cup {None}, enabled, build \in BOOLEAN :
          req' = [req EXCEPT ![q] =
                     [ph |-> "write", cycle |-> c,
                      row |-> [cron |-> cron, next |-> applyCron(row[c].next, cron),
                               enabled |-> enabled, onNewBuild |-> build]]]
    /\ UNCHANGED <<clock, row, slot, schedVars, restarts>>

\* updateCycleCases replaces the list of cases in the row it has read, and
\* writes the whole row back.
EditCases(q, c) ==
    /\ req[q].ph = "idle"
    /\ Exists(c)
    /\ req' = [req EXCEPT ![q] = [ph |-> "write", cycle |-> c, row |-> row[c]]]
    /\ UNCHANGED <<clock, row, slot, schedVars, restarts>>

UpdateTestCycle(q) ==
    /\ req[q].ph = "write"
    /\ row' = [row EXCEPT ![req[q].cycle] = IF Exists(req[q].cycle) THEN req[q].row ELSE @]
    /\ req' = [req EXCEPT ![q] = [ph |-> "done"]]
    /\ UNCHANGED <<clock, slot, schedVars, restarts>>

\* The cascade removes the runs of the cycle.
DeleteTestCycle(q, c) ==
    /\ req[q].ph = "idle"
    /\ Exists(c)
    /\ row' = [row EXCEPT ![c] = Gone]
    /\ slot' = [s \in Slots |-> IF slot[s] # None /\ slot[s].cycle = c THEN None ELSE slot[s]]
    /\ req' = [req EXCEPT ![q] = [ph |-> "done"]]
    /\ UNCHANGED <<clock, schedVars, restarts>>

RunCycle(q, c) ==
    /\ req[q].ph = "idle"
    /\ Exists(c)
    /\ req' = [req EXCEPT ![q] = [ph |-> "start", trigger |-> "manual", todo |-> {c}]]
    /\ UNCHANGED <<clock, row, slot, schedVars, restarts>>

\* uploadBuild leaves a goroutine that starts every enabled on-new-build cycle.
ListCyclesForBuild(q) ==
    /\ req[q].ph = "idle"
    /\ req' = [req EXCEPT ![q] =
                 [ph |-> "start", trigger |-> "build",
                  todo |-> {c \in Cycles : Exists(c) /\ row[c].enabled /\ row[c].onNewBuild}]]
    /\ UNCHANGED <<clock, row, slot, schedVars, restarts>>

StartRequested(q, c) ==
    /\ req[q].ph = "start"
    /\ c \in req[q].todo
    /\ StartOnTarget(c, req[q].trigger)
    /\ req' = [req EXCEPT ![q].todo = @ \ {c}]
    /\ UNCHANGED <<clock, row, schedVars, restarts>>

-----------------------------------------------------------------------------
(* Time and restarts.                                                      *)

ClockTick ==
    /\ clock < MaxTime
    /\ clock' = clock + 1
    /\ UNCHANGED <<row, slot, schedVars, req, restarts>>

\* Fault: a run that was interrupted keeps reading running.
LeaveStranded == slot

\* FailStrandedCycleRuns, before the scheduler starts.
FailStrandedCycleRuns == [s \in Slots |-> None]

Restart ==
    /\ restarts < MaxRestarts
    /\ restarts' = restarts + 1
    /\ slot' = FailStrandedCycleRuns
    /\ due' = {} /\ item' = None
    /\ req' = [q \in Requests |-> IF req[q].ph = "idle" THEN req[q] ELSE [ph |-> "done"]]
    /\ UNCHANGED <<clock, row, now>>

SchedulerStep == Tick \/ (\E d \in due : Advance(d)) \/ Fire

Next ==
    \/ SchedulerStep
    \/ \E s \in Slots : RunEnds(s) \/ DeleteCycleRun(s)
    \/ \E q \in Requests, c \in Cycles :
          \/ CreateCycle(q, c) \/ EditSchedule(q, c) \/ EditCases(q, c)
          \/ DeleteTestCycle(q, c) \/ RunCycle(q, c) \/ StartRequested(q, c)
    \/ \E q \in Requests : UpdateTestCycle(q) \/ ListCyclesForBuild(q)
    \/ ClockTick
    \/ Restart

\* The loop ticks every 30 seconds, time passes, and every run ends (RunsEnd of
\* CycleExecution).
Fairness ==
    /\ WF_vars(SchedulerStep) /\ WF_vars(ClockTick)
    /\ \A s \in Slots : WF_vars(RunEnds(s))

Spec == Init /\ [][Next]_vars /\ Fairness

-----------------------------------------------------------------------------
(* Properties.                                                             *)

\* A cycle with a cron spec always has a next run, through edits written back
\* from stale rows and a scheduler that advances a row it listed earlier:
\* ListDueCycles would skip a row without one for good, and nobody would notice.
ArmedHasNext == \A c \in Cycles : Exists(c) /\ row[c].cron # None => row[c].next # None

\* No two scheduled runs of one cycle read running, although the scheduler lists,
\* advances and starts in separate steps and edits may make a listed cycle due
\* again meanwhile. (A deleted run is not counted; its executor goes on.)
OneCronRun ==
    \A s, t \in Slots :
        /\ slot[s] # None /\ slot[t] # None
        /\ slot[s].trigger = "cron" /\ slot[t].trigger = "cron"
        /\ slot[s].cycle = slot[t].cycle
        => s = t

Overdue(c) == Exists(c) /\ row[c].enabled /\ row[c].cron # None /\ row[c].next <= clock

\* store/cases.go:385-387: a restart must not leave a run that silences its schedule.
\* A cycle whose time has come is advanced by a tick sooner or later, whatever
\* was running, edited or interrupted, if its spec matches some date.
DueIsHandled ==
    \A c \in Cycles :
        LET Waits == Overdue(c) /\ row[c].cron \notin Never
        IN  Waits ~> ~Waits

\* scheduler/scheduler.go:60: "Always advance next-run first so a run that can't
\* start doesn't spin": a cycle does not stay due from one tick to the next for
\* ever.
NothingSpins == \A c \in Cycles : Overdue(c) ~> ~Overdue(c)

=============================================================================
