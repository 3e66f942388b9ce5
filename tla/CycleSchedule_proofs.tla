------------------------ MODULE CycleSchedule_proofs -------------------------
(***************************************************************************)
(* Proofs about CycleSchedule, for any number of cycles, runs, requests and*)
(* restarts: types, a next run for every cron spec, and one scheduled run  *)
(* of a cycle at a time.                                                   *)
(***************************************************************************)
EXTENDS CycleSchedule, TLAPS

\* A spec has a next time whatever the clock says.
LEMMA NextInType ==
    ASSUME NEW spec \in Specs, NEW t \in Int
    PROVE  NextIn(spec, t) \in Int
<1>0. ZeroTime \in Int
  BY DEF ZeroTime
<1>1. spec \in Int /\ spec > 0
  BY ScheduleAssumption
<1>2. t \div spec \in Int
  BY <1>1
<1> QED
  BY <1>0, <1>1, <1>2 DEF NextIn

LEMMA NoneIsNoTime == None \notin Int /\ None \notin Specs /\ None # Gone
BY ScheduleAssumption

\* The row a request computes from a new schedule.
LEMMA ApplyCronType ==
    ASSUME clock \in Nat, NEW old, NEW cron \in Specs \cup {None}
    PROVE  /\ applyCron(old, cron) \in Int \cup {None}
           /\ cron # None => applyCron(old, cron) # None
BY NextInType, NoneIsNoTime DEF applyCron

-----------------------------------------------------------------------------
(* Types.                                                                  *)

LEMMA StartType ==
    ASSUME TypeOK, NEW c \in Cycles, NEW trigger \in Triggers, StartOnTarget(c, trigger)
    PROVE  slot' \in [Slots -> RunRows \cup {None}]
BY DEF StartOnTarget, Start, TypeOK, RunRows

LEMMA TypeNext == TypeOK /\ [Next]_vars => TypeOK'
<1> SUFFICES ASSUME TypeOK, [Next]_vars PROVE TypeOK'
  OBVIOUS
<1> USE DEF schedVars
<1>1. ASSUME Tick PROVE TypeOK'
  <2>1. \A c \in Cycles : ListDueCycles(c) => row[c].cron \in Specs
    BY DEF TypeOK, ListDueCycles, Exists, CycleRows
  <2>2. due' \subseteq Listed
    BY <1>1, <2>1 DEF Tick, Listed
  <2> QED
    BY <1>1, <2>2 DEF Tick, TypeOK
<1>2. ASSUME NEW d \in due, Advance(d) PROVE TypeOK'
  <2>1. d.cycle \in Cycles /\ d.cron \in Specs /\ d \in Listed
    BY DEF TypeOK, Listed
  <2>2. NextIn(d.cron, now) \in Int
    BY <2>1, NextInType DEF TypeOK
  <2>3. row' \in [Cycles -> CycleRows \cup {None, Gone}]
    BY <1>2, <2>1, <2>2 DEF Advance, SetCycleSchedule, TypeOK, Exists, CycleRows
  <2> QED
    BY <1>2, <2>1, <2>3 DEF Advance, TypeOK
<1>3. ASSUME Fire PROVE TypeOK'
  <2>1. item.cycle \in Cycles /\ "cron" \in Triggers
    BY <1>3 DEF Fire, TypeOK, Listed, Triggers
  <2>2. slot' \in [Slots -> RunRows \cup {None}]
    BY <1>3, <2>1, StartType DEF Fire
  <2> QED
    BY <1>3, <2>2 DEF Fire, TypeOK
<1>4. ASSUME NEW s \in Slots, RunEnds(s) \/ DeleteCycleRun(s) PROVE TypeOK'
  BY <1>4 DEF RunEnds, DeleteCycleRun, TypeOK
<1>5. ASSUME NEW q \in Requests, NEW c \in Cycles, CreateCycle(q, c) PROVE TypeOK'
  <2>1. PICK cron \in Specs \cup {None}, enabled \in BOOLEAN, build \in BOOLEAN :
           row' = [row EXCEPT ![c] = [cron |-> cron, next |-> applyCron(None, cron),
                                      enabled |-> enabled, onNewBuild |-> build]]
    BY <1>5 DEF CreateCycle
  <2>2. applyCron(None, cron) \in Int \cup {None}
    BY ApplyCronType DEF TypeOK
  <2>3. row' \in [Cycles -> CycleRows \cup {None, Gone}]
    BY <2>1, <2>2 DEF TypeOK, CycleRows
  <2> QED
    BY <1>5, <2>3 DEF CreateCycle, TypeOK, RequestStates
<1>6. ASSUME NEW q \in Requests, NEW c \in Cycles, EditSchedule(q, c) PROVE TypeOK'
  <2>1. PICK cron \in Specs \cup {None}, enabled \in BOOLEAN, build \in BOOLEAN :
           req' = [req EXCEPT ![q] =
                     [ph |-> "write", cycle |-> c,
                      row |-> [cron |-> cron, next |-> applyCron(row[c].next, cron),
                               enabled |-> enabled, onNewBuild |-> build]]]
    BY <1>6 DEF EditSchedule
  <2>2. applyCron(row[c].next, cron) \in Int \cup {None}
    BY ApplyCronType DEF TypeOK
  <2>3. req' \in [Requests -> RequestStates]
    BY <2>1, <2>2 DEF TypeOK, RequestStates, CycleRows
  <2> QED
    BY <1>6, <2>3 DEF EditSchedule, TypeOK
<1>7. ASSUME NEW q \in Requests, NEW c \in Cycles, EditCases(q, c) PROVE TypeOK'
  <2>1. row[c] \in CycleRows
    BY <1>7 DEF EditCases, Exists, TypeOK
  <2> QED
    BY <1>7, <2>1 DEF EditCases, TypeOK, RequestStates
<1>8. ASSUME NEW q \in Requests, UpdateTestCycle(q) PROVE TypeOK'
  <2>1. req[q].cycle \in Cycles /\ req[q].row \in CycleRows
    BY <1>8 DEF UpdateTestCycle, TypeOK, RequestStates
  <2> QED
    BY <1>8, <2>1 DEF UpdateTestCycle, TypeOK, RequestStates
<1>9. ASSUME NEW q \in Requests, NEW c \in Cycles, DeleteTestCycle(q, c) PROVE TypeOK'
  BY <1>9 DEF DeleteTestCycle, TypeOK, RequestStates
<1>10. ASSUME NEW q \in Requests, NEW c \in Cycles, RunCycle(q, c) PROVE TypeOK'
  BY <1>10 DEF RunCycle, TypeOK, RequestStates
<1>11. ASSUME NEW q \in Requests, ListCyclesForBuild(q) PROVE TypeOK'
  BY <1>11 DEF ListCyclesForBuild, TypeOK, RequestStates
<1>12. ASSUME NEW q \in Requests, NEW c \in Cycles, StartRequested(q, c) PROVE TypeOK'
  <2>1. req[q] \in [ph : {"start"}, trigger : {"manual", "build"}, todo : SUBSET Cycles]
    BY <1>12 DEF StartRequested, TypeOK, RequestStates
  <2>2. slot' \in [Slots -> RunRows \cup {None}]
    BY <1>12, <2>1, StartType DEF StartRequested, Triggers
  <2>3. req' \in [Requests -> RequestStates]
    BY <1>12, <2>1 DEF StartRequested, TypeOK, RequestStates
  <2> QED
    BY <1>12, <2>2, <2>3 DEF StartRequested, TypeOK
<1>13. ASSUME ClockTick PROVE TypeOK'
  BY <1>13 DEF ClockTick, TypeOK
<1>14. ASSUME Restart PROVE TypeOK'
  BY <1>14 DEF Restart, FailStrandedCycleRuns, TypeOK, RequestStates
<1>15. ASSUME UNCHANGED vars PROVE TypeOK'
  BY <1>15 DEF vars, TypeOK
<1> QED
  BY <1>1, <1>2, <1>3, <1>4, <1>5, <1>6, <1>7, <1>8, <1>9, <1>10, <1>11, <1>12, <1>13,
     <1>14, <1>15 DEF Next, SchedulerStep

\* Rows, runs and requests have the shapes the code gives them.
THEOREM TypeCorrect == Spec => []TypeOK
<1>1. Init => TypeOK
  <2> SUFFICES ASSUME Init PROVE TypeOK
    OBVIOUS
  <2>1. \A spec \in Specs, t \in 0..Boot : NextIn(spec, t) \in Int
    BY NextInType
  <2>2. row \in [Cycles -> CycleRows \cup {None, Gone}]
    BY <2>1 DEF Init, CycleRows
  <2> QED
    BY <2>2, ScheduleAssumption DEF Init, TypeOK, RequestStates
<1> QED
  BY <1>1, TypeNext, PTL DEF Spec

-----------------------------------------------------------------------------
(* A next run for every cron spec.                                         *)

\* The rows that requests are about to write back are armed too: an edit of the
\* cases writes whatever the row said when it was read.
WritesAreArmed ==
    \A q \in Requests :
        req[q].ph = "write" => (req[q].row.cron # None => req[q].row.next # None)

ArmedInv == ArmedHasNext /\ WritesAreArmed

LEMMA ArmedNext == TypeOK /\ ArmedInv /\ [Next]_vars => ArmedInv'
<1> SUFFICES ASSUME TypeOK, ArmedInv, [Next]_vars PROVE ArmedInv'
  OBVIOUS
<1> USE DEF schedVars
<1>1. ASSUME UNCHANGED <<row, req>> PROVE ArmedInv'
  BY <1>1 DEF ArmedInv, ArmedHasNext, WritesAreArmed, Exists
<1>2. ASSUME NEW d \in due, Advance(d) PROVE ArmedInv'
  <2>1. d.cycle \in Cycles /\ d.cron \in Specs
    BY DEF TypeOK, Listed
  <2>2. NextIn(d.cron, now) # None
    BY <2>1, NextInType, NoneIsNoTime DEF TypeOK
  <2>3. ArmedHasNext'
    <3> SUFFICES ASSUME NEW c \in Cycles, Exists(c)', (row[c].cron # None)'
                 PROVE  (row[c].next # None)'
      BY DEF ArmedHasNext
    <3>1. CASE c = d.cycle /\ Exists(c)
      <4>1. row[c] \in CycleRows
        BY <3>1 DEF TypeOK, Exists
      <4>2. row'[c] = [row[c] EXCEPT !.next = NextIn(d.cron, now)]
        BY <1>2, <3>1 DEF Advance, SetCycleSchedule, TypeOK
      <4> QED
        BY <4>1, <4>2, <2>2 DEF CycleRows
    <3>2. CASE ~(c = d.cycle /\ Exists(c))
      <4>1. row'[c] = row[c]
        BY <1>2, <2>1, <3>2 DEF Advance, SetCycleSchedule, TypeOK
      <4> QED
        BY <4>1 DEF ArmedInv, ArmedHasNext, Exists
    <3> QED
      BY <3>1, <3>2
  <2> QED
    BY <1>2, <2>3 DEF Advance, ArmedInv, WritesAreArmed
<1>3. ASSUME NEW q \in Requests, NEW c \in Cycles, CreateCycle(q, c) PROVE ArmedInv'
  <2>1. PICK cron \in Specs \cup {None}, enabled \in BOOLEAN, build \in BOOLEAN :
           row' = [row EXCEPT ![c] = [cron |-> cron, next |-> applyCron(None, cron),
                                      enabled |-> enabled, onNewBuild |-> build]]
    BY <1>3 DEF CreateCycle
  <2>2. cron # None => applyCron(None, cron) # None
    BY ApplyCronType DEF TypeOK
  <2>3. ArmedHasNext'
    BY <2>1, <2>2 DEF TypeOK, ArmedInv, ArmedHasNext, Exists
  <2> QED
    BY <1>3, <2>3 DEF CreateCycle, TypeOK, ArmedInv, WritesAreArmed
<1>4. ASSUME NEW q \in Requests, NEW c \in Cycles, EditSchedule(q, c) PROVE ArmedInv'
  <2>1. PICK cron \in Specs \cup {None}, enabled \in BOOLEAN, build \in BOOLEAN :
           req' = [req EXCEPT ![q] =
                     [ph |-> "write", cycle |-> c,
                      row |-> [cron |-> cron, next |-> applyCron(row[c].next, cron),
                               enabled |-> enabled, onNewBuild |-> build]]]
    BY <1>4 DEF EditSchedule
  <2>2. cron # None => applyCron(row[c].next, cron) # None
    BY ApplyCronType DEF TypeOK
  <2>3. WritesAreArmed'
    BY <2>1, <2>2 DEF TypeOK, ArmedInv, WritesAreArmed
  <2> QED
    BY <1>4, <2>3 DEF EditSchedule, ArmedInv, ArmedHasNext, Exists
<1>5. ASSUME NEW q \in Requests, NEW c \in Cycles, EditCases(q, c) PROVE ArmedInv'
  <2>1. row[c].cron # None => row[c].next # None
    BY <1>5 DEF EditCases, ArmedInv, ArmedHasNext
  <2>2. WritesAreArmed'
    BY <1>5, <2>1 DEF EditCases, TypeOK, ArmedInv, WritesAreArmed
  <2> QED
    BY <1>5, <2>2 DEF EditCases, ArmedInv, ArmedHasNext, Exists
<1>6. ASSUME NEW q \in Requests, UpdateTestCycle(q) PROVE ArmedInv'
  <2>1. req[q].cycle \in Cycles /\ (req[q].row.cron # None => req[q].row.next # None)
    BY <1>6 DEF UpdateTestCycle, TypeOK, RequestStates, ArmedInv, WritesAreArmed
  <2>2. ArmedHasNext'
    BY <1>6, <2>1 DEF UpdateTestCycle, TypeOK, ArmedInv, ArmedHasNext, Exists
  <2> QED
    BY <1>6, <2>2 DEF UpdateTestCycle, TypeOK, ArmedInv, WritesAreArmed
<1>7. ASSUME NEW q \in Requests, NEW c \in Cycles, DeleteTestCycle(q, c) PROVE ArmedInv'
  BY <1>7 DEF DeleteTestCycle, TypeOK, ArmedInv, ArmedHasNext, WritesAreArmed, Exists
<1>8. ASSUME NEW q \in Requests, NEW c \in Cycles,
             RunCycle(q, c) \/ ListCyclesForBuild(q) \/ StartRequested(q, c)
      PROVE  ArmedInv'
  <2>1. row' = row /\ req' = [req EXCEPT ![q] = req'[q]] /\ req'[q].ph # "write"
    BY <1>8 DEF RunCycle, ListCyclesForBuild, StartRequested, TypeOK, RequestStates
  <2> QED
    BY <2>1 DEF TypeOK, ArmedInv, ArmedHasNext, WritesAreArmed, Exists
<1>9. ASSUME Restart PROVE ArmedInv'
  BY <1>9 DEF Restart, TypeOK, ArmedInv, ArmedHasNext, WritesAreArmed, Exists
<1>10. ASSUME NEW q \in Requests, ListCyclesForBuild(q) PROVE ArmedInv'
  <2>1. row' = row /\ req' = [req EXCEPT ![q] = req'[q]] /\ req'[q].ph # "write"
    BY <1>10 DEF ListCyclesForBuild, TypeOK
  <2> QED
    BY <2>1 DEF TypeOK, ArmedInv, ArmedHasNext, WritesAreArmed, Exists
<1> QED
  BY <1>1, <1>2, <1>3, <1>4, <1>5, <1>6, <1>7, <1>8, <1>9, <1>10
  DEF Next, SchedulerStep, Tick, Fire, RunEnds, DeleteCycleRun, ClockTick, vars

\* ListDueCycles never skips a cycle for want of a next run: whatever the order in
\* which edits and the scheduler write a row, a cron spec comes with a next run.
THEOREM SchedulesStayArmed == Spec => []ArmedHasNext
<1>1. Init => ArmedInv
  <2> SUFFICES ASSUME Init PROVE ArmedInv
    OBVIOUS
  <2>1. ASSUME NEW c \in Cycles, Exists(c), row[c].cron # None PROVE row[c].next # None
    BY <2>1 DEF Init, Exists
  <2> QED
    BY <2>1 DEF Init, ArmedInv, ArmedHasNext, WritesAreArmed
<1>2. ArmedInv => ArmedHasNext
  BY DEF ArmedInv
<1> QED
  BY <1>1, <1>2, ArmedNext, TypeCorrect, PTL DEF Spec

-----------------------------------------------------------------------------
(* One scheduled run at a time.                                            *)

Scheduled(s) == slot[s] # None /\ slot[s].trigger = "cron"

\* The cycles that the tick still has to start.
Pending(c) == (item # None /\ item.cycle = c) \/ \E d \in due : d.cycle = c

\* A tick lists a cycle once, and only if it has no run: until the scheduler comes
\* to it, nobody else makes a scheduled run of it.
SoloInv ==
    /\ OneCronRun
    /\ \A d, e \in due : d.cycle = e.cycle => d = e
    /\ item # None => \A d \in due : d.cycle # item.cycle
    /\ \A s \in Slots : Scheduled(s) => ~Pending(slot[s].cycle)

\* A step that makes no scheduled run and leaves the scheduler alone.
LEMMA SoloFewer ==
    ASSUME SoloInv, UNCHANGED <<due, item>>,
           \A s \in Slots : Scheduled(s)' => slot'[s] = slot[s]
    PROVE  SoloInv'
BY DEF SoloInv, OneCronRun, Scheduled, Pending

LEMMA SoloNext == TypeOK /\ SoloInv /\ [Next]_vars => SoloInv'
<1> SUFFICES ASSUME TypeOK, SoloInv, [Next]_vars PROVE SoloInv'
  OBVIOUS
<1> USE DEF schedVars
<1>1. ASSUME UNCHANGED <<slot, due, item>> PROVE SoloInv'
  BY <1>1, SoloFewer DEF Scheduled
<1>2. ASSUME Tick PROVE SoloInv'
  <2>1. slot' = slot /\ item' = None
    BY <1>2 DEF Tick
  <2>2. \A d \in due' : d.cycle \in Cycles /\ d.cron = row[d.cycle].cron
                        /\ ~InFlight(d.cycle) /\ d = [cycle |-> d.cycle, cron |-> d.cron]
    BY <1>2 DEF Tick, ListDueCycles
  <2>3. \A d, e \in due' : d.cycle = e.cycle => d = e
    BY <2>2
  <2>4. (\A s \in Slots : Scheduled(s) => ~Pending(slot[s].cycle))'
    BY <2>1, <2>2 DEF Scheduled, Pending, InFlight
  <2> QED
    BY <2>1, <2>3, <2>4 DEF SoloInv, OneCronRun
<1>3. ASSUME NEW d \in due, Advance(d) PROVE SoloInv'
  <2>1. item = None /\ item' = d /\ due' = due \ {d} /\ slot' = slot
    BY <1>3 DEF Advance
  <2>2. \A c : Pending(c)' => Pending(c)
    BY <2>1 DEF Pending
  <2> QED
    BY <2>1, <2>2 DEF SoloInv, OneCronRun, Scheduled
<1>4. ASSUME Fire PROVE SoloInv'
  <2>1. item \in Listed /\ item.cycle \in Cycles
    BY <1>4 DEF Fire, TypeOK, Listed
  <2>2. CASE UNCHANGED slot
    BY <1>4, <2>2 DEF Fire, SoloInv, OneCronRun, Scheduled, Pending
  <2>3. ASSUME NEW s \in Slots, slot[s] = None,
               slot' = [slot EXCEPT ![s] = [cycle |-> item.cycle, trigger |-> "cron",
                                          proc |-> restarts]]
        PROVE  SoloInv'
    <3>1. /\ slot'[s] = [cycle |-> item.cycle, trigger |-> "cron", proc |-> restarts]
          /\ \A t \in Slots : t # s => slot'[t] = slot[t]
      BY <2>3 DEF TypeOK
    <3>2. \A t \in Slots : Scheduled(t) => slot[t].cycle # item.cycle
      BY <1>4 DEF Fire, SoloInv, Pending
    <3>3. OneCronRun'
      BY <3>1, <3>2 DEF SoloInv, OneCronRun, Scheduled
    <3>4. (\A t \in Slots : Scheduled(t) => ~Pending(slot[t].cycle))'
      <4> SUFFICES ASSUME NEW t \in Slots, Scheduled(t)', NEW d \in due
                   PROVE  d.cycle # slot'[t].cycle
        BY <1>4 DEF Fire, Pending
      <4>1. CASE t = s
        BY <1>4, <3>1, <4>1 DEF Fire, SoloInv
      <4>2. CASE t # s
        BY <3>1, <4>2 DEF SoloInv, Scheduled, Pending
      <4> QED
        BY <4>1, <4>2
    <3> QED
      BY <1>4, <3>3, <3>4 DEF Fire, SoloInv
  <2> QED
    BY <1>4, <2>2, <2>3 DEF Fire, StartOnTarget, Start
<1>5. ASSUME NEW s \in Slots, RunEnds(s) \/ DeleteCycleRun(s) PROVE SoloInv'
  <2>1. \A t \in Slots : slot'[t] = slot[t] \/ slot'[t] = None
    BY <1>5 DEF RunEnds, DeleteCycleRun, TypeOK
  <2> QED
    BY <1>5, <2>1, SoloFewer DEF RunEnds, DeleteCycleRun, Scheduled
<1>6. ASSUME NEW q \in Requests, NEW c \in Cycles, DeleteTestCycle(q, c) PROVE SoloInv'
  <2>1. \A t \in Slots : slot'[t] = slot[t] \/ slot'[t] = None
    BY <1>6 DEF DeleteTestCycle
  <2> QED
    BY <1>6, <2>1, SoloFewer DEF DeleteTestCycle, Scheduled
<1>7. ASSUME NEW q \in Requests, NEW c \in Cycles, StartRequested(q, c) PROVE SoloInv'
  <2>1. req[q].trigger # "cron"
    BY <1>7 DEF StartRequested, TypeOK, RequestStates
  <2>2. \A t \in Slots : Scheduled(t)' => slot'[t] = slot[t]
    BY <1>7, <2>1 DEF StartRequested, StartOnTarget, Start, Scheduled, TypeOK
  <2> QED
    BY <1>7, <2>2, SoloFewer DEF StartRequested
<1>8. ASSUME Restart PROVE SoloInv'
  BY <1>8 DEF Restart, FailStrandedCycleRuns, SoloInv, OneCronRun, Scheduled, Pending
<1> QED
  BY <1>1, <1>2, <1>3, <1>4, <1>5, <1>6, <1>7, <1>8
  DEF Next, SchedulerStep, CreateCycle, EditSchedule, EditCases, UpdateTestCycle, RunCycle,
      ListCyclesForBuild, ClockTick, vars

\* No two scheduled runs of one cycle read running at once: the query that
\* skips a cycle with a run in flight protects the start that comes later.
THEOREM ScheduledRunsAreSolo == Spec => []OneCronRun
<1>1. Init => SoloInv
  BY DEF Init, SoloInv, OneCronRun, Scheduled, Pending
<1>2. SoloInv => OneCronRun
  BY DEF SoloInv
<1> QED
  BY <1>1, <1>2, SoloNext, TypeCorrect, PTL DEF Spec

=============================================================================
