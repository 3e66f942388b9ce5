------------------------- MODULE InstanceLifecycle -------------------------
(***************************************************************************)
(* The instances and operations tables of the appliance and everything     *)
(* that writes them: the HTTP handlers that accept create, start, stop and *)
(* delete requests, the goroutine each accepted request leaves behind      *)
(* (runDeploy, runStart, runStop, runDelete), a restart of the process and *)
(* the Reconcile sweep that runs before the API listens again.             *)
(*                                                                         *)
(* The store has one connection, so a statement is atomic and a handler or *)
(* a worker is interleaved with the others between any two statements.     *)
(* The Cuttlefish VMs live outside the process and survive a restart       *)
(* (KillMode=process).                                                     *)
(***************************************************************************)
EXTENDS Naturals, FiniteSets

CONSTANTS
    Instances,    \* ids an instance row may get; ids are never reused
    Ops,          \* one per accepted request: its handler, operation row and worker
    None,         \* no instance
    BasePort,     \* store.basePort, the ADB port of Cuttlefish instance 1
    Toolchain,    \* "cvd", or "legacy" when launch_cvd and stop_cvd are on PATH
    ExecuteCvd,   \* realCuttlefishExecutionEnabled(); FALSE is the dry run
    Faults,       \* which failures the environment may produce
    MaxCrashes,   \* bound on process restarts
    Overlap       \* bound on requests in progress for one instance

FaultKinds ==
    { "command",   \* a cvd or adb command reports an error
      "cleanup",   \* a best-effort cvd stop/remove does nothing
      "timeout",   \* a worker's context deadline passes during a command
      "abort",     \* the client goes away while its request is handled
      "vmdeath" }  \* a VM dies by itself

ASSUME ConstantsAssumption ==
    /\ None \notin Instances
    /\ BasePort \in Nat \ {0}
    /\ Toolchain \in {"cvd", "legacy"}
    /\ ExecuteCvd \in BOOLEAN
    /\ Faults \subseteq FaultKinds
    /\ MaxCrashes \in Nat
    /\ Overlap \in Nat

VARIABLES
    st,           \* instance row: its state column, "unborn" or "gone"
    port,         \* instance row: adb_port
    provisioned,  \* instance row: source is cuttlefish (IsProvisioned)
    opst,         \* operation row: its status column, "none" before the insert
    kind,         \* request: start, deploy, stop or delete
    target,       \* request: the instance it is about
    pc,           \* where the handler or the worker of a request is
    live,         \* instances whose VM occupies its instance number on the host
    todo,         \* rows the startup Reconcile has still to look at
    crashes

rowVars == <<st, port, provisioned>>
reqVars == <<kind, target>>
vars == <<st, port, provisioned, opst, kind, target, pc, live, todo, crashes>>

-----------------------------------------------------------------------------

States == {"provisioning", "starting", "booting", "running", "stopping",
           "stopped", "error", "deleting", "offline"}
Kinds == {"start", "deploy", "stop", "delete"}

HandlerPcs == {"check", "accepted", "opened", "marked"}
WorkerPcs == {"begin", "image", "imaged", "launch", "launched", "boot", "ready",
              "stop", "stopped", "release", "remove", "fail", "finish", "failOp"}
\* done: finishOp was reached; the others left the operation row as it was.
EndPcs == {"done", "rejected", "orphaned", "aborted", "expired", "crashed"}
Pcs == {"idle"} \cup HandlerPcs \cup WorkerPcs \cup EndPcs

Rows == {i \in Instances : st[i] \notin {"unborn", "gone"}}
InProgress(i) == {o \in Ops : target[o] = i /\ pc[o] \in HandlerPcs \cup WorkerPcs}

\* The API listens only after Reconcile has returned.
Serving == todo = {}

\* Fault: the UPDATE written as an upsert.
UpsertInstanceState(i, s) == st' = [st EXCEPT ![i] = s]

\* UPDATE instances SET state = ? WHERE id = ?: without a row it does nothing.
UpdateInstanceState(i, s) ==
    st' = [st EXCEPT ![i] = IF i \in Rows THEN s ELSE @]

Goto(o, to) == pc' = [pc EXCEPT ![o] = to]

TypeOK ==
    /\ st \in [Instances -> States \cup {"unborn", "gone"}]
    /\ port \in [Instances -> Nat]
    /\ provisioned \in [Instances -> BOOLEAN]
    /\ opst \in [Ops -> {"none", "running", "succeeded", "failed"}]
    /\ kind \in [Ops -> Kinds \cup {"none"}]
    /\ target \in [Ops -> Instances \cup {None}]
    /\ pc \in [Ops -> Pcs]
    /\ \A o \in Ops : pc[o] # "idle" => kind[o] \in Kinds /\ target[o] \in Instances
    /\ live \subseteq Instances
    /\ todo \subseteq Instances
    /\ crashes \in Nat

Init ==
    /\ st = [i \in Instances |-> "unborn"]
    /\ port = [i \in Instances |-> 0]
    /\ provisioned = [i \in Instances |-> FALSE]
    /\ opst = [o \in Ops |-> "none"]
    /\ kind = [o \in Ops |-> "none"]
    /\ target = [o \in Ops |-> None]
    /\ pc = [o \in Ops |-> "idle"]
    /\ live = {}
    /\ todo = {}
    /\ crashes = 0

-----------------------------------------------------------------------------
(* Requests.                                                               *)

\* Fault: stopped instances do not count.
NextPortOfActive(p) ==
    LET active == {i \in Rows : st[i] # "stopped"}
    IN  IF active = {} THEN p = BasePort
        ELSE \E m \in active : /\ \A j \in active : port[j] <= port[m]
                               /\ p = port[m] + 1

\* nextPortsTx: MAX(adb_port) + 1 over every row of the table, BasePort if
\* there is none. Desktops and handsets are rows with adb_port 0.
NextPort(p) ==
    IF Rows = {} THEN p = BasePort
    ELSE \E m \in Rows : /\ \A j \in Rows : port[j] <= port[m]
                         /\ p = port[m] + 1

isPossiblyLive(s) == s \in {"starting", "booting", "running", "stopping", "error"}

\* The guard each orchestrator entry point evaluates on the state it just read.
Admits(k, s) ==
    CASE k \in {"start", "deploy"} -> s \in {"stopped", "error"}
      [] k = "stop"                -> isPossiblyLive(s)
      [] k = "delete"              -> s # "deleting"

\* Fault: the operation's kind passed where the state belongs.
KindAsState(k) == k

\* The state a request writes before its worker starts.
PendingState(k) ==
    CASE k = "start"  -> "starting"
      [] k = "deploy" -> "provisioning"
      [] k = "stop"   -> "stopping"
      [] k = "delete" -> "deleting"

Accept(o, k, i, to) ==
    /\ Serving
    /\ pc[o] = "idle"
    /\ Cardinality(InProgress(i)) < Overlap
    /\ kind' = [kind EXCEPT ![o] = k]
    /\ target' = [target EXCEPT ![o] = i]
    /\ Goto(o, to)

\* createInstance: insert the row in one transaction, then deploy it.
CreateInstance(o, i) ==
    /\ st[i] = "unborn"
    /\ Accept(o, "deploy", i, "check")
    /\ \E p \in {BasePort} \cup {port[m] + 1 : m \in Rows} :
          /\ NextPort(p)
          /\ port' = [port EXCEPT ![i] = p]
    /\ st' = [st EXCEPT ![i] = "stopped"]
    /\ provisioned' = [provisioned EXCEPT ![i] = TRUE]
    /\ UNCHANGED <<opst, live, todo, crashes>>

\* Deploy reads the row again and refuses unless it is stopped or error.
CheckDeploy(o) ==
    /\ pc[o] = "check"
    /\ Goto(o, IF target[o] \in Rows /\ Admits("deploy", st[target[o]])
                 THEN "accepted" ELSE "rejected")
    /\ UNCHANGED <<rowVars, opst, reqVars, live, todo, crashes>>

\* StartInstance, StopInstance and DeleteInstance up to their guard.
Request(o, k, i) ==
    /\ k \in Kinds \ {"deploy"}
    /\ i \in Rows /\ provisioned[i] /\ Admits(k, st[i])
    /\ Accept(o, k, i, "accepted")
    /\ UNCHANGED <<rowVars, opst, live, todo, crashes>>

\* CreateOperation.
OpenOperation(o) ==
    /\ pc[o] = "accepted"
    /\ opst' = [opst EXCEPT ![o] = "running"]
    /\ Goto(o, "opened")
    /\ UNCHANGED <<rowVars, reqVars, live, todo, crashes>>

\* The UPDATE of UpdateInstanceState in the handler.
MarkPending(o) ==
    /\ pc[o] = "opened"
    /\ UpdateInstanceState(target[o], PendingState(kind[o]))
    /\ Goto(o, "marked")
    /\ UNCHANGED <<port, provisioned, opst, reqVars, live, todo, crashes>>

\* Where the worker of an accepted request starts. runDelete stops the VM only
\* if the state it was handed says it may be live; s is what the handler reads
\* back after its own UPDATE.
WorkerEntry(k, s) ==
    CASE k \in {"start", "deploy"} -> "begin"
      [] k = "stop"                -> "stop"
      [] k = "delete"              -> IF isPossiblyLive(s) THEN "stop" ELSE "release"

\* The re-read of UpdateInstanceState and the go statement. Without a row the
\* handler returns an error and no worker is started.
SpawnWorker(o) ==
    /\ pc[o] = "marked"
    /\ Goto(o, IF target[o] \in Rows THEN WorkerEntry(kind[o], st[target[o]])
                                     ELSE "orphaned")
    /\ UNCHANGED <<rowVars, opst, reqVars, live, todo, crashes>>

\* The request context is cancelled: the next statement of the handler fails
\* and it returns without starting a worker.
AbortRequest(o) ==
    /\ "abort" \in Faults
    /\ pc[o] \in HandlerPcs
    /\ Goto(o, "aborted")
    /\ UNCHANGED <<rowVars, opst, reqVars, live, todo, crashes>>

\* Desktops and physical handsets are registered, never provisioned: a row with
\* no port, and a delete that only removes it.
RegisterDevice(i) ==
    /\ Serving
    /\ st[i] = "unborn"
    /\ st' = [st EXCEPT ![i] = "offline"]
    /\ UNCHANGED <<port, provisioned, opst, reqVars, pc, live, todo, crashes>>

DeleteRegistration(i) ==
    /\ Serving
    /\ i \in Rows /\ ~provisioned[i]
    /\ st' = [st EXCEPT ![i] = "gone"]
    /\ UNCHANGED <<port, provisioned, opst, reqVars, pc, live, todo, crashes>>

-----------------------------------------------------------------------------
(* Host commands. An outcome is what the command reported and the VMs it   *)
(* left on the host.                                                       *)

SameNumber(i) == {j \in Instances : port[j] = port[i]}
Reachable(i) == live \cap SameNumber(i) # {}

Outcomes(res, lives) == [res : res, live : lives]
Failures(lives) ==
    Outcomes({r \in {"fail", "expired"} :
                 \/ r = "fail" /\ "command" \in Faults
                 \/ r = "expired" /\ "timeout" \in Faults}, lives)

\* Fault: the group is never removed.
KeepGroup(i) == {live}

\* clearStaleGroup is a no-op on the legacy toolchain; its errors are ignored.
clearStaleGroup(i) ==
    LET cleared == live \ SameNumber(i)
    IN  IF ~ExecuteCvd \/ Toolchain = "legacy" THEN {live}
        ELSE {cleared} \cup (IF "cleanup" \in Faults THEN {live} ELSE {})

\* launch: cvd create refuses a number that is taken. A launch that failed may
\* have left its VM behind.
launch(i) ==
    IF ~ExecuteCvd THEN Outcomes({"ok"}, {live}) \cup Failures({live})
    ELSE LET before == clearStaleGroup(i)
             free == {l \in before : l \cap SameNumber(i) = {}}
         IN  Outcomes({"ok"}, {l \cup {i} : l \in free})
               \cup Outcomes({"fail"}, before \ free)
               \cup Failures(before \cup {l \cup {i} : l \in free})

\* waitReady: adb connects to the port, whichever VM answers there.
waitReady(i) ==
    (IF ExecuteCvd /\ ~Reachable(i) THEN Outcomes({"fail"}, {live})
                                    ELSE Outcomes({"ok"}, {live}))
      \cup Failures({live})

stop(i) ==
    IF ~ExecuteCvd THEN Outcomes({"ok"}, {live})
    ELSE Outcomes({"ok"}, {live \ SameNumber(i)})
           \cup Failures({live, live \ SameNumber(i)})

\* ensureImage as the lifecycle sees it; ctx may also run out while it fetches.
ensureImage == Outcomes({"ok"}, {live}) \cup Failures({live})

-----------------------------------------------------------------------------
(* Workers.                                                                *)

\* When the context of a worker has expired, the writes of its error path fail
\* too and are only logged: the worker ends with both rows as they were.
Command(o, from, outcomes, to) ==
    /\ pc[o] = from
    /\ \E out \in outcomes :
          /\ live' = out.live
          /\ Goto(o, IF out.res = "ok" THEN to ELSE out.res)
    /\ UNCHANGED <<rowVars, opst, reqVars, todo, crashes>>

\* The deadline may also pass between two commands: every later write fails.
DeadlinePasses(o) ==
    /\ "timeout" \in Faults
    /\ pc[o] \in WorkerPcs
    /\ Goto(o, "expired")
    /\ UNCHANGED <<rowVars, opst, reqVars, live, todo, crashes>>

Write(o, from, s, to) ==
    /\ pc[o] = from
    /\ UpdateInstanceState(target[o], s)
    /\ Goto(o, to)
    /\ UNCHANGED <<port, provisioned, opst, reqVars, live, todo, crashes>>

\* runStart and runDeploy read the row before they do anything.
Begin(o) ==
    /\ pc[o] = "begin"
    /\ target[o] \in Rows
    /\ Goto(o, IF kind[o] = "deploy" THEN "image" ELSE "launch")
    /\ UNCHANGED <<rowVars, opst, reqVars, live, todo, crashes>>

EnsureImage(o) == Command(o, "image", ensureImage, "imaged")
MarkStarting(o) == Write(o, "imaged", "starting", "launch")
Launch(o) == Command(o, "launch", launch(target[o]), "launched")
MarkBooting(o) == Write(o, "launched", "booting", "boot")
WaitReady(o) == Command(o, "boot", waitReady(target[o]), "ready")
MarkRunning(o) == Write(o, "ready", "running", "finish")

Stop(o) == Command(o, "stop", stop(target[o]),
                   IF kind[o] = "stop" THEN "stopped" ELSE "release")
MarkStopped(o) == Write(o, "stopped", "stopped", "finish")

Release(o) ==
    Command(o, "release",
            Outcomes({"ok"}, clearStaleGroup(target[o]))
              \cup (IF "timeout" \in Faults /\ ExecuteCvd /\ Toolchain = "cvd"
                      THEN Outcomes({"expired"}, clearStaleGroup(target[o])) ELSE {}),
            "remove")

\* store.DeleteInstance: no affected row is an error.
Remove(o) ==
    /\ pc[o] = "remove"
    /\ st' = [st EXCEPT ![target[o]] = IF target[o] \in Rows THEN "gone" ELSE @]
    /\ Goto(o, IF target[o] \in Rows THEN "finish" ELSE "failOp")
    /\ UNCHANGED <<port, provisioned, opst, reqVars, live, todo, crashes>>

\* A worker that reads the row, at its start or after one of its writes, and
\* does not find it gives up; the row may also vanish later, unnoticed.
RereadPcs(k) ==
    CASE k = "start"  -> {"begin", "boot", "finish"}
      [] k = "deploy" -> {"begin", "launch", "boot", "finish"}
      [] k = "stop"   -> {"finish"}
      [] OTHER        -> {}

RowVanished(o) ==
    /\ pc[o] \in RereadPcs(kind[o])
    /\ target[o] \notin Rows
    /\ Goto(o, "failOp")
    /\ UNCHANGED <<rowVars, opst, reqVars, live, todo, crashes>>

\* Fault: the error path fails the operation and leaves the row alone.
FailOnlyOperation(o) ==
    /\ pc[o] = "fail"
    /\ Goto(o, "failOp")
    /\ UNCHANGED <<rowVars, opst, reqVars, live, todo, crashes>>

MarkError(o) == Write(o, "fail", "error", "failOp")

\* Fault: only the success path calls finishOp.
FinishSucceeded(o) ==
    /\ pc[o] = "finish"
    /\ opst' = [opst EXCEPT ![o] = "succeeded"]
    /\ Goto(o, "done")
    /\ UNCHANGED <<rowVars, reqVars, live, todo, crashes>>

\* finishOp.
FinishOperation(o) ==
    /\ pc[o] \in {"finish", "failOp"}
    /\ opst' = [opst EXCEPT ![o] = IF pc[o] = "finish" THEN "succeeded" ELSE "failed"]
    /\ Goto(o, "done")
    /\ UNCHANGED <<rowVars, reqVars, live, todo, crashes>>

-----------------------------------------------------------------------------
(* Restart and environment.                                                *)

\* The process dies with every handler and worker; it comes back and lists
\* the rows to reconcile.
Crash ==
    /\ crashes < MaxCrashes
    /\ crashes' = crashes + 1
    /\ pc' = [o \in Ops |-> IF pc[o] \in HandlerPcs \cup WorkerPcs
                              THEN "crashed" ELSE pc[o]]
    /\ todo' = Rows
    /\ UNCHANGED <<rowVars, opst, reqVars, live>>

\* Fault: deleting is not swept.
ReconciledButDeleting(i) ==
    CASE st[i] \in {"starting", "booting", "running"} ->
           IF ExecuteCvd /\ Reachable(i) THEN {"running"} ELSE {"error"}
      [] st[i] = "stopping" -> {"error"}
      [] OTHER -> {st[i]}

\* Fault: an interrupted boot is taken to have succeeded, without asking adb.
ReconciledUnprobed(i) ==
    CASE st[i] \in {"starting", "booting"} -> {"running"}
      [] st[i] \in {"stopping", "deleting"} -> {"error"}
      [] OTHER -> {st[i]}

\* The states Reconcile may leave a row in.
Reconciled(i) ==
    LET flaky == IF "command" \in Faults THEN {"error"} ELSE {}
    IN  CASE st[i] \in {"starting", "booting"} ->
               IF ExecuteCvd /\ Reachable(i) THEN {"running"} \cup flaky ELSE {"error"}
          [] st[i] = "running" ->
               IF ExecuteCvd THEN (IF Reachable(i) THEN {"running"} \cup flaky
                                                   ELSE {"error"})
                             ELSE {"running"}
          [] st[i] \in {"stopping", "deleting"} -> {"error"}
          [] OTHER -> {st[i]}

Reconcile(i) ==
    /\ i \in todo
    /\ \E s \in Reconciled(i) : st' = [st EXCEPT ![i] = s]
    /\ todo' = todo \ {i}
    /\ UNCHANGED <<port, provisioned, opst, reqVars, pc, live, crashes>>

VmDies(i) ==
    /\ "vmdeath" \in Faults
    /\ i \in live
    /\ live' = live \ {i}
    /\ UNCHANGED <<rowVars, opst, reqVars, pc, todo, crashes>>

HandlerStep(o) ==
    CheckDeploy(o) \/ OpenOperation(o) \/ MarkPending(o) \/ SpawnWorker(o)

WorkerStep(o) ==
    \/ Begin(o) \/ EnsureImage(o) \/ MarkStarting(o) \/ Launch(o) \/ MarkBooting(o)
    \/ WaitReady(o) \/ MarkRunning(o) \/ Stop(o) \/ MarkStopped(o) \/ Release(o)
    \/ Remove(o) \/ RowVanished(o) \/ MarkError(o) \/ FinishOperation(o)

Next ==
    \/ \E o \in Ops, i \in Instances : CreateInstance(o, i)
    \/ \E o \in Ops, k \in Kinds, i \in Instances : Request(o, k, i)
    \/ \E o \in Ops : HandlerStep(o) \/ AbortRequest(o) \/ WorkerStep(o) \/ DeadlinePasses(o)
    \/ \E i \in Instances : RegisterDevice(i) \/ DeleteRegistration(i)
    \/ \E i \in Instances : Reconcile(i) \/ VmDies(i)
    \/ Crash

\* Handlers, workers and the startup sweep run on their own; every command they
\* wait for is bounded by a context deadline.
Fairness ==
    /\ \A o \in Ops : WF_vars(HandlerStep(o)) /\ WF_vars(WorkerStep(o))
    /\ \A i \in Instances : WF_vars(Reconcile(i))

Spec == Init /\ [][Next]_vars /\ Fairness

-----------------------------------------------------------------------------
(* Properties.                                                             *)

Transitional == {"provisioning", "starting", "booting", "stopping", "deleting"}

\* Progress points at which the worker of a request still owes the row a
\* settled state, and the two ways a request can end without paying.
Owing == {"marked", "begin", "image", "imaged", "launch", "launched", "boot",
          "ready", "stop", "stopped", "release", "remove", "fail"}
Defaulted == {"aborted", "expired"}
HasOwner(i) == \E o \in Ops : target[o] = i /\ pc[o] \in Owing \cup Defaulted

\* However requests for one instance overlap and wherever the process died, an
\* instance the API shows mid-transition has a request that still owes it a
\* settled state, or whose handler was cancelled or deadline passed: no worker
\* finishes on top of another and leaves the row in between. Reconcile does not
\* look at provisioning, which is therefore left out.
TransitionOwned ==
    \A i \in Instances :
        st[i] \in Transitional \ {"provisioning"} => i \in todo \/ HasOwner(i)

\* Two provisioned rows never share an ADB port, whatever was created, deleted
\* and registered in between: MAX + 1 is computed in the inserting transaction.
PortsDistinct ==
    \A i, j \in Rows : provisioned[i] /\ provisioned[j] /\ port[i] = port[j] => i = j

\* A late worker cannot bring a deleted instance back, and an operation that
\* was reported finished keeps its outcome.
FinalIsFinal ==
    [][/\ \A i \in Instances : st[i] = "gone" => st'[i] = "gone"
       /\ \A o \in Ops : opst[o] \in {"succeeded", "failed"} => opst'[o] = opst[o]]_vars

\* When the requests for an instance do not overlap, running in the database
\* means that the VM launched for this very instance is up, across restarts.
RunningIsReal == \A i \in Rows : st[i] = "running" /\ i \notin todo => i \in live

\* When the requests for an instance do not overlap, a deleted instance leaves
\* no VM behind.
DeletedIsDown == \A i \in Instances : st[i] = "gone" => i \notin live

\* Without expired deadlines and restarts, every operation whose worker was
\* started reaches an outcome, however many requests race on the instance. (The
\* operation of a handler that loses its row to a delete stays running: no
\* worker exists to finish it.)
OperationsFinish ==
    \A o \in Ops : pc[o] \in WorkerPcs ~> opst[o] \in {"succeeded", "failed"}

\* Without cancelled requests, expired deadlines and restarts, an instance always
\* leaves a transitional state, also when its workers overtake each other.
InstancesSettle ==
    \A i \in Instances : st[i] \in Transitional ~> st[i] \notin Transitional

=============================================================================
