---------------------- MODULE InstanceLifecycle_proofs ----------------------
(***************************************************************************)
(* Proofs about InstanceLifecycle for any number of instances, requests    *)
(* and restarts, any overlap of requests and any combination of faults,    *)
(* and, when requests do not overlap, that rows and VMs agree.             *)
(***************************************************************************)
EXTENDS InstanceLifecycle, FiniteSetTheorems, TLAPS

LEMMA TypeInit == Init => TypeOK
BY ConstantsAssumption DEF Init, TypeOK, States, Kinds, Pcs

\* A command changes the progress of its worker and the VMs on the host.
LEMMA CommandType ==
    ASSUME TypeOK, NEW o \in Ops, NEW from \in WorkerPcs, NEW to \in WorkerPcs,
           NEW outcomes,
           \A out \in outcomes : /\ out.res \in {"ok", "fail", "expired"}
                                 /\ out.live \subseteq Instances,
           Command(o, from, outcomes, to)
    PROVE  TypeOK'
BY DEF Command, Goto, TypeOK, Pcs, HandlerPcs, WorkerPcs, EndPcs, rowVars, reqVars

LEMMA WriteType ==
    ASSUME TypeOK, NEW o \in Ops, NEW from \in WorkerPcs, NEW to \in WorkerPcs,
           NEW s \in States, Write(o, from, s, to)
    PROVE  TypeOK'
BY DEF Write, UpdateInstanceState, Goto, TypeOK, Pcs, HandlerPcs, WorkerPcs, EndPcs,
       rowVars, reqVars

LEMMA OutcomesType ==
    ASSUME TypeOK, NEW i \in Instances
    PROVE  \A out \in launch(i) \cup waitReady(i) \cup stop(i) \cup ensureImage
                      \cup Outcomes({"ok", "expired"}, clearStaleGroup(i)) :
              out.res \in {"ok", "fail", "expired"} /\ out.live \subseteq Instances
<1>1. live \subseteq Instances
  BY DEF TypeOK
<1>2. \A l \in clearStaleGroup(i) : l \subseteq Instances
  BY <1>1 DEF clearStaleGroup
<1>3. ASSUME NEW res \in SUBSET {"ok", "fail", "expired"}, NEW lives,
             \A l \in lives : l \subseteq Instances,
             NEW out \in Outcomes(res, lives)
      PROVE  out.res \in {"ok", "fail", "expired"} /\ out.live \subseteq Instances
  BY <1>3 DEF Outcomes
<1>4. ASSUME NEW lives, \A l \in lives : l \subseteq Instances,
             NEW out \in Failures(lives)
      PROVE  out.res \in {"ok", "fail", "expired"} /\ out.live \subseteq Instances
  BY <1>3, <1>4 DEF Failures
<1>5. ASSUME NEW out \in launch(i)
      PROVE  out.res \in {"ok", "fail", "expired"} /\ out.live \subseteq Instances
  <2>1. CASE ~ExecuteCvd
    BY <1>1, <1>3, <1>4, <1>5, <2>1 DEF launch
  <2>2. CASE ExecuteCvd
    <3> DEFINE free == {l \in clearStaleGroup(i) : l \cap SameNumber(i) = {}}
    <3>1. \A l \in {m \cup {i} : m \in free} : l \subseteq Instances
      BY <1>2
    <3>2. \A l \in clearStaleGroup(i) \cup {m \cup {i} : m \in free} : l \subseteq Instances
      BY <1>2, <3>1
    <3>3. \A l \in clearStaleGroup(i) \ free : l \subseteq Instances
      BY <1>2
    <3>4. \/ out \in Outcomes({"ok"}, {m \cup {i} : m \in free})
          \/ out \in Outcomes({"fail"}, clearStaleGroup(i) \ free)
          \/ out \in Failures(clearStaleGroup(i) \cup {m \cup {i} : m \in free})
      BY <1>5, <2>2 DEF launch
    <3> HIDE DEF free
    <3> QED BY <1>3, <1>4, <3>1, <3>2, <3>3, <3>4
  <2> QED BY <2>1, <2>2
<1>6. ASSUME NEW out \in waitReady(i) \cup stop(i) \cup ensureImage
      PROVE  out.res \in {"ok", "fail", "expired"} /\ out.live \subseteq Instances
  BY <1>1, <1>3, <1>4, <1>6 DEF waitReady, stop, ensureImage
<1> QED BY <1>2, <1>3, <1>5, <1>6

LEMMA ReleaseOutcomes ==
    ASSUME TypeOK, NEW i \in Instances
    PROVE  \A out \in Outcomes({"ok"}, clearStaleGroup(i))
                      \cup (IF "timeout" \in Faults /\ ExecuteCvd /\ Toolchain = "cvd"
                              THEN Outcomes({"expired"}, clearStaleGroup(i)) ELSE {}) :
              out.res \in {"ok", "fail", "expired"} /\ out.live \subseteq Instances
<1>1. Outcomes({"ok"}, clearStaleGroup(i)) \cup Outcomes({"expired"}, clearStaleGroup(i))
        \subseteq Outcomes({"ok", "expired"}, clearStaleGroup(i))
  BY DEF Outcomes
<1> QED BY <1>1, OutcomesType

LEMMA TypeNext == TypeOK /\ [Next]_vars => TypeOK'
<1> SUFFICES ASSUME TypeOK, [Next]_vars PROVE TypeOK'
  OBVIOUS
<1> USE DEF Goto, rowVars, reqVars
<1>1. ASSUME NEW o \in Ops, NEW i \in Instances, CreateInstance(o, i) PROVE TypeOK'
  BY <1>1, ConstantsAssumption
     DEF CreateInstance, Accept, TypeOK, Pcs, HandlerPcs, Kinds, States, Rows
<1>2. ASSUME NEW o \in Ops, NEW k \in Kinds, NEW i \in Instances, Request(o, k, i)
      PROVE  TypeOK'
  BY <1>2 DEF Request, Accept, TypeOK, Pcs, HandlerPcs
<1>3. ASSUME NEW o \in Ops, HandlerStep(o) PROVE TypeOK'
  <2>1. CASE CheckDeploy(o) \/ OpenOperation(o) \/ SpawnWorker(o)
    BY <2>1 DEF CheckDeploy, OpenOperation, SpawnWorker, WorkerEntry, TypeOK,
                Pcs, HandlerPcs, WorkerPcs, EndPcs, Kinds
  <2>2. CASE MarkPending(o)
    <3>1. kind[o] \in Kinds
      BY <2>2 DEF MarkPending, TypeOK
    <3>2. PendingState(kind[o]) \in States
      BY <3>1 DEF PendingState, Kinds, States
    <3> QED BY <2>2, <3>2 DEF MarkPending, UpdateInstanceState, TypeOK, Pcs, HandlerPcs
  <2> QED BY <1>3, <2>1, <2>2 DEF HandlerStep
<1>4. ASSUME NEW o \in Ops, AbortRequest(o) \/ DeadlinePasses(o) PROVE TypeOK'
  BY <1>4 DEF AbortRequest, DeadlinePasses, TypeOK, Pcs, HandlerPcs, WorkerPcs, EndPcs
<1>5. ASSUME NEW o \in Ops, WorkerStep(o) PROVE TypeOK'
  <2>1. CASE Begin(o) \/ RowVanished(o) \/ FinishOperation(o)
    BY <2>1 DEF Begin, RowVanished, RereadPcs, FinishOperation, TypeOK,
                Pcs, HandlerPcs, WorkerPcs, EndPcs
  <2>2. CASE MarkStarting(o) \/ MarkBooting(o) \/ MarkRunning(o)
             \/ MarkStopped(o) \/ MarkError(o)
    BY <2>2, WriteType DEF MarkStarting, MarkBooting, MarkRunning, MarkStopped,
                           MarkError, WorkerPcs, States
  <2>3. CASE Remove(o)
    BY <2>3 DEF Remove, TypeOK, Pcs, HandlerPcs, WorkerPcs, EndPcs
  <2>4. ASSUME EnsureImage(o) \/ Launch(o) \/ WaitReady(o) \/ Stop(o) \/ Release(o)
        PROVE  TypeOK'
    <3>1. target[o] \in Instances
      BY <2>4 DEF EnsureImage, Launch, WaitReady, Stop, Release, Command, TypeOK
    <3>2. CASE EnsureImage(o)
      BY <3>1, <3>2, OutcomesType, CommandType DEF EnsureImage, WorkerPcs
    <3>3. CASE Launch(o)
      BY <3>1, <3>3, OutcomesType, CommandType DEF Launch, WorkerPcs
    <3>4. CASE WaitReady(o)
      BY <3>1, <3>4, OutcomesType, CommandType DEF WaitReady, WorkerPcs
    <3>5. CASE Stop(o)
      BY <3>1, <3>5, OutcomesType, CommandType DEF Stop, WorkerPcs
    <3>6. CASE Release(o)
      BY <3>1, <3>6, ReleaseOutcomes, CommandType DEF Release, WorkerPcs
    <3> QED BY <2>4, <3>2, <3>3, <3>4, <3>5, <3>6
  <2> QED BY <1>5, <2>1, <2>2, <2>3, <2>4 DEF WorkerStep
<1>6. ASSUME NEW i \in Instances, RegisterDevice(i) \/ DeleteRegistration(i) \/ VmDies(i)
      PROVE  TypeOK'
  BY <1>6 DEF RegisterDevice, DeleteRegistration, VmDies, TypeOK, States
<1>7. ASSUME NEW i \in Instances, Reconcile(i) PROVE TypeOK'
  <2>1. Reconciled(i) \subseteq States \cup {"unborn", "gone"}
    BY DEF Reconciled, TypeOK, States
  <2> QED BY <1>7, <2>1 DEF Reconcile, TypeOK
<1>8. CASE Crash
  BY <1>8 DEF Crash, TypeOK, Pcs, HandlerPcs, WorkerPcs, EndPcs, Rows
<1>9. CASE UNCHANGED vars
  BY <1>9 DEF vars, TypeOK
<1> QED BY <1>1, <1>2, <1>3, <1>4, <1>5, <1>6, <1>7, <1>8, <1>9 DEF Next

\* Every row, operation and request keeps its type, and a request that was
\* accepted names an action and an instance.
THEOREM TypeCorrect == Spec => []TypeOK
BY TypeInit, TypeNext, PTL DEF Spec

-----------------------------------------------------------------------------
(* An instance in transition has an owner.                                 *)

\* A step of request o keeps every instance in transition owned if it leaves
\* the other instances alone and either leaves o owing its instance a settled
\* state, or settles the instance, or was not owing and changed nothing.
LEMMA OwnerStep ==
    ASSUME TypeOK, TransitionOwned, NEW o \in Ops, NEW q,
           pc' = [pc EXCEPT ![o] = q], target' = target, todo' = todo,
           \A i \in Instances : i # target[o] => st'[i] = st[i],
           \/ q \in Owing \cup Defaulted
           \/ st'[target[o]] \notin Transitional \ {"provisioning"}
           \/ pc[o] \notin Owing \cup Defaulted /\ st' = st
    PROVE  TransitionOwned'
<1> SUFFICES ASSUME NEW i \in Instances,
                    st'[i] \in Transitional \ {"provisioning"}, i \notin todo
             PROVE  HasOwner(i)'
  BY DEF TransitionOwned
<1>1. CASE i # target[o]
  <2>1. PICK w \in Ops : target[w] = i /\ pc[w] \in Owing \cup Defaulted
    BY <1>1 DEF TransitionOwned, HasOwner
  <2> QED BY <1>1, <2>1 DEF HasOwner, TypeOK
<1>2. CASE i = target[o] /\ q \in Owing \cup Defaulted
  BY <1>2 DEF HasOwner, TypeOK
<1>3. CASE i = target[o] /\ pc[o] \notin Owing \cup Defaulted /\ st' = st
  <2>1. PICK w \in Ops : target[w] = i /\ pc[w] \in Owing \cup Defaulted
    BY <1>3 DEF TransitionOwned, HasOwner
  <2> QED BY <1>3, <2>1 DEF HasOwner, TypeOK
<1> QED BY <1>1, <1>2, <1>3

LEMMA OwnerCommand ==
    ASSUME TypeOK, TransitionOwned, NEW o \in Ops, NEW from, NEW to \in Owing,
           NEW outcomes, \A out \in outcomes : out.res \in {"ok", "fail", "expired"},
           Command(o, from, outcomes, to)
    PROVE  TransitionOwned'
<1>1. PICK q \in Owing \cup Defaulted : pc' = [pc EXCEPT ![o] = q]
  BY DEF Command, Goto, Owing, Defaulted
<1>2. st' = st /\ target' = target /\ todo' = todo
  BY DEF Command, rowVars, reqVars
<1> QED BY <1>1, <1>2, OwnerStep

LEMMA OwnedNext == TypeOK /\ TransitionOwned /\ [Next]_vars => TransitionOwned'
<1> SUFFICES ASSUME TypeOK, TransitionOwned, [Next]_vars PROVE TransitionOwned'
  OBVIOUS
<1> USE DEF Goto, rowVars, reqVars
<1>1. ASSUME NEW o \in Ops, NEW k \in Kinds, NEW i \in Instances,
             CreateInstance(o, i) \/ Request(o, k, i)
      PROVE  TransitionOwned'
  <2>1. /\ pc[o] = "idle" /\ todo' = todo
        /\ target' = [target EXCEPT ![o] = i]
        /\ \A w \in Ops : w # o => pc'[w] = pc[w]
        /\ \A j \in Instances : st'[j] = st[j] \/ st'[j] = "stopped"
    BY <1>1 DEF CreateInstance, Request, Accept, TypeOK
  <2> SUFFICES ASSUME NEW j \in Instances,
                      st'[j] \in Transitional \ {"provisioning"}, j \notin todo
               PROVE  HasOwner(j)'
    BY <2>1 DEF TransitionOwned
  <2>2. PICK w \in Ops : target[w] = j /\ pc[w] \in Owing \cup Defaulted
    BY <2>1 DEF TransitionOwned, HasOwner, Transitional
  <2>3. w # o
    BY <2>1, <2>2 DEF Owing, Defaulted
  <2> QED BY <2>1, <2>2, <2>3 DEF HasOwner, TypeOK
<1>2. ASSUME NEW o \in Ops, HandlerStep(o) \/ AbortRequest(o) PROVE TransitionOwned'
  <2>1. CASE CheckDeploy(o) \/ OpenOperation(o)
    BY <2>1, OwnerStep DEF CheckDeploy, OpenOperation, Owing, Defaulted
  <2>2. CASE MarkPending(o)
    BY <2>2, OwnerStep DEF MarkPending, UpdateInstanceState, Owing, TypeOK
  <2>3. CASE SpawnWorker(o)
    <3>1. target[o] \in Instances /\ kind[o] \in Kinds
      BY <2>3 DEF SpawnWorker, TypeOK
    <3>2. CASE target[o] \in Rows
      <4>1. WorkerEntry(kind[o], st[target[o]]) \in Owing
        BY <3>1 DEF WorkerEntry, Owing, Kinds
      <4> QED BY <2>3, <3>2, <4>1, OwnerStep DEF SpawnWorker
    <3>3. CASE target[o] \notin Rows
      BY <2>3, <3>1, <3>3, OwnerStep DEF SpawnWorker, Rows, Transitional
    <3> QED BY <3>2, <3>3
  <2>4. CASE AbortRequest(o)
    BY <2>4, OwnerStep DEF AbortRequest, Defaulted
  <2> QED BY <1>2, <2>1, <2>2, <2>3, <2>4 DEF HandlerStep
<1>3. ASSUME NEW o \in Ops, WorkerStep(o) \/ DeadlinePasses(o) PROVE TransitionOwned'
  <2>1. CASE DeadlinePasses(o)
    BY <2>1, OwnerStep DEF DeadlinePasses, Defaulted
  <2>2. CASE Begin(o)
    BY <2>2, OwnerStep DEF Begin, Owing
  <2>3. CASE RowVanished(o)
    <3>1. target[o] \in Instances => st[target[o]] \notin Transitional
      BY <2>3 DEF RowVanished, Rows, Transitional
    <3>2. target[o] \in Instances
      <4>1. pc[o] # "idle"
        BY <2>3 DEF RowVanished, RereadPcs
      <4> QED BY <4>1 DEF TypeOK
    <3> QED BY <2>3, <3>1, <3>2, OwnerStep DEF RowVanished
  <2>4. CASE FinishOperation(o)
    BY <2>4, OwnerStep DEF FinishOperation, Owing, Defaulted
  <2>5. ASSUME EnsureImage(o) \/ Launch(o) \/ WaitReady(o) \/ Stop(o) \/ Release(o)
        PROVE  TransitionOwned'
    <3>1. target[o] \in Instances
      BY <2>5 DEF EnsureImage, Launch, WaitReady, Stop, Release, Command, TypeOK
    <3>2. CASE EnsureImage(o)
      BY <3>1, <3>2, OutcomesType, OwnerCommand DEF EnsureImage, Owing
    <3>3. CASE Launch(o)
      BY <3>1, <3>3, OutcomesType, OwnerCommand DEF Launch, Owing
    <3>4. CASE WaitReady(o)
      BY <3>1, <3>4, OutcomesType, OwnerCommand DEF WaitReady, Owing
    <3>5. CASE Stop(o)
      BY <3>1, <3>5, OutcomesType, OwnerCommand DEF Stop, Owing
    <3>6. CASE Release(o)
      BY <3>1, <3>6, ReleaseOutcomes, OwnerCommand DEF Release, Owing
    <3> QED BY <2>5, <3>2, <3>3, <3>4, <3>5, <3>6
  <2>6. CASE MarkStarting(o) \/ MarkBooting(o)
    BY <2>6, OwnerStep DEF MarkStarting, MarkBooting, Write, UpdateInstanceState,
                           Owing, TypeOK
  <2>7. CASE MarkRunning(o) \/ MarkStopped(o) \/ MarkError(o)
    <3>1. /\ target[o] \in Instances
          /\ \E s \in {"running", "stopped", "error"} :
                 UpdateInstanceState(target[o], s)
          /\ target' = target /\ todo' = todo
          /\ \E q : pc' = [pc EXCEPT ![o] = q]
      BY <2>7 DEF MarkRunning, MarkStopped, MarkError, Write, TypeOK
    <3>2. st'[target[o]] \notin Transitional
      BY <3>1 DEF UpdateInstanceState, Transitional, Rows, TypeOK
    <3>3. \A i \in Instances : i # target[o] => st'[i] = st[i]
      BY <3>1 DEF UpdateInstanceState, TypeOK
    <3> QED BY <3>1, <3>2, <3>3, OwnerStep
  <2>8. CASE Remove(o)
    <3>1. target[o] \in Instances
      BY <2>8 DEF Remove, TypeOK
    <3>2. st'[target[o]] \notin Transitional
      BY <2>8, <3>1 DEF Remove, Transitional, Rows, TypeOK
    <3> QED BY <2>8, <3>2, OwnerStep DEF Remove, TypeOK
  <2> QED BY <1>3, <2>1, <2>2, <2>3, <2>4, <2>5, <2>6, <2>7, <2>8 DEF WorkerStep
<1>4. ASSUME NEW i \in Instances, RegisterDevice(i) \/ DeleteRegistration(i) \/ VmDies(i)
      PROVE  TransitionOwned'
  BY <1>4 DEF RegisterDevice, DeleteRegistration, VmDies, TransitionOwned, HasOwner,
              Transitional, TypeOK
<1>5. ASSUME NEW i \in Instances, Reconcile(i) PROVE TransitionOwned'
  <2>1. Reconciled(i) \cap (Transitional \ {"provisioning"}) = {}
    BY DEF Reconciled, Transitional
  <2> QED BY <1>5, <2>1 DEF Reconcile, TransitionOwned, HasOwner, TypeOK
<1>6. CASE Crash
  BY <1>6 DEF Crash, TransitionOwned, Transitional, Rows
<1>7. CASE UNCHANGED vars
  BY <1>7 DEF vars, TransitionOwned, HasOwner
<1> QED BY <1>1, <1>2, <1>3, <1>4, <1>5, <1>6, <1>7 DEF Next, Kinds

\* TransitionOwned for any number of instances, requests and restarts: however
\* handlers and workers overlap, an instance shown starting, booting, stopping
\* or deleting has a request that still owes it a settled state or was cut off.
THEOREM TransitionsAreOwned == Spec => []TransitionOwned
<1>1. Init => TransitionOwned
  BY DEF Init, TransitionOwned, Transitional
<1> QED BY <1>1, TypeCorrect, OwnedNext, PTL DEF Spec

-----------------------------------------------------------------------------
(* Ports.                                                                  *)

\* Only an inserted row is provisioned, and a row keeps its source and port.
PortInv ==
    /\ PortsDistinct
    /\ \A i \in Instances : st[i] = "unborn" => ~provisioned[i]

\* Rows only disappear or change their state, except in CreateInstance and
\* RegisterDevice.
LEMMA RowsShrink ==
    ASSUME TypeOK, PortInv, port' = port, provisioned' = provisioned,
           \A i \in Instances : /\ i \in Rows' => i \in Rows
                                /\ st'[i] = "unborn" => st[i] = "unborn"
    PROVE  PortInv'
BY DEF PortInv, PortsDistinct, Rows

LEMMA PortNext == TypeOK /\ PortInv /\ [Next]_vars => PortInv'
<1> SUFFICES ASSUME TypeOK, PortInv, [Next]_vars PROVE PortInv'
  OBVIOUS
<1> USE DEF Goto, rowVars, reqVars
<1>1. ASSUME NEW o \in Ops, NEW i \in Instances, CreateInstance(o, i) PROVE PortInv'
  <2>1. PICK p \in Nat : NextPort(p) /\ port' = [port EXCEPT ![i] = p]
    <3>1. PICK p \in {BasePort} \cup {port[m] + 1 : m \in Rows} :
             NextPort(p) /\ port' = [port EXCEPT ![i] = p]
      BY <1>1 DEF CreateInstance
    <3>2. p \in Nat
      BY ConstantsAssumption DEF TypeOK, Rows
    <3> QED BY <3>1, <3>2
  <2>2. /\ st[i] = "unborn"
        /\ st' = [st EXCEPT ![i] = "stopped"]
        /\ provisioned' = [provisioned EXCEPT ![i] = TRUE]
    BY <1>1 DEF CreateInstance
  <2>3. \A j \in Rows : port[j] < p
    BY <2>1 DEF NextPort, Rows, TypeOK
  <2>4. i \notin Rows /\ Rows' = Rows \cup {i}
    BY <2>2 DEF Rows, TypeOK
  <2>5. \A j \in Rows : port'[j] = port[j] /\ provisioned'[j] = provisioned[j]
    BY <2>1, <2>2, <2>4 DEF Rows, TypeOK
  <2>6. port'[i] = p
    BY <2>1 DEF TypeOK
  <2>7. PortsDistinct'
    BY <2>3, <2>4, <2>5, <2>6 DEF PortInv, PortsDistinct, Rows, TypeOK
  <2> QED BY <2>2, <2>7 DEF PortInv, TypeOK
<1>2. ASSUME NEW i \in Instances, RegisterDevice(i) PROVE PortInv'
  BY <1>2 DEF RegisterDevice, PortInv, PortsDistinct, Rows, TypeOK
<1>3. ASSUME NEW o \in Ops, NEW k \in Kinds, NEW i \in Instances, Request(o, k, i)
      PROVE  PortInv'
  BY <1>3, RowsShrink DEF Request, Rows
<1>4. ASSUME NEW o \in Ops, HandlerStep(o) \/ AbortRequest(o) \/ DeadlinePasses(o)
      PROVE  PortInv'
  <2>1. CASE MarkPending(o)
    <3>1. kind[o] \in Kinds
      BY <2>1 DEF MarkPending, TypeOK
    <3>2. PendingState(kind[o]) # "unborn"
      BY <3>1 DEF PendingState, Kinds
    <3> QED BY <2>1, <3>2, RowsShrink DEF MarkPending, UpdateInstanceState, Rows, TypeOK
  <2>2. CASE CheckDeploy(o) \/ OpenOperation(o) \/ SpawnWorker(o)
             \/ AbortRequest(o) \/ DeadlinePasses(o)
    BY <2>2, RowsShrink DEF CheckDeploy, OpenOperation, SpawnWorker, AbortRequest,
                            DeadlinePasses, Rows
  <2> QED BY <1>4, <2>1, <2>2 DEF HandlerStep
<1>5. ASSUME NEW o \in Ops, WorkerStep(o) PROVE PortInv'
  <2>1. CASE Begin(o) \/ RowVanished(o) \/ FinishOperation(o)
    BY <2>1, RowsShrink DEF Begin, RowVanished, FinishOperation, Rows
  <2>2. CASE EnsureImage(o) \/ Launch(o) \/ WaitReady(o) \/ Stop(o) \/ Release(o)
    BY <2>2, RowsShrink DEF EnsureImage, Launch, WaitReady, Stop, Release, Command, Rows
  <2>3. CASE MarkStarting(o) \/ MarkBooting(o) \/ MarkRunning(o)
             \/ MarkStopped(o) \/ MarkError(o)
    BY <2>3, RowsShrink DEF MarkStarting, MarkBooting, MarkRunning, MarkStopped,
                            MarkError, Write, UpdateInstanceState, Rows, TypeOK
  <2>4. CASE Remove(o)
    BY <2>4, RowsShrink DEF Remove, Rows, TypeOK
  <2> QED BY <1>5, <2>1, <2>2, <2>3, <2>4 DEF WorkerStep
<1>6. ASSUME NEW i \in Instances, DeleteRegistration(i) \/ VmDies(i) PROVE PortInv'
  BY <1>6, RowsShrink DEF DeleteRegistration, VmDies, Rows, TypeOK
<1>7. ASSUME NEW i \in Instances, Reconcile(i) PROVE PortInv'
  <2>1. \A s \in Reconciled(i) : s = st[i] \/ (i \in Rows /\ s \in States)
    BY DEF Reconciled, Rows, States
  <2> QED BY <1>7, <2>1, RowsShrink DEF Reconcile, Rows, States, TypeOK
<1>8. CASE Crash
  BY <1>8, RowsShrink DEF Crash, Rows
<1>9. CASE UNCHANGED vars
  BY <1>9, RowsShrink DEF vars, Rows
<1> QED BY <1>1, <1>2, <1>3, <1>4, <1>5, <1>6, <1>7, <1>8, <1>9 DEF Next

\* PortsDistinct for any history of creations, registrations and deletions:
\* nextPortsTx never hands out the port of a row that still exists.
THEOREM PortsAreDistinct == Spec => []PortsDistinct
<1>1. Init => PortInv
  BY DEF Init, PortInv, PortsDistinct, Rows
<1>2. PortInv => PortsDistinct
  BY DEF PortInv
<1> QED BY <1>1, <1>2, TypeCorrect, PortNext, PTL DEF Spec

-----------------------------------------------------------------------------
(* What is final stays final.                                              *)

\* finishOp is the last thing a worker does.
OutcomeInv == \A o \in Ops : opst[o] \in {"succeeded", "failed"} => pc[o] = "done"

LEMMA OutcomeNext ==
    TypeOK /\ OutcomeInv /\ [Next]_vars =>
        /\ OutcomeInv'
        /\ \A i \in Instances : st[i] = "gone" => st'[i] = "gone"
        /\ \A o \in Ops : opst[o] \in {"succeeded", "failed"} => opst'[o] = opst[o]
<1> DEFINE Good ==
        /\ OutcomeInv'
        /\ \A i \in Instances : st[i] = "gone" => st'[i] = "gone"
        /\ \A o \in Ops : opst[o] \in {"succeeded", "failed"} => opst'[o] = opst[o]
<1> SUFFICES ASSUME TypeOK, OutcomeInv, [Next]_vars PROVE Good
  OBVIOUS
<1> USE DEF Goto, rowVars, reqVars, OutcomeInv
<1>1. ASSUME NEW o \in Ops, NEW i \in Instances, NEW k \in Kinds,
             CreateInstance(o, i) \/ Request(o, k, i)
      PROVE  Good
  BY <1>1 DEF CreateInstance, Request, Accept, TypeOK
<1>2. ASSUME NEW o \in Ops, HandlerStep(o) \/ AbortRequest(o) \/ DeadlinePasses(o)
      PROVE  Good
  <2>1. CASE CheckDeploy(o) \/ OpenOperation(o) \/ SpawnWorker(o)
    BY <2>1 DEF CheckDeploy, OpenOperation, SpawnWorker, TypeOK
  <2>2. CASE MarkPending(o)
    BY <2>2 DEF MarkPending, UpdateInstanceState, Rows, TypeOK
  <2>3. CASE AbortRequest(o) \/ DeadlinePasses(o)
    BY <2>3 DEF AbortRequest, DeadlinePasses, HandlerPcs, WorkerPcs, TypeOK
  <2> QED BY <1>2, <2>1, <2>2, <2>3 DEF HandlerStep
<1>3. ASSUME NEW o \in Ops, WorkerStep(o) PROVE Good
  <2>1. CASE Begin(o) \/ FinishOperation(o) \/ RowVanished(o)
    <3>1. pc[o] # "done"
      BY <2>1 DEF Begin, FinishOperation, RowVanished, RereadPcs
    <3> QED BY <2>1, <3>1 DEF Begin, FinishOperation, RowVanished, TypeOK
  <2>2. CASE EnsureImage(o) \/ Launch(o) \/ WaitReady(o) \/ Stop(o) \/ Release(o)
    BY <2>2 DEF EnsureImage, Launch, WaitReady, Stop, Release, Command, TypeOK
  <2>3. CASE MarkStarting(o) \/ MarkBooting(o) \/ MarkRunning(o)
             \/ MarkStopped(o) \/ MarkError(o)
    BY <2>3 DEF MarkStarting, MarkBooting, MarkRunning, MarkStopped, MarkError,
                Write, UpdateInstanceState, Rows, TypeOK
  <2>4. CASE Remove(o)
    BY <2>4 DEF Remove, Rows, TypeOK
  <2> QED BY <1>3, <2>1, <2>2, <2>3, <2>4 DEF WorkerStep
<1>4. ASSUME NEW i \in Instances, RegisterDevice(i) \/ DeleteRegistration(i) \/ VmDies(i)
      PROVE  Good
  BY <1>4 DEF RegisterDevice, DeleteRegistration, VmDies, TypeOK
<1>5. ASSUME NEW i \in Instances, Reconcile(i) PROVE Good
  <2>1. st[i] = "gone" => Reconciled(i) = {"gone"}
    BY DEF Reconciled
  <2> QED BY <1>5, <2>1 DEF Reconcile, TypeOK
<1>6. CASE Crash
  BY <1>6 DEF Crash, HandlerPcs, WorkerPcs
<1>7. CASE UNCHANGED vars
  BY <1>7 DEF vars
<1> HIDE DEF Good
<1> QED BY <1>1, <1>2, <1>3, <1>4, <1>5, <1>6, <1>7 DEF Next, Kinds

\* FinalIsFinal: no late worker revives a deleted instance or rewrites the
\* outcome of a finished operation.
THEOREM FinalStaysFinal == Spec => FinalIsFinal
<1>1. Init => OutcomeInv
  BY DEF Init, OutcomeInv
<1> QED BY <1>1, TypeCorrect, OutcomeNext, PTL DEF Spec, FinalIsFinal

-----------------------------------------------------------------------------
(* One request at a time. RunningIsReal and DeletedIsDown are false when   *)
(* requests for one instance overlap, when a VM dies by itself or when     *)
(* nothing removes a group; without these they hold whatever fails, times  *)
(* out, is cancelled or restarts.                                          *)

Serial ==
    /\ Overlap = 1
    /\ Toolchain = "cvd" /\ ExecuteCvd
    /\ "cleanup" \notin Faults /\ "vmdeath" \notin Faults

Busy == HandlerPcs \cup WorkerPcs

\* Nobody else works on the instance of a request, not even the startup sweep
OneAtATime ==
    /\ \A o, w \in Ops : pc[o] \in Busy /\ pc[w] \in Busy /\ target[o] = target[w] => o = w
    /\ \A o \in Ops : pc[o] \in Busy => todo = {}

\* While a worker may touch the VM, the row does not say running
HeldRows ==
    \A o \in Ops :
        /\ pc[o] \in Busy => provisioned[target[o]]
        /\ pc[o] \in {"check", "accepted", "opened"} => target[o] \in Rows
        /\ pc[o] \in Owing => st[target[o]] \in Transitional
        /\ pc[o] = "ready" => target[o] \in live
        /\ pc[o] = "remove" => target[o] \notin live

VmsHaveRows ==
    /\ \A i \in live : i \in Rows /\ provisioned[i]
    /\ \A i \in Rows : ~provisioned[i] => st[i] = "offline"

SerialInv == OneAtATime /\ HeldRows /\ VmsHaveRows /\ RunningIsReal

\* A step of one request keeps the invariant if it touches no other instance
\* and leaves its own as its progress says.
LEMMA RequestMoves ==
    ASSUME TypeOK, SerialInv, NEW o \in Ops, pc[o] \in Busy, NEW q \in Pcs,
           pc' = [pc EXCEPT ![o] = q], target' = target, provisioned' = provisioned, todo' = todo,
           live' \subseteq Instances, DOMAIN st' = Instances,
           \A i \in Instances : i # target[o] => st'[i] = st[i] /\ (i \in live' <=> i \in live),
           q \in {"check", "accepted", "opened"} => target[o] \in Rows',
           q \in Owing => st'[target[o]] \in Transitional,
           q = "ready" => target[o] \in live',
           q = "remove" => target[o] \notin live',
           target[o] \in live' => target[o] \in Rows',
           st'[target[o]] = "running" => target[o] \in live'
    PROVE  SerialInv'
<1>0. /\ pc \in [Ops -> Pcs] /\ target[o] \in Instances /\ provisioned[target[o]] /\ todo = {}
      /\ \A w \in Ops : pc[w] \in Busy => target[w] \in Instances
      /\ \A w \in Ops : w # o => pc'[w] = pc[w]
      /\ pc'[o] = q
    BY DEF TypeOK, SerialInv, OneAtATime, HeldRows, Busy, HandlerPcs, WorkerPcs
<1>1. \A w \in Ops : w # o /\ pc[w] \in Busy => target[w] # target[o]
    BY DEF SerialInv, OneAtATime
<1>2. OneAtATime'
    BY <1>0, <1>1 DEF SerialInv, OneAtATime
<1>3. \A i \in Instances : i # target[o] => (i \in Rows' <=> i \in Rows)
    BY DEF Rows
<1>4. HeldRows'
    <2> SUFFICES ASSUME NEW w \in Ops
                 PROVE  /\ pc'[w] \in Busy => provisioned[target[w]]
                        /\ pc'[w] \in {"check", "accepted", "opened"} => target[w] \in Rows'
                        /\ pc'[w] \in Owing => st'[target[w]] \in Transitional
                        /\ pc'[w] = "ready" => target[w] \in live'
                        /\ pc'[w] = "remove" => target[w] \notin live'
        BY DEF HeldRows
    <2>1. CASE w = o
        BY <2>1, <1>0
    <2>2. CASE w # o
        <3>1. pc'[w] = pc[w]
            BY <2>2, <1>0
        <3>2. CASE pc[w] \in Busy
            BY <2>2, <3>1, <3>2, <1>0, <1>1, <1>3 DEF SerialInv, HeldRows
        <3>3. CASE pc[w] \notin Busy
            BY <3>1, <3>3 DEF Busy, HandlerPcs, WorkerPcs, Owing
        <3> QED  BY <3>2, <3>3
    <2> QED  BY <2>1, <2>2
<1>5. VmsHaveRows'
    <2>1. \A i \in live' : i \in Rows' /\ provisioned[i]
        BY <1>0, <1>3 DEF SerialInv, VmsHaveRows
    <2>2. \A i \in Rows' : ~provisioned[i] => st'[i] = "offline"
        BY <1>0, <1>3 DEF SerialInv, VmsHaveRows, Rows
    <2> QED  BY <2>1, <2>2 DEF VmsHaveRows
<1>6. RunningIsReal'
    BY <1>0, <1>3 DEF SerialInv, RunningIsReal, Rows
<1> QED  BY <1>2, <1>4, <1>5, <1>6 DEF SerialInv

\* No other VM has the number of an instance that is worked on, so a command for
\* it leaves the others alone and removing its group removes its VM.
LEMMA OwnGroup ==
    ASSUME Serial, TypeOK, PortInv, SerialInv, NEW i \in Rows, provisioned[i]
    PROVE  /\ live \ SameNumber(i) = live \ {i}
           /\ live \cap SameNumber(i) = live \cap {i}
           /\ clearStaleGroup(i) = {live \ {i}}
           /\ Reachable(i) <=> i \in live
<1>1. i \in Instances /\ i \in SameNumber(i)
    BY DEF Rows, SameNumber
<1>2. \A j \in live : j \in SameNumber(i) => j = i
    BY DEF SerialInv, VmsHaveRows, PortInv, PortsDistinct, SameNumber
<1>3. live \ SameNumber(i) = live \ {i} /\ live \cap SameNumber(i) = live \cap {i}
    BY <1>1, <1>2
<1>4. clearStaleGroup(i) = {live \ {i}}
    BY <1>3 DEF clearStaleGroup, Serial
<1>5. Reachable(i) <=> i \in live
    BY <1>3 DEF Reachable
<1> QED  BY <1>3, <1>4, <1>5

\* What each command may leave on the host.
LEMMA CommandEffects ==
    ASSUME Serial, TypeOK, PortInv, SerialInv, NEW i \in Rows, provisioned[i]
    PROVE  /\ \A out \in launch(i) \cup stop(i) : out.live \ {i} = live \ {i}
           /\ \A out \in waitReady(i) : out.live = live /\ (out.res = "ok" => i \in live)
           /\ \A out \in ensureImage : out.live = live
           /\ \A out \in Outcomes({"ok"}, clearStaleGroup(i))
                           \cup (IF "timeout" \in Faults /\ ExecuteCvd /\ Toolchain = "cvd"
                                   THEN Outcomes({"expired"}, clearStaleGroup(i)) ELSE {}) :
                 out.live = live \ {i}
<1>1. /\ live \ SameNumber(i) = live \ {i} /\ clearStaleGroup(i) = {live \ {i}}
      /\ Reachable(i) <=> i \in live
    BY OwnGroup
<1>2. ASSUME NEW res, NEW lives, NEW out \in Outcomes(res, lives) PROVE out.live \in lives /\ out.res \in res
    BY <1>2 DEF Outcomes
<1>3. ASSUME NEW lives, NEW out \in Failures(lives) PROVE out.live \in lives /\ out.res # "ok"
    BY <1>3, <1>2 DEF Failures
<1>4. ExecuteCvd
    BY DEF Serial
<1>5. ASSUME NEW out \in launch(i) PROVE out.live \ {i} = live \ {i}
    <2> DEFINE before == {live \ {i}}
               free == {l \in before : l \cap SameNumber(i) = {}}
               made == {l \cup {i} : l \in free}
    <2>1. \/ out \in Outcomes({"ok"}, made)
          \/ out \in Outcomes({"fail"}, before \ free)
          \/ out \in Failures(before \cup made)
        BY <1>5, <1>1, <1>4 DEF launch
    <2>2. \A l \in before \cup made : l \ {i} = live \ {i}
        OBVIOUS
    <2>3. before \ free \subseteq before
        OBVIOUS
    <2> HIDE DEF before, free, made
    <2>4. out.live \in before \cup made
        BY <2>1, <2>3, <1>2, <1>3
    <2> QED  BY <2>2, <2>4
<1>6. ASSUME NEW out \in stop(i) PROVE out.live \ {i} = live \ {i}
    <2>1. out \in Outcomes({"ok"}, {live \ {i}}) \/ out \in Failures({live, live \ {i}})
        BY <1>6, <1>1, <1>4 DEF stop
    <2>2. out.live \in {live, live \ {i}}
        BY <2>1, <1>2, <1>3
    <2> QED  BY <2>2
<1>7. ASSUME NEW out \in waitReady(i) PROVE out.live = live /\ (out.res = "ok" => i \in live)
    <2>1. CASE i \in live
        <3>1. out \in Outcomes({"ok"}, {live}) \/ out \in Failures({live})
            BY <1>7, <1>1, <1>4, <2>1 DEF waitReady
        <3> QED  BY <3>1, <2>1, <1>2, <1>3
    <2>2. CASE i \notin live
        <3>1. out \in Outcomes({"fail"}, {live}) \/ out \in Failures({live})
            BY <1>7, <1>1, <1>4, <2>2 DEF waitReady
        <3> QED  BY <3>1, <1>2, <1>3
    <2> QED  BY <2>1, <2>2
<1>8. ASSUME NEW out \in ensureImage PROVE out.live = live
    <2>1. out \in Outcomes({"ok"}, {live}) \/ out \in Failures({live})
        BY <1>8 DEF ensureImage
    <2> QED  BY <2>1, <1>2, <1>3
<1>9. ASSUME NEW out \in Outcomes({"ok"}, clearStaleGroup(i)) \cup Outcomes({"expired"}, clearStaleGroup(i))
      PROVE  out.live = live \ {i}
    BY <1>9, <1>1, <1>2
<1> QED  BY <1>5, <1>6, <1>7, <1>8, <1>9

\* A request whose worker owes its instance a settled state works on a row.
LEMMA OwedRow ==
    ASSUME TypeOK, SerialInv, NEW o \in Ops, pc[o] \in Owing
    PROVE  /\ pc[o] \in Busy /\ target[o] \in Instances /\ target[o] \in Rows
           /\ provisioned[target[o]] /\ st[target[o]] \in Transitional
<1>1. pc[o] \in Busy /\ pc[o] # "idle"
    BY DEF Owing, Busy, HandlerPcs, WorkerPcs
<1>2. target[o] \in Instances
    BY <1>1 DEF TypeOK
<1>3. provisioned[target[o]] /\ st[target[o]] \in Transitional
    BY <1>1 DEF SerialInv, HeldRows
<1> QED  BY <1>1, <1>2, <1>3 DEF Transitional, Rows

LEMMA CommandMoves ==
    ASSUME TypeOK, SerialInv, NEW o \in Ops, NEW from \in Owing, NEW to \in Owing \cap WorkerPcs,
           NEW outcomes, Command(o, from, outcomes, to),
           \A out \in outcomes :
               /\ out.res \in {"ok", "fail", "expired"}
               /\ out.live \ {target[o]} = live \ {target[o]}
               /\ out.res = "ok" /\ to = "ready" => target[o] \in out.live
               /\ out.res = "ok" /\ to = "remove" => target[o] \notin out.live
    PROVE  SerialInv'
<1>1. PICK out \in outcomes :
          live' = out.live /\ pc' = [pc EXCEPT ![o] = IF out.res = "ok" THEN to ELSE out.res]
    BY DEF Command, Goto
<1>2. pc[o] = from /\ UNCHANGED <<st, provisioned, target, todo>>
    BY DEF Command, rowVars, reqVars
<1> DEFINE q == IF out.res = "ok" THEN to ELSE out.res
<1>3. q \in Pcs /\ q \notin {"check", "accepted", "opened"}
    BY <1>1 DEF Pcs, WorkerPcs, EndPcs
<1>4. (q = "ready" => target[o] \in live') /\ (q = "remove" => target[o] \notin live')
    BY <1>1
<1>5. pc' = [pc EXCEPT ![o] = q]
    BY <1>1
<1> HIDE DEF q
<1>6. /\ pc[o] \in Busy /\ target[o] \in Instances /\ target[o] \in Rows
      /\ st[target[o]] \in Transitional
    BY <1>2, OwedRow
<1>7. live' \ {target[o]} = live \ {target[o]} /\ live \subseteq Instances /\ DOMAIN st = Instances
    BY <1>1 DEF TypeOK
<1>8. live' \subseteq Instances /\ \A i \in Instances : i # target[o] => (i \in live' <=> i \in live)
    BY <1>6, <1>7
<1>9. Rows' = Rows
    BY <1>2 DEF Rows
<1>10. st'[target[o]] \in Transitional /\ st'[target[o]] # "running"
    BY <1>2, <1>6 DEF Transitional
<1> QED  BY <1>2, <1>3, <1>4, <1>5, <1>6, <1>7, <1>8, <1>9, <1>10, RequestMoves

\* A write leaves the VMs alone; only MarkRunning says running.
LEMMA WriteMoves ==
    ASSUME TypeOK, SerialInv, NEW o \in Ops, NEW from \in Owing, NEW to \in WorkerPcs,
           NEW s \in States, Write(o, from, s, to), to # "ready", to # "remove",
           to \in Owing => s \in Transitional, s = "running" => from = "ready"
    PROVE  SerialInv'
<1>1. /\ pc[o] = from /\ pc' = [pc EXCEPT ![o] = to]
      /\ st' = [st EXCEPT ![target[o]] = IF target[o] \in Rows THEN s ELSE @]
      /\ UNCHANGED <<provisioned, target, todo, live>>
    BY DEF Write, Goto, UpdateInstanceState, reqVars
<1>2. pc[o] \in Busy /\ target[o] \in Instances /\ target[o] \in Rows
    BY <1>1, OwedRow
<1>3. live \subseteq Instances /\ DOMAIN st = Instances /\ st \in [Instances -> States \cup {"unborn", "gone"}]
    BY DEF TypeOK
<1>4. st'[target[o]] = s /\ DOMAIN st' = Instances /\ \A i \in Instances : i # target[o] => st'[i] = st[i]
    BY <1>1, <1>2, <1>3
<1>5. target[o] \in Rows'
    BY <1>2, <1>4 DEF Rows, States
<1>6. s = "running" => target[o] \in live
    BY <1>1 DEF SerialInv, HeldRows
<1>7. to \in Pcs /\ to \notin {"check", "accepted", "opened"}
    BY DEF Pcs, WorkerPcs
<1> QED  BY <1>1, <1>2, <1>3, <1>4, <1>5, <1>6, <1>7, RequestMoves

\* A step that writes neither rows nor VMs
LEMMA QuietMoves ==
    ASSUME TypeOK, SerialInv, NEW o \in Ops, pc[o] \in Busy, NEW q \in Pcs,
           pc' = [pc EXCEPT ![o] = q], UNCHANGED <<st, provisioned, target, todo, live>>,
           q \in {"check", "accepted", "opened"} => pc[o] \in {"check", "accepted", "opened"},
           q \in Owing => pc[o] \in Owing, q # "ready", q # "remove"
    PROVE  SerialInv'
<1>1. target[o] \in Instances /\ todo = {} /\ live \subseteq Instances /\ DOMAIN st = Instances
    BY DEF TypeOK, SerialInv, OneAtATime, Busy, HandlerPcs, WorkerPcs
<1>2. Rows' = Rows
    BY DEF Rows
<1>3. target[o] \in live => target[o] \in Rows
    BY DEF SerialInv, VmsHaveRows
<1>4. st[target[o]] = "running" => target[o] \in live
    BY <1>1 DEF SerialInv, RunningIsReal, Rows
<1>5. /\ q \in {"check", "accepted", "opened"} => target[o] \in Rows
      /\ q \in Owing => st[target[o]] \in Transitional
    BY DEF SerialInv, HeldRows
<1> QED  BY <1>1, <1>2, <1>3, <1>4, <1>5, RequestMoves

\* A request is accepted when no other one for its instance is in progress.
LEMMA AcceptAlone ==
    ASSUME Serial, SerialInv, NEW o \in Ops, NEW k, NEW i \in Instances, NEW to,
           Accept(o, k, i, to)
    PROVE  todo = {} /\ \A w \in Ops : pc[w] \in Busy => target[w] # i
<1>1. todo = {} /\ Cardinality(InProgress(i)) < 1
    BY DEF Accept, Serving, Serial
<1> SUFFICES ASSUME NEW w \in Ops, pc[w] \in Busy, target[w] = i PROVE FALSE
    BY <1>1
<1>2. InProgress(i) = {w}
    BY DEF InProgress, SerialInv, OneAtATime, Busy
<1>3. Cardinality({w}) = 1
    BY FS_Singleton
<1> QED  BY <1>1, <1>2, <1>3

LEMMA AcceptMoves ==
    ASSUME Serial, TypeOK, PortInv, SerialInv, NEW o \in Ops, NEW k \in Kinds, NEW i \in Instances,
           CreateInstance(o, i) \/ Request(o, k, i)
    PROVE  SerialInv'
<1>1. /\ todo = {} /\ \A w \in Ops : pc[w] \in Busy => target[w] # i
      /\ todo' = todo /\ live' = live
    BY AcceptAlone DEF CreateInstance, Request
<1>2. \E to \in {"check", "accepted"} :
          pc' = [pc EXCEPT ![o] = to] /\ target' = [target EXCEPT ![o] = i] /\ pc[o] = "idle"
    BY DEF CreateInstance, Request, Accept, Goto
<1>3. /\ st' = [st EXCEPT ![i] = "stopped"] \/ (st' = st /\ i \in Rows)
      /\ provisioned' = [provisioned EXCEPT ![i] = TRUE] \/ (provisioned' = provisioned /\ provisioned[i])
      /\ st' # st => st[i] = "unborn"
    BY DEF CreateInstance, Request, rowVars
<1>4. /\ st \in [Instances -> States \cup {"unborn", "gone"}] /\ provisioned \in [Instances -> BOOLEAN]
      /\ pc \in [Ops -> Pcs] /\ target \in [Ops -> Instances \cup {None}] /\ live \subseteq Instances
    BY DEF TypeOK
<1>5. /\ pc'[o] \in {"check", "accepted"} /\ target'[o] = i
      /\ \A w \in Ops : w # o => pc'[w] = pc[w] /\ target'[w] = target[w]
    BY <1>2, <1>4
<1>6. /\ i \in Rows' /\ provisioned'[i]
      /\ st'[i] = st[i] \/ (st'[i] = "stopped" /\ st[i] = "unborn")
      /\ \A j \in Instances : j # i => st'[j] = st[j] /\ provisioned'[j] = provisioned[j]
    BY <1>3, <1>4 DEF Rows
<1>7. \A j \in Instances : j # i => (j \in Rows' <=> j \in Rows)
    BY <1>6 DEF Rows
<1>8. \A w \in Ops : pc[w] \in Busy => target[w] \in Instances \ {i}
    BY <1>1 DEF TypeOK, Busy, HandlerPcs, WorkerPcs
<1>9. OneAtATime'
    <2>1. \A w \in Ops : w # o /\ pc'[w] \in Busy => target'[w] # i
        BY <1>1, <1>5
    <2> QED  BY <2>1, <1>1, <1>5 DEF SerialInv, OneAtATime
<1>10. HeldRows'
    <2> SUFFICES ASSUME NEW w \in Ops
                 PROVE  /\ pc'[w] \in Busy => provisioned'[target'[w]]
                        /\ pc'[w] \in {"check", "accepted", "opened"} => target'[w] \in Rows'
                        /\ pc'[w] \in Owing => st'[target'[w]] \in Transitional
                        /\ pc'[w] = "ready" => target'[w] \in live'
                        /\ pc'[w] = "remove" => target'[w] \notin live'
        BY DEF HeldRows
    <2>1. CASE w = o
        BY <2>1, <1>5, <1>6 DEF Owing
    <2>2. CASE w # o /\ pc[w] \in Busy
        BY <2>2, <1>1, <1>5, <1>6, <1>7, <1>8 DEF SerialInv, HeldRows
    <2>3. CASE w # o /\ pc[w] \notin Busy
        BY <2>3, <1>5 DEF Busy, HandlerPcs, WorkerPcs, Owing
    <2> QED  BY <2>1, <2>2, <2>3
<1>11. VmsHaveRows'
    BY <1>1, <1>4, <1>6, <1>7 DEF SerialInv, VmsHaveRows, Rows
<1>12. RunningIsReal'
    BY <1>1, <1>6, <1>7 DEF SerialInv, RunningIsReal, Rows
<1> QED  BY <1>9, <1>10, <1>11, <1>12 DEF SerialInv

LEMMA SerialNext ==
    ASSUME Serial, TypeOK, PortInv, SerialInv, [Next]_vars
    PROVE  SerialInv'
<1>1. ASSUME NEW o \in Ops, NEW k \in Kinds, NEW i \in Instances, CreateInstance(o, i) \/ Request(o, k, i)
      PROVE  SerialInv'
    BY <1>1, AcceptMoves
<1>2. ASSUME NEW o \in Ops, HandlerStep(o) PROVE SerialInv'
    <2>1. CASE CheckDeploy(o) \/ OpenOperation(o)
        <3>1. PICK q \in {"accepted", "rejected", "opened"} :
                  /\ pc[o] \in {"check", "accepted"} /\ pc' = [pc EXCEPT ![o] = q]
                  /\ UNCHANGED <<st, provisioned, target, todo, live>>
            BY <2>1 DEF CheckDeploy, OpenOperation, Goto, rowVars, reqVars
        <3> QED  BY <3>1, QuietMoves DEF Busy, Pcs, HandlerPcs, EndPcs, Owing
    <2>2. CASE MarkPending(o)
        <3>1. /\ pc[o] = "opened" /\ pc' = [pc EXCEPT ![o] = "marked"]
              /\ st' = [st EXCEPT ![target[o]] = IF target[o] \in Rows THEN PendingState(kind[o]) ELSE @]
              /\ UNCHANGED <<provisioned, target, todo, live>>
            BY <2>2 DEF MarkPending, UpdateInstanceState, Goto, reqVars
        <3>2. /\ target[o] \in Instances /\ target[o] \in Rows /\ kind[o] \in Kinds
              /\ live \subseteq Instances /\ st \in [Instances -> States \cup {"unborn", "gone"}]
            BY <3>1 DEF TypeOK, SerialInv, HeldRows
        <3>3. PendingState(kind[o]) \in Transitional
            BY <3>2 DEF PendingState, Kinds, Transitional
        <3>4. /\ st'[target[o]] \in Transitional /\ DOMAIN st' = Instances
              /\ \A i \in Instances : i # target[o] => st'[i] = st[i]
            BY <3>1, <3>2, <3>3
        <3>5. target[o] \in Rows' /\ st'[target[o]] # "running"
            BY <3>2, <3>4 DEF Rows, Transitional
        <3> QED  BY <3>1, <3>2, <3>4, <3>5, RequestMoves DEF Busy, Pcs, HandlerPcs
    <2>3. CASE SpawnWorker(o)
        <3>1. pc[o] = "marked" /\ UNCHANGED <<st, provisioned, target, todo, live>>
            BY <2>3 DEF SpawnWorker, rowVars, reqVars
        <3>2. kind[o] \in Kinds
            BY <3>1 DEF TypeOK
        <3>3. WorkerEntry(kind[o], st[target[o]]) \in {"begin", "stop", "release"}
            BY <3>2 DEF WorkerEntry, Kinds
        <3>4. PICK q \in {"begin", "stop", "release", "orphaned"} : pc' = [pc EXCEPT ![o] = q]
            BY <2>3, <3>3 DEF SpawnWorker, Goto
        <3> QED  BY <3>1, <3>4, QuietMoves DEF Busy, Pcs, HandlerPcs, WorkerPcs, EndPcs, Owing
    <2> QED  BY <1>2, <2>1, <2>2, <2>3 DEF HandlerStep
<1>3. ASSUME NEW o \in Ops, AbortRequest(o) \/ DeadlinePasses(o) PROVE SerialInv'
    <2>1. PICK q \in {"aborted", "expired"} :
              /\ pc[o] \in Busy /\ pc' = [pc EXCEPT ![o] = q]
              /\ UNCHANGED <<st, provisioned, target, todo, live>>
        BY <1>3 DEF AbortRequest, DeadlinePasses, Goto, Busy, rowVars, reqVars
    <2> QED  BY <2>1, QuietMoves DEF Pcs, EndPcs, Owing
<1>4. ASSUME NEW o \in Ops, WorkerStep(o) PROVE SerialInv'
    <2>1. CASE Begin(o)
        <3>1. PICK q \in {"image", "launch"} :
                  /\ pc[o] = "begin" /\ pc' = [pc EXCEPT ![o] = q]
                  /\ UNCHANGED <<st, provisioned, target, todo, live>>
            BY <2>1 DEF Begin, Goto, rowVars, reqVars
        <3> QED  BY <3>1, QuietMoves DEF Busy, Pcs, WorkerPcs, Owing
    <2>2. CASE RowVanished(o) \/ FinishOperation(o)
        <3>1. PICK q \in {"failOp", "done"} :
                  /\ pc[o] \in WorkerPcs /\ pc' = [pc EXCEPT ![o] = q]
                  /\ UNCHANGED <<st, provisioned, target, todo, live>>
            BY <2>2 DEF RowVanished, RereadPcs, FinishOperation, Goto, WorkerPcs, rowVars, reqVars
        <3> QED  BY <3>1, QuietMoves DEF Busy, Pcs, WorkerPcs, EndPcs, Owing
    <2>3. CASE MarkStarting(o) \/ MarkBooting(o) \/ MarkRunning(o) \/ MarkStopped(o) \/ MarkError(o)
        <3>1. CASE MarkStarting(o)
            BY <3>1, WriteMoves DEF MarkStarting, Owing, WorkerPcs, States, Transitional
        <3>2. CASE MarkBooting(o)
            BY <3>2, WriteMoves DEF MarkBooting, Owing, WorkerPcs, States, Transitional
        <3>3. CASE MarkRunning(o)
            BY <3>3, WriteMoves DEF MarkRunning, Owing, WorkerPcs, States
        <3>4. CASE MarkStopped(o)
            BY <3>4, WriteMoves DEF MarkStopped, Owing, WorkerPcs, States
        <3>5. CASE MarkError(o)
            BY <3>5, WriteMoves DEF MarkError, Owing, WorkerPcs, States
        <3> QED  BY <2>3, <3>1, <3>2, <3>3, <3>4, <3>5
    <2>4. ASSUME EnsureImage(o) \/ Launch(o) \/ WaitReady(o) \/ Stop(o) \/ Release(o) PROVE SerialInv'
        <3>1. pc[o] \in Owing
            BY <2>4 DEF EnsureImage, Launch, WaitReady, Stop, Release, Command, Owing
        <3>2. target[o] \in Rows /\ provisioned[target[o]] /\ target[o] \in Instances
            BY <3>1, OwedRow
        <3>3. CASE EnsureImage(o)
            BY <3>2, <3>3, OutcomesType, CommandEffects, CommandMoves DEF EnsureImage, Owing, WorkerPcs
        <3>4. CASE Launch(o)
            BY <3>2, <3>4, OutcomesType, CommandEffects, CommandMoves DEF Launch, Owing, WorkerPcs
        <3>5. CASE WaitReady(o)
            BY <3>2, <3>5, OutcomesType, CommandEffects, CommandMoves DEF WaitReady, Owing, WorkerPcs
        <3>6. CASE Stop(o)
            BY <3>2, <3>6, OutcomesType, CommandEffects, CommandMoves DEF Stop, Owing, WorkerPcs
        <3>7. CASE Release(o)
            BY <3>2, <3>7, ReleaseOutcomes, CommandEffects, CommandMoves DEF Release, Owing, WorkerPcs
        <3> QED  BY <2>4, <3>3, <3>4, <3>5, <3>6, <3>7
    <2>5. CASE Remove(o)
        <3>1. pc[o] = "remove" /\ UNCHANGED <<provisioned, target, todo, live>>
            BY <2>5 DEF Remove, reqVars
        <3>2. /\ pc[o] \in Busy /\ target[o] \in Instances /\ target[o] \in Rows /\ target[o] \notin live
              /\ live \subseteq Instances /\ st \in [Instances -> States \cup {"unborn", "gone"}]
            BY <3>1, OwedRow DEF Owing, TypeOK, SerialInv, HeldRows
        <3>3. pc' = [pc EXCEPT ![o] = "finish"] /\ st' = [st EXCEPT ![target[o]] = "gone"]
            BY <2>5, <3>2 DEF Remove, Goto
        <3> QED  BY <3>1, <3>2, <3>3, RequestMoves DEF Pcs, WorkerPcs, Owing
    <2> QED  BY <1>4, <2>1, <2>2, <2>3, <2>4, <2>5 DEF WorkerStep
<1>5. ASSUME NEW i \in Instances, RegisterDevice(i) \/ DeleteRegistration(i) PROVE SerialInv'
    <2>1. /\ UNCHANGED <<provisioned, pc, target, todo, live>> /\ ~provisioned[i]
          /\ st' = [st EXCEPT ![i] = "offline"] \/ st' = [st EXCEPT ![i] = "gone"]
          /\ st \in [Instances -> States \cup {"unborn", "gone"}] /\ live \subseteq Instances
        BY <1>5 DEF RegisterDevice, DeleteRegistration, PortInv, TypeOK, reqVars
    <2>2. /\ st'[i] \in {"offline", "gone"}
          /\ \A j \in Instances : j # i => st'[j] = st[j] /\ (j \in Rows' <=> j \in Rows)
        BY <2>1 DEF Rows
    <2>3. \A o \in Ops : pc[o] \in Busy => target[o] \in Instances /\ target[o] # i
        BY <2>1 DEF TypeOK, SerialInv, HeldRows, Busy, HandlerPcs, WorkerPcs
    <2>4. HeldRows'
        <3> SUFFICES ASSUME NEW w \in Ops
                     PROVE  /\ pc[w] \in Busy => provisioned[target[w]]
                            /\ pc[w] \in {"check", "accepted", "opened"} => target[w] \in Rows'
                            /\ pc[w] \in Owing => st'[target[w]] \in Transitional
                            /\ pc[w] = "ready" => target[w] \in live
                            /\ pc[w] = "remove" => target[w] \notin live
            BY <2>1 DEF HeldRows
        <3>1. CASE pc[w] \in Busy
            BY <3>1, <2>2, <2>3 DEF SerialInv, HeldRows
        <3>2. CASE pc[w] \notin Busy
            BY <3>2 DEF Busy, HandlerPcs, WorkerPcs, Owing
        <3> QED  BY <3>1, <3>2
    <2>5. OneAtATime'
        BY <2>1 DEF SerialInv, OneAtATime
    <2>6. i \notin live
        BY <2>1 DEF SerialInv, VmsHaveRows
    <2>7. VmsHaveRows'
        BY <2>1, <2>2, <2>6 DEF SerialInv, VmsHaveRows, Rows
    <2>8. RunningIsReal'
        BY <2>1, <2>2 DEF SerialInv, RunningIsReal, Rows
    <2> QED  BY <2>4, <2>5, <2>7, <2>8 DEF SerialInv
<1>6. ASSUME NEW i \in Instances, VmDies(i) PROVE SerialInv'
    BY <1>6 DEF VmDies, Serial
<1>7. ASSUME NEW i \in Instances, Reconcile(i) PROVE SerialInv'
    <2>1. PICK s \in Reconciled(i) : st' = [st EXCEPT ![i] = s]
        BY <1>7 DEF Reconcile
    <2>2. i \in todo /\ todo' = todo \ {i} /\ UNCHANGED <<provisioned, pc, target, live>>
        BY <1>7 DEF Reconcile, reqVars
    <2>3. \A o \in Ops : pc[o] \notin Busy
        BY <2>2 DEF SerialInv, OneAtATime
    <2>4. st \in [Instances -> States \cup {"unborn", "gone"}] /\ live \subseteq Instances
        BY DEF TypeOK
    <2>5. /\ s = st[i] \/ (st[i] \in {"starting", "booting", "running", "stopping", "deleting"}
                            /\ s \in {"running", "error"})
          /\ s = "running" => st[i] \in {"starting", "booting", "running"} /\ Reachable(i)
        BY DEF Reconciled, Serial
    <2>6. s = "running" => i \in live
        <3> SUFFICES ASSUME s = "running" PROVE i \in live
            OBVIOUS
        <3>1. i \in Rows /\ st[i] # "offline"
            BY <2>5 DEF Rows
        <3>2. provisioned[i]
            BY <3>1 DEF SerialInv, VmsHaveRows
        <3> QED  BY <3>1, <3>2, <2>5, OwnGroup
    <2>7. st'[i] = s /\ \A j \in Instances : j # i => st'[j] = st[j]
        BY <2>1, <2>4
    <2>8. \A j \in Instances : j \in Rows' <=> j \in Rows
        BY <2>5, <2>7 DEF Rows
    <2>9. OneAtATime' /\ HeldRows'
        BY <2>2, <2>3 DEF OneAtATime, HeldRows, Busy, HandlerPcs, WorkerPcs, Owing
    <2>10. VmsHaveRows'
        BY <2>2, <2>4, <2>5, <2>7, <2>8 DEF SerialInv, VmsHaveRows, Rows
    <2>11. RunningIsReal'
        BY <2>2, <2>6, <2>7, <2>8 DEF SerialInv, RunningIsReal, Rows
    <2> QED  BY <2>9, <2>10, <2>11 DEF SerialInv
<1>8. CASE Crash
    <2>1. \A o \in Ops : pc'[o] \notin Busy
        BY <1>8 DEF Crash, Busy, HandlerPcs, WorkerPcs, TypeOK
    <2>2. UNCHANGED <<st, provisioned, target, live>> /\ todo' = Rows
        BY <1>8 DEF Crash, rowVars, reqVars
    <2>3. OneAtATime' /\ HeldRows'
        BY <2>1, <2>2 DEF OneAtATime, HeldRows, Busy, HandlerPcs, WorkerPcs, Owing
    <2>4. VmsHaveRows' /\ RunningIsReal'
        BY <2>2 DEF SerialInv, VmsHaveRows, RunningIsReal, Rows
    <2> QED  BY <2>3, <2>4 DEF SerialInv
<1>9. CASE UNCHANGED vars
    BY <1>9 DEF vars, SerialInv, OneAtATime, HeldRows, VmsHaveRows, RunningIsReal, Rows
<1> QED  BY <1>1, <1>2, <1>3, <1>4, <1>5, <1>6, <1>7, <1>8, <1>9 DEF Next, Kinds

LEMMA SerialAlways == ASSUME Serial PROVE Spec => []SerialInv
<1>1. Init => PortInv /\ SerialInv
    BY DEF Init, PortInv, PortsDistinct, SerialInv, OneAtATime, HeldRows, VmsHaveRows,
           RunningIsReal, Rows, Busy, HandlerPcs, WorkerPcs, Owing
<1>2. TypeOK /\ PortInv /\ SerialInv /\ [Next]_vars => SerialInv'
    BY SerialNext
<1> QED  BY <1>1, <1>2, TypeCorrect, PortNext, PTL DEF Spec

\* RunningIsReal for any instances, requests and restarts: while the requests
\* for one instance do not overlap, a row that says running has its own VM up,
\* whatever command failed, ran out of time or was cancelled before.
THEOREM RunningRowsAreReal == ASSUME Serial PROVE Spec => []RunningIsReal
<1>1. SerialInv => RunningIsReal
    BY DEF SerialInv
<1> QED  BY <1>1, SerialAlways, PTL

\* DeletedIsDown under the same conditions: the row goes only after its VM.
THEOREM DeletedInstancesAreDown == ASSUME Serial PROVE Spec => []DeletedIsDown
<1>1. SerialInv => DeletedIsDown
    BY DEF SerialInv, VmsHaveRows, DeletedIsDown, Rows
<1> QED  BY <1>1, SerialAlways, PTL

=============================================================================
