----------------------------- MODULE DeviceTools -----------------------------
(***************************************************************************)
(* One call of a device tool, from the MCP endpoint or the control API,    *)
(* down to the adb and tunnel commands it sends.                           *)
(*                                                                         *)
(* A call settles on a device once, then makes one or more operations of   *)
(* devicecontrol.Service. Each operation reads the row again, checks that  *)
(* the device may be driven, and sends its commands to the address the row *)
(* had: a loopback port for a VM, a serial or host:port for a handset, the *)
(* tunnel for a desktop. Meanwhile another client selects another device,  *)
(* VMs stop, are deleted and hand their port on, handsets and runners come *)
(* and go, the adb server loses connections, and displays are resized.     *)
(***************************************************************************)
EXTENDS Naturals, Sequences

CONSTANTS
    Vms,          \* Cuttlefish instances, all contending for one loopback port
    Phones,       \* handsets
    TcpPhones,    \* those of them adb is connected to by host:port, not by USB
    Desktops,
    Port,         \* that port, as an adb address
    Nobody,
    InputSizes,   \* values of `wm size`
    FirstSize,    \* the one Android devices start with
    ShotSize,     \* what screencap gives, and a desktop's only size
    Execute,      \* OPENCUTTLES_EXECUTE_CVD
    MaxMoves      \* bound on what happens beside the call

Android == Vms \cup Phones
Targets == Android \cup Desktops

ASSUME ToolsAssumption ==
    /\ Vms \cap Phones = {} /\ TcpPhones \subseteq Phones /\ Desktops \cap Android = {}
    /\ Nobody \notin Targets \cup {Port} /\ Port \notin Targets
    /\ {FirstSize, ShotSize} \subseteq InputSizes /\ Execute \in BOOLEAN /\ MaxMoves \in Nat

VARIABLES
    active,      \* Service.active
    target,      \* rows: "none", or the state
    ported,      \* the VM whose row holds the port
    there,       \* handsets that answer, runners connected
    known,       \* host:port addresses the adb server has a connection to
    inputSize,
    call,
    sent,        \* what became of the command sent last
    moves

toolVars == <<active, target, ported, there, known, inputSize, call, sent, moves>>

-----------------------------------------------------------------------------
(* Operations and tools.                                                   *)

Hard(n) == [i \in 1..n |-> "hard"]
Soft(n) == [i \in 1..n |-> "soft"]

Primitives == {"Screenshot", "Tap", "Click", "DoubleClick", "Scroll", "Swipe", "Text", "Key"}
AdbOnly == {"UITree", "LaunchApp", "InstallAPK", "Rotate", "Shell", "Logcat",
            "StartRecording", "StopRecording"}
RunnerOnly == {"RightClick", "Chord", "OpenApp"}
Queries == {"ListApps", "CurrentActivity", "InputSize", "Perf"}
Operations == Primitives \cup AdbOnly \cup RunnerOnly \cup Queries \cup {"ScrollAtEdge"}

\* The adb commands of an operation, as whether their failure ends it
AdbScript(op, d) ==
    CASE op \in {"DoubleClick", "Rotate"} -> Hard(2)
      [] op = "ScrollAtEdge"              -> <<>>
      [] op = "Perf"                      -> Soft(2)
      [] op = "StartRecording"            -> Soft(1) \o Hard(1)
      [] op = "StopRecording"             -> Soft(1) \o Hard(1) \o Soft(1)
      \* disableInstallVerification, on what the appliance provisions
      [] op = "InstallAPK"                -> (IF d \in Vms THEN Soft(2) ELSE <<>>) \o Hard(1)
      [] OTHER                            -> Hard(1)

\* A desktop is asked over the tunnel; InputSize has nothing to ask, and Perf
\* drops what adb refuses
RunnerScript(op) == IF op \in {"InputSize", "Perf"} THEN <<>> ELSE Hard(1)

Script(op, d) == IF d \in Android THEN AdbScript(op, d) ELSE RunnerScript(op)

Unsupported(op, d) == op \in IF d \in Android THEN RunnerOnly ELSE AdbOnly

\* The operations each tool makes, in order
InputPlans ==
    [get_ui_tree      |-> {<<"UITree">>},
     scroll           |-> {<<"Scroll">>, <<"ScrollAtEdge">>, <<"InputSize", "Scroll">>},
     click            |-> {<<"Click">>, <<"DoubleClick">>, <<"RightClick">>},
     press_chord      |-> {<<"Chord">>},
     type_text        |-> {<<"Text">>},
     press_key        |-> {<<"Key">>}]
AppPlans ==
    [launch_app       |-> {<<"LaunchApp">>},
     open_app         |-> {<<"LaunchApp">>, <<"OpenApp">>},
     list_apps        |-> {<<"ListApps">>},
     current_activity |-> {<<"CurrentActivity">>}]
ScreenPlans ==
    [tap_element      |-> {<<"Screenshot", "InputSize", "Tap">>},
     tap              |-> {<<"Tap">>},
     find_element     |-> {<<"Screenshot", "InputSize">>},
     ask_screen       |-> {<<"Screenshot">>}]

\* The handlers of the control API make one operation each
ControlPlans == [api |-> {<<op>> : op \in Operations \ {"ScrollAtEdge"}}]

Tools == UNION {DOMAIN InputPlans, DOMAIN AppPlans, DOMAIN ScreenPlans, DOMAIN ControlPlans}
Plans == [tool \in Tools |->
    CASE tool \in DOMAIN InputPlans   -> InputPlans[tool]
      [] tool \in DOMAIN AppPlans     -> AppPlans[tool]
      [] tool \in DOMAIN ScreenPlans  -> ScreenPlans[tool]
      [] tool \in DOMAIN ControlPlans -> ControlPlans[tool]]

\* Those that read the row themselves, for the platform or the display
ReadsRow == {"get_ui_tree", "launch_app", "open_app", "scroll"}

\* requireAndroidDevice, and the branch of open_app
Allowed(tool, plan, d) ==
    CASE tool \in {"get_ui_tree", "launch_app"} -> d \in Android
      [] tool = "open_app" -> plan = IF d \in Android THEN <<"LaunchApp">> ELSE <<"OpenApp">>
      [] OTHER -> TRUE

\* Those that ask the vision model; past its checks a call is its operations,
\* whichever of the others it was
Visual == {"tap_element", "find_element", "ask_screen"}
Kept(tool) == IF tool \in Visual THEN tool ELSE "api"

-----------------------------------------------------------------------------

TcpAddresses == TcpPhones \cup {Port}

NoCall == [pc |-> "new", tool |-> "api", dev |-> Nobody, meant |-> Nobody,
           plan |-> <<>>, script |-> <<>>, addr |-> Nobody, scale |-> ShotSize,
           read |-> FALSE, moved |-> FALSE, resized |-> FALSE]
Unsent == [op |-> "Perf", to |-> Nobody, runs |-> 0, denied |-> FALSE, point |-> ShotSize]

ToolsTypeOK ==
    /\ active \in Targets \cup {Nobody}
    /\ target \in [Targets -> {"none", "running", "stopped", "online", "offline"}]
    /\ ported \in Vms \cup {Nobody} /\ there \subseteq Phones \cup Desktops
    /\ known \subseteq TcpAddresses /\ inputSize \in [Targets -> InputSizes]
    /\ call.pc \in {"new", "check", "gate", "send", "ok", "error"}
    /\ call.tool \in Tools
    /\ call.dev \in Targets \cup {Nobody} /\ call.meant \in Targets \cup {Nobody}
    /\ call.plan \in Seq(Operations) /\ call.script \in Seq({"hard", "soft"})
    /\ call.addr \in Targets \cup {Port, Nobody} /\ call.scale \in InputSizes
    /\ call.read \in BOOLEAN /\ call.moved \in BOOLEAN /\ call.resized \in BOOLEAN
    /\ sent.op \in Operations /\ sent.to \in Targets \cup {Nobody} /\ sent.runs \in 0..2
    /\ sent.denied \in BOOLEAN /\ sent.point \in InputSizes
    /\ moves \in 0..MaxMoves

ToolsInit ==
    /\ active \in Targets \cup {Nobody}
    /\ ported \in Vms \cup {Nobody}
    /\ \E up \in SUBSET Targets :
        /\ up \cap Vms \subseteq {ported}
        /\ target = [d \in Targets |->
            CASE d \in Vms /\ d = ported -> IF d \in up THEN "running" ELSE "stopped"
              [] d \in Vms /\ d # ported -> "none"
              [] OTHER -> IF d \in up THEN "online" ELSE "offline"]
        /\ there = up \ Vms
    /\ known \in {{}, (TcpPhones \cap there) \cup IF ported = Nobody THEN {} ELSE {Port}}
    /\ inputSize = [d \in Targets |-> IF d \in Android THEN FirstSize ELSE ShotSize]
    /\ call = NoCall /\ sent = Unsent /\ moves = 0

-----------------------------------------------------------------------------
(* The call.                                                               *)

End(c, how) == [NoCall EXCEPT !.pc = how, !.tool = c.tool, !.meant = c.meant, !.read = c.read,
                              !.moved = c.moved, !.resized = c.resized]

Reachable == {d \in Targets : target[d] \in {"running", "online"}}

\* resolveDevice: the device named, or the active one, or the only one reachable
resolveDevice(named) ==
    CASE named # Nobody                      -> named
      [] named = Nobody /\ active # Nobody   -> active
      [] OTHER -> IF \E d \in Targets : Reachable = {d}
                  THEN CHOOSE d \in Targets : Reachable = {d} ELSE Nobody

\* A tool checks an id it was given; the API's handlers take the one in the path
Call(tool, plan, named) ==
    /\ call.pc = "new"
    /\ tool = "api" => named # Nobody
    /\ LET d == resolveDevice(named)
           bad == d = Nobody \/ (tool # "api" /\ named # Nobody /\ target[named] = "none")
       IN  call' = IF bad THEN [call EXCEPT !.pc = "error"]
                   ELSE [call EXCEPT !.pc = IF tool \in ReadsRow THEN "check" ELSE "gate",
                                     !.tool = IF tool \in ReadsRow THEN tool ELSE Kept(tool),
                                     !.plan = plan, !.dev = d, !.meant = d]
    /\ UNCHANGED <<active, target, ported, there, known, inputSize, sent, moves>>

CheckRow ==
    /\ call.pc = "check"
    /\ call' = IF target[call.dev] # "none" /\ Allowed(call.tool, call.plan, call.dev)
               THEN [call EXCEPT !.pc = "gate", !.tool = Kept(@)] ELSE End(call, "error")
    /\ UNCHANGED <<active, target, ported, there, known, inputSize, sent, moves>>

\* checkResolvable and driverFor
Resolvable(d) ==
    CASE d \in Vms      -> Execute /\ target[d] = "running" /\ ported = d
      [] d \in Phones   -> target[d] \in {"online", "running"}
      [] d \in Desktops -> target[d] \in {"online", "running"} /\ d \in there

adbTarget(d) == IF d \in Vms THEN Port ELSE d

\* What follows an operation that failed: locate and scroll go on without an
\* input size, everything else returns the error
AfterFailure(c) ==
    IF Head(c.plan) = "InputSize" /\ Len(c.plan) > 1
    THEN [c EXCEPT !.pc = "gate", !.plan = Tail(@), !.script = <<>>]
    ELSE End(c, "error")

Gated(c) ==
    LET op == Head(c.plan)
    IN  IF Resolvable(c.dev) /\ ~Unsupported(op, c.dev)
        THEN [c EXCEPT !.pc = "send", !.script = Script(op, c.dev), !.addr = adbTarget(c.dev),
                       !.moved = FALSE]
        ELSE AfterFailure(c)

\* Fault: every operation asks for the active device again
GateActive ==
    /\ call.pc = "gate"
    /\ call' = Gated([call EXCEPT !.dev = IF active # Nobody THEN active ELSE @])
    /\ sent' = Unsent
    /\ UNCHANGED <<active, target, ported, there, known, inputSize, moves>>

\* resolve, at the start of every operation
Gate ==
    /\ call.pc = "gate"
    /\ call' = Gated(call) /\ sent' = Unsent
    /\ UNCHANGED <<active, target, ported, there, known, inputSize, moves>>

\* Whoever answers at an address now
Occupant(addr) ==
    CASE addr = Port -> IF ported # Nobody /\ target[ported] = "running" THEN ported ELSE Nobody
      [] addr # Port -> IF addr \in there THEN addr ELSE Nobody

Answers == {"ok", "error", "not found"}

\* Fault: whatever fails is tried again
RetryAll(first) == first # "ok"

\* adb reads "not found" in the output of the command as well as in its own
isDeviceNotFound(first) == first = "not found"

\* adb: the command, and once more after `adb connect` when a host:port address was
\* not found. first and second are the answers, ran how often the device ran it.
\* Repeated for nobody, or with a connect that fails, it is as if it had not been.
adb(addr, first, second, ran) ==
    LET d == Occupant(addr)
        live == d # Nobody /\ (addr \in TcpAddresses => addr \in known)
    IN  /\ ~live => first = "not found"
        /\ \E again \in BOOLEAN :
            /\ again => addr \in TcpAddresses /\ isDeviceNotFound(first) /\ d # Nobody
            /\ second = first \/ again
            /\ ran = (IF live THEN 1 ELSE 0) + (IF again THEN 1 ELSE 0)
            /\ known' = known \cup (IF again THEN {addr} ELSE {})

\* The tunnel, which is tried once and may fail after the runner has acted
tunnel(d, first, second, ran) ==
    /\ second = first /\ first # "not found"
    /\ d \notin there => first = "error"
    /\ ran = IF d \in there THEN 1 ELSE 0
    /\ UNCHANGED known

\* Fault: the point is scaled by the size of the picture
ScaleByShot(c, answer, d) == ShotSize

\* locate scales by the input size when it was read, else by the picture
Scale(c, answer, d) ==
    IF Head(c.plan) = "InputSize" /\ answer = "ok" THEN inputSize[d] ELSE c.scale

Send ==
    /\ call.pc = "send" /\ call.script # <<>>
    /\ \E first, second \in Answers, ran \in 0..2 :
        /\ IF call.dev \in Android THEN adb(call.addr, first, second, ran)
                                   ELSE tunnel(call.dev, first, second, ran)
        /\ LET to == IF ran > 0 THEN Occupant(call.addr) ELSE Nobody
           IN  /\ sent' = [op |-> Head(call.plan), to |-> to, runs |-> ran, denied |-> first = "not found",
                           point |-> call.scale]
               /\ call' = IF second # "ok" /\ Head(call.script) = "hard"
                          THEN AfterFailure(call)
                          ELSE [call EXCEPT !.script = Tail(@),
                                !.scale = Scale(call, second, to),
                                !.read = @ \/ (Head(call.plan) = "InputSize" /\ second = "ok"),
                                !.resized = @ /\ Head(call.plan) # "InputSize"]
    /\ UNCHANGED <<active, target, ported, there, inputSize, moves>>

\* The operation is over: the next one, or the answer
EndOperation ==
    /\ call.pc = "send" /\ call.script = <<>>
    /\ call' = IF Len(call.plan) = 1 THEN End(call, "ok")
               ELSE [call EXCEPT !.pc = "gate", !.plan = Tail(@)]
    /\ sent' = Unsent
    /\ UNCHANGED <<active, target, ported, there, known, inputSize, moves>>

\* There is no vision model, it fails, or it does not find the element
NotLocated ==
    /\ call.pc = "gate" /\ call.tool \in Visual
    /\ call' = End(call, "error")
    /\ UNCHANGED <<active, target, ported, there, known, inputSize, sent, moves>>

ToolStep ==
    \/ \E tool \in Tools : \E plan \in Plans[tool] : \E named \in Targets \cup {Nobody} :
            Call(tool, plan, named)
    \/ CheckRow \/ Gate \/ Send \/ EndOperation \/ NotLocated

-----------------------------------------------------------------------------
(* Beside it.                                                              *)

Beside == call.pc \in {"check", "gate", "send"} /\ moves < MaxMoves /\ moves' = moves + 1

\* select_device of another client, or SetActive of a cycle
select_device(d) ==
    /\ Beside /\ d # active /\ target[d] # "none"
    /\ active' = d
    /\ UNCHANGED <<target, ported, there, known, inputSize, call, sent>>

\* A VM is created on the port, starts, stops or is deleted; no id is used again
VmMoves(d, to) ==
    /\ Beside /\ target[d] # to
    /\ \/ to = "running" /\ target[d] = "stopped" /\ UNCHANGED ported
       \/ to = "running" /\ target[d] = "none" /\ ported = Nobody /\ d # call.dev /\ ported' = d
       \/ to = "stopped" /\ target[d] = "running" /\ UNCHANGED ported
       \/ to = "none" /\ ported' = Nobody
    /\ target' = [target EXCEPT ![d] = to]
    /\ call' = [call EXCEPT !.moved = @ \/ (call.dev = d /\ to # "running")]
    /\ UNCHANGED <<active, there, known, inputSize, sent>>

\* A handset comes or goes, a runner dials in or hangs up; the row
\* follows by itself, later
Appears(d) ==
    /\ Beside
    /\ there' = IF d \in there THEN there \ {d} ELSE there \cup {d}
    /\ UNCHANGED <<active, target, ported, known, inputSize, call, sent>>

RowFollows(d) ==
    /\ Beside
    /\ LET state == IF d \in there THEN "online" ELSE "offline"
       IN  target[d] # state /\ target' = [target EXCEPT ![d] = state]
    /\ UNCHANGED <<active, ported, there, known, inputSize, call, sent>>

\* The adb server restarts, or drops a connection
AdbForgets(addr) ==
    /\ Beside /\ addr \in known
    /\ known' = known \ {addr}
    /\ UNCHANGED <<active, target, ported, there, inputSize, call, sent>>

Resized(d, s) ==
    /\ Beside /\ inputSize[d] # s
    /\ inputSize' = [inputSize EXCEPT ![d] = s]
    /\ call' = [call EXCEPT !.resized = @ \/ call.dev = d]
    /\ UNCHANGED <<active, target, ported, there, known, sent>>

\* What happens to other devices makes no difference to the call
BesideStep ==
    \/ \E d \in Targets : select_device(d)
    \/ \E d \in {call.dev} \cap (Phones \cup Desktops) : Appears(d) \/ RowFollows(d)
    \/ \E d \in {call.dev} \cap Android, s \in InputSizes : Resized(d, s)
    \/ \E d \in {call.dev} \cap Android : AdbForgets(adbTarget(d))
    \/ /\ call.dev \in Vms
       /\ \E d \in Vms, to \in {"running", "stopped", "none"} : VmMoves(d, to)

ToolsNext == ToolStep \/ BesideStep
ToolsSpec == ToolsInit /\ [][ToolsNext]_toolVars

-----------------------------------------------------------------------------

\* Whatever other clients select meanwhile, each command of a call reaches the
\* device the call was for, or nothing. The one way past this: the VM stopped
\* after the operation had read its row and its port was handed on.
CommandsKeepTheirDevice == sent.to \in {Nobody, call.meant} \/ call.moved

\* A command runs once on the device: always on a desktop and on a handset on USB.
\* Over a host:port address it runs a second time when the command itself answered
\* with a "not found" of its own, which reads like a connection that was lost.
CommandsRunOnce == sent.runs > 1 => sent.denied /\ sent.to \in Vms \cup TcpPhones

\* A described element is tapped in the space the device takes input in, unless
\* that could not be read or has changed since.
TapsHitTheirElement ==
    sent.op = "Tap" /\ call.tool = "tap_element" /\ sent.to # Nobody
        => \/ sent.point = inputSize[sent.to]
           \/ call.resized \/ call.moved \/ (~call.read /\ sent.to \in Android)

\* What a call sends reaches the device it is for, where it is aimed at, and once,
\* but for a command over a host:port address that answers "not found" itself.
CommandsArriveAsMeant == CommandsKeepTheirDevice /\ CommandsRunOnce /\ TapsHitTheirElement

=============================================================================
