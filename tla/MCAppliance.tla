----------------------------- MODULE MCAppliance -----------------------------
(***************************************************************************)
(* The parts of the appliance and its runners that share no state with     *)
(* each other, checked in one run. An interleaving of two of them is one   *)
(* of each, and no property speaks of two, so every behaviour has one part *)
(* that moves while the others stay as they are initially.                 *)
(***************************************************************************)
EXTENDS DesktopInput, DeviceTools, BuildInstall, Access, ImageStore

VARIABLE focus   \* the part that moves

vars == <<inputVars, toolVars, installVars, accessVars, imageVars, focus>>

Parts == {"input", "tools", "install", "access", "image"}

\* Every key of a chord: a modifier, the key itself, one no platform knows, two in
\* the wrong order, none
SomeChords == {<<"CTRL", "a">>, <<"CTRL", "SHIFT", "a">>, <<"CTRL", "VOLUME_UP">>,
               <<"a", "CTRL">>, <<>>}
SomeTexts == {<<"a", "B">>}

\* The one initial state of a part that does not move
Still(part) == focus # part

Init ==
    /\ focus \in Parts
    /\ focus = "input" \/ (Still("input") /\ platform = "windows" /\ cliclick = FALSE)
    /\ \/ focus = "tools"
       \/ /\ Still("tools") /\ active = Nobody /\ ported = Nobody /\ there = {} /\ known = {}
    /\ focus = "install" \/ (Still("install") /\ located = {})
    /\ focus = "access" \/ (Still("access") /\ mcpToken = NoOne)
    /\ focus = "image" \/ (Still("image") /\ execReal = TRUE)
    /\ InputInit /\ ToolsInit /\ InstallInit /\ AccessInit /\ ImageInit
    \* bound: of the handsets and the desktop, at most one answers at first
    /\ \A d, e \in there : d = e
    \* bound: one of the VMs, which are alike, does not have the port at first
    /\ ported # CHOOSE v \in Vms : TRUE

Next ==
    \/ /\ focus = "input" /\ InputNext
       /\ UNCHANGED <<toolVars, installVars, accessVars, imageVars, focus>>
    \/ /\ focus = "tools" /\ ToolsNext
       /\ UNCHANGED <<inputVars, installVars, accessVars, imageVars, focus>>
    \/ /\ focus = "install" /\ InstallNext
       /\ UNCHANGED <<inputVars, toolVars, accessVars, imageVars, focus>>
    \/ /\ focus = "access" /\ AccessNext
       /\ UNCHANGED <<inputVars, toolVars, installVars, imageVars, focus>>
    \/ /\ focus = "image" /\ ImageNext
       /\ UNCHANGED <<inputVars, toolVars, installVars, accessVars, focus>>

Spec == Init /\ [][Next]_vars

-----------------------------------------------------------------------------

\* Every part's state stays within its type.
TypeOK ==
    /\ InputTypeOK /\ ToolsTypeOK /\ InstallTypeOK
    /\ AccessTypeOK /\ ImageTypeOK

=============================================================================
