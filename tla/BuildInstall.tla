----------------------------- MODULE BuildInstall -----------------------------
(***************************************************************************)
(* A build of the app under test: its upload, and its installation before  *)
(* a cycle runs, on an Android device over adb or on a desktop by its      *)
(* runner, which fetches the artifact, checks it and runs it.              *)
(*                                                                         *)
(* The appliance asks a runner to install and polls it; the runner works   *)
(* on a goroutine and remembers how each build went for as long as it      *)
(* lives. Both may restart in between, and a cycle that gave up leaves the *)
(* runner installing.                                                      *)
(***************************************************************************)
EXTENDS Naturals

CONSTANTS
    Builds,
    InstallRuns,   \* bound: cycle runs that name a build
    MaxTroubles    \* bound on restarts, lost tunnels, rotten files, failed steps

ASSUME InstallAssumption == MaxTroubles \in Nat

VARIABLES
    upload,     \* uploadBuild: "new", "row", "file", "over"
    located,    \* builds whose row has a path
    hashed,     \* builds whose row has a checksum
    file,       \* bytes under the artifact root
    installs,   \* controller.installs
    worker,     \* doInstall's goroutines: what each holds
    ran,        \* artifacts an installer has accepted on this desktop, for the properties
    want,       \* the build a run installs first, and where
    progress,   \* of a run: "new", "ask", "poll", "ok", "failed"
    troubles

installVars == <<upload, located, hashed, file, installs, worker, ran, want, progress, troubles>>

Wants == [build : Builds, on : {"desktop", "android"}]

InstallTypeOK ==
    /\ upload \in [Builds -> {"new", "row", "file", "over"}]
    /\ located \subseteq Builds /\ hashed \subseteq located
    /\ file \in [Builds -> {"none", "partial", "whole", "rotten"}]
    /\ installs \in [Builds -> {"none", "installing", "done", "error"}]
    /\ worker \in [Builds -> {"none", "fetch", "whole", "rotten", "partial"}]
    /\ ran \in [Builds -> SUBSET {"whole", "rotten", "partial"}]
    /\ want \in [InstallRuns -> Wants \cup {<<>>}]
    /\ progress \in [InstallRuns -> {"new", "ask", "poll", "ok", "failed"}]
    /\ troubles \in 0..MaxTroubles

\* A build is still to be uploaded, or was before checksums were recorded
InstallInit ==
    /\ \E old \in SUBSET Builds :
        /\ upload = [b \in Builds |-> IF b \in old THEN "over" ELSE "new"]
        /\ located = old
        /\ file = [b \in Builds |-> IF b \in old THEN "whole" ELSE "none"]
    /\ hashed = {}
    /\ installs = [b \in Builds |-> "none"] /\ worker = [b \in Builds |-> "none"]
    /\ ran = [b \in Builds |-> {}]
    /\ want = [r \in InstallRuns |-> <<>>] /\ progress = [r \in InstallRuns |-> "new"]
    /\ troubles = 0

Trouble == troubles < MaxTroubles /\ troubles' = troubles + 1

-----------------------------------------------------------------------------
(* uploadBuild.                                                            *)

CreateBuild(b) ==
    /\ upload[b] = "new"
    /\ upload' = [upload EXCEPT ![b] = "row"]
    /\ UNCHANGED <<located, hashed, file, installs, worker, ran, want, progress, troubles>>

\* The request ends with the row in place and no path in it
UploadFails(b) ==
    /\ upload[b] \in {"row", "file"} /\ Trouble
    /\ upload' = [upload EXCEPT ![b] = "over"]
    /\ UNCHANGED <<located, hashed, file, installs, worker, ran, want, progress>>

\* The artifact is streamed to its file: begun, and complete
Stream(b) ==
    /\ upload[b] = "row" /\ file[b] # "whole"
    /\ file' = [file EXCEPT ![b] = IF @ = "none" THEN "partial" ELSE "whole"]
    /\ upload' = [upload EXCEPT ![b] = IF file[b] = "none" THEN "row" ELSE "file"]
    /\ UNCHANGED <<located, hashed, installs, worker, ran, want, progress, troubles>>

\* Fault: the location is recorded as soon as there is a row, the checksum later
LocateFirst(b) ==
    /\ upload[b] \in {"row", "file"} /\ (b \in located => upload[b] = "file")
    /\ located' = located \cup {b}
    /\ hashed' = IF upload[b] = "file" THEN hashed \cup {b} ELSE hashed
    /\ upload' = [upload EXCEPT ![b] = IF @ = "file" THEN "over" ELSE @]
    /\ UNCHANGED <<file, installs, worker, ran, want, progress, troubles>>

\* Fault: the checksum is recorded, the path is not
ChecksumOnly(b) ==
    /\ upload[b] = "file"
    /\ upload' = [upload EXCEPT ![b] = "over"]
    /\ hashed' = hashed \cup {b}
    /\ UNCHANGED <<located, file, installs, worker, ran, want, progress, troubles>>

\* Its error is dropped, so UploadFails after the file stands for that too
SetBuildLocation(b) ==
    /\ upload[b] = "file"
    /\ upload' = [upload EXCEPT ![b] = "over"]
    /\ located' = located \cup {b} /\ hashed' = hashed \cup {b}
    /\ UNCHANGED <<file, installs, worker, ran, want, progress, troubles>>

-----------------------------------------------------------------------------
(* installBuild, of a cycle run.                                           *)

\* A run names any build that has a row. A desktop runs one cycle at a time.
BeginInstall(r) ==
    /\ progress[r] = "new"
    /\ \E w \in Wants :
        /\ upload[w.build] # "new"
        /\ \A q \in InstallRuns : progress[q] \in {"ask", "poll"} => want[q].on # w.on
        /\ want' = [want EXCEPT ![r] = w]
    /\ progress' = [progress EXCEPT ![r] = "ask"]
    /\ UNCHANGED <<upload, located, hashed, file, installs, worker, ran, troubles>>

\* InstallAPK of the row's path; the package manager takes whole packages
InstallAPK(r) ==
    /\ progress[r] = "ask" /\ want[r].on = "android"
    /\ LET b == want[r].build
       IN  progress' = [progress EXCEPT ![r] =
                IF b \in located /\ file[b] = "whole" THEN "ok" ELSE "failed"]
    /\ UNCHANGED <<upload, located, hashed, file, installs, worker, ran, want, troubles>>

\* install_app: a build the runner has heard of is not installed again,
\* however that went
install_app(r) ==
    /\ progress[r] = "ask" /\ want[r].on = "desktop"
    /\ LET b == want[r].build
       IN  IF installs[b] = "none"
           THEN /\ installs' = [installs EXCEPT ![b] = "installing"]
                /\ worker' = [worker EXCEPT ![b] = "fetch"]
           ELSE UNCHANGED <<installs, worker>>
    /\ progress' = [progress EXCEPT ![r] = "poll"]
    /\ UNCHANGED <<upload, located, hashed, file, ran, want, troubles>>

\* install_status: what is neither done nor failed is polled again
install_status(r) ==
    /\ progress[r] = "poll"
    /\ LET status == installs[want[r].build]
       IN  /\ status \in {"done", "error"}
           /\ progress' = [progress EXCEPT ![r] = IF status = "done" THEN "ok" ELSE "failed"]
    /\ UNCHANGED <<upload, located, hashed, file, installs, worker, ran, want, troubles>>

\* A command fails, the tunnel is down, or the six minutes are over
GiveUp(r) ==
    /\ progress[r] \in {"ask", "poll"} /\ Trouble
    /\ progress' = [progress EXCEPT ![r] = "failed"]
    /\ UNCHANGED <<upload, located, hashed, file, installs, worker, ran, want>>

-----------------------------------------------------------------------------
(* doInstall, on the runner.                                               *)

\* The appliance serves what its row points to, with the checksum of the row
Served(b) == b \in located /\ file[b] # "none"
Matches(b) == b \in hashed => file[b] = "whole"

\* A download that fails, or fails its checksum, is the end of it
fetchBuild(b) ==
    /\ worker[b] = "fetch"
    /\ \/ /\ Served(b) /\ Matches(b)
          /\ worker' = [worker EXCEPT ![b] = file[b]]
          /\ UNCHANGED <<installs, troubles>>
       \/ /\ IF Served(b) /\ Matches(b) THEN Trouble ELSE UNCHANGED troubles
          /\ worker' = [worker EXCEPT ![b] = "none"]
          /\ installs' = [installs EXCEPT ![b] = "error"]
    /\ UNCHANGED <<upload, located, hashed, file, ran, want, progress>>

\* RunInstaller, by the kind of package the platform takes. What is not a whole
\* package may still be taken.
RunInstaller(b) ==
    /\ worker[b] \in {"whole", "rotten", "partial"}
    /\ worker' = [worker EXCEPT ![b] = "none"]
    /\ \/ /\ installs' = [installs EXCEPT ![b] = "done"]
          /\ ran' = [ran EXCEPT ![b] = @ \cup {worker[b]}]
          /\ UNCHANGED troubles
       \/ installs' = [installs EXCEPT ![b] = "error"] /\ Trouble /\ UNCHANGED ran
    /\ UNCHANGED <<upload, located, hashed, file, want, progress>>

-----------------------------------------------------------------------------

RunnerRestarts ==
    /\ Trouble
    /\ installs' = [b \in Builds |-> "none"] /\ worker' = [b \in Builds |-> "none"]
    /\ UNCHANGED <<upload, located, hashed, file, ran, want, progress>>

\* Cycles and uploads under way are lost
ApplianceRestarts ==
    /\ Trouble
    /\ progress' = [r \in InstallRuns |->
            IF progress[r] \in {"ask", "poll"} THEN "failed" ELSE progress[r]]
    /\ upload' = [b \in Builds |-> IF upload[b] \in {"row", "file"} THEN "over" ELSE upload[b]]
    /\ UNCHANGED <<located, hashed, file, installs, worker, ran, want>>

Rots(b) ==
    /\ Trouble /\ file[b] = "whole" /\ upload[b] = "over"
    /\ file' = [file EXCEPT ![b] = "rotten"]
    /\ UNCHANGED <<upload, located, hashed, installs, worker, ran, want, progress>>

InstallNext ==
    \/ \E b \in Builds : CreateBuild(b) \/ UploadFails(b) \/ Stream(b) \/ SetBuildLocation(b)
    \/ \E r \in InstallRuns : \/ BeginInstall(r) \/ InstallAPK(r) \/ install_app(r)
                              \/ install_status(r) \/ GiveUp(r)
    \/ \E b \in Builds : fetchBuild(b) \/ RunInstaller(b) \/ Rots(b)
    \/ RunnerRestarts \/ ApplianceRestarts

InstallSpec == InstallInit /\ [][InstallNext]_installVars

-----------------------------------------------------------------------------

\* A cycle that was told its build is installed on a desktop runs where an
\* installer has accepted that build. What ran is the artifact as it was
\* uploaded, unless it is one the appliance has no checksum of; an upload that
\* is still arriving, or that broke off, never runs.
InstallsAreVerified ==
    /\ \A r \in InstallRuns :
        progress[r] = "ok" /\ want[r].on = "desktop" => ran[want[r].build] # {}
    /\ \A b \in Builds : /\ "rotten" \in ran[b] => b \notin hashed
                         /\ "partial" \notin ran[b]

=============================================================================
