------------------------------ MODULE ImageStore ------------------------------
(***************************************************************************)
(* The images of Android versions: their rows, the directory cvd fetch     *)
(* fills, and the deployments that share both.                             *)
(*                                                                         *)
(* A version's directory is found by name and its row by a query, so that  *)
(* two deployments may make two rows for one directory, and fetch into it  *)
(* at once. A deleted image's directory is removed after its row; a fetch  *)
(* that fails, or is cut off by a restart, leaves files behind. Only the   *)
(* deployment of a new instance sees to its image; an instance that failed *)
(* or was stopped is started on whatever files there are. A restart may    *)
(* bring a new catalog, or switch dry-run mode. One version is modelled:   *)
(* others have directories of their own. Requests for an instance that an  *)
(* operation is under way for are InstanceLifecycle's.                     *)
(***************************************************************************)
EXTENDS Naturals

CONSTANTS
    ImageIds,      \* bound: image rows ever made, in the order of their age
    Deploys,       \* bound: instances
    NoImage,
    Custom,        \* the build target of an image registered by hand: none
    MaxCatalog,    \* bound: build targets the catalog goes through
    MaxUpsets      \* bound on restarts, failed fetches and failed removals

BuildTargets == 1..MaxCatalog
ImageRow == [status : {"pending", "fetching", "ready", "error"}, target : BuildTargets \cup {Custom}]

ASSUME ImageAssumption ==
    /\ ImageIds \subseteq Nat /\ NoImage \notin ImageIds \cup ImageRow
    /\ MaxCatalog \in Nat \ {0} /\ Custom \notin Nat /\ MaxUpsets \in Nat

VARIABLES
    image,      \* rows: the status and build target
    dir,        \* the version's directory
    stage,      \* where an instance's deployment is, or its later starts and stops
    uses,       \* image_id of the instance, or of the one about to be inserted
    snap,       \* the image row as the deployment read it
    sound,      \* whether the last launch was on what it asked for, for the properties
    removing,   \* deletions whose row is gone and whose files are not
    catalog,    \* the build target the catalog gives
    execReal,   \* realCuttlefishExecutionEnabled
    muddled,    \* two have had the directory, or rows for it, at once
    upsets

imageVars == <<image, dir, stage, uses, snap, sound, removing, catalog, execReal, muddled, upsets>>

Stages == {"new", "create", "insert", "read", "ensure", "fetch", "fetching", "mark",
           "markError", "launch", "start", "up", "error", "stopped", "stuck", "gone"}
Absent == [files |-> "none", of |-> Custom]

ImageTypeOK ==
    /\ image \in [ImageIds -> ImageRow \cup {NoImage}]
    /\ dir \in [files : {"none", "partial", "whole"}, of : BuildTargets \cup {Custom}]
    /\ stage \in [Deploys -> Stages] /\ uses \in [Deploys -> ImageIds \cup {NoImage}]
    /\ snap \in [Deploys -> ImageRow \cup {NoImage}] /\ sound \in [Deploys -> BOOLEAN]
    /\ removing \subseteq ImageIds /\ catalog \in BuildTargets
    /\ execReal \in BOOLEAN /\ muddled \in BOOLEAN /\ upsets \in 0..MaxUpsets

ImageInit ==
    /\ image = [i \in ImageIds |-> NoImage] /\ dir = Absent
    /\ stage = [d \in Deploys |-> "new"] /\ uses = [d \in Deploys |-> NoImage]
    /\ snap = [d \in Deploys |-> NoImage] /\ sound = [d \in Deploys |-> TRUE]
    /\ removing = {} /\ catalog = 1 /\ execReal \in BOOLEAN /\ muddled = FALSE /\ upsets = 0

Upset == upsets < MaxUpsets /\ upsets' = upsets + 1

ImageRows == {i \in ImageIds : image[i] # NoImage}
Fresh == {i \in ImageIds : /\ image[i] = NoImage /\ i \notin removing
                           /\ \A j \in ImageIds : j >= i => image[j] = NoImage /\ j \notin removing}
Versioned == {i \in ImageRows : image[i].target # Custom}
Oldest(S) == CHOOSE i \in S : \A j \in S : i <= j

\* Instances are inserted between the stages "insert" and "read"
Inserted == {d \in Deploys : stage[d] \notin {"new", "create", "insert", "gone"}}

At(stages) == {d \in Deploys : stage[d] \in stages}
Fetching == {"fetching", "mark", "markError"}

Goto(d, s) == stage' = [stage EXCEPT ![d] = s]
Vanish(d) == Goto(d, "gone") /\ uses' = [uses EXCEPT ![d] = NoImage]
Forget(d) == [snap EXCEPT ![d] = NoImage]
SetStatus(i, s) == image' = IF image[i] = NoImage THEN image ELSE [image EXCEPT ![i].status = s]

-----------------------------------------------------------------------------
(* createInstance.                                                         *)

\* GetOrCreateVersionImage, as far as the query: a row with another build target
\* than the catalog's is put back to pending
GetVersionImage(d) ==
    /\ stage[d] = "new"
    /\ IF Versioned = {}
       THEN Goto(d, "create") /\ UNCHANGED <<image, uses>>
       ELSE LET i == Oldest(Versioned)
            IN  /\ Goto(d, "insert") /\ uses' = [uses EXCEPT ![d] = i]
                /\ image' = IF image[i].target = catalog THEN image
                            ELSE [image EXCEPT ![i] = [status |-> "pending", target |-> catalog]]
    /\ muddled' = (muddled \/ (image' # image /\ At(Fetching \cup {"ensure", "fetch", "launch"}) # {}))
    /\ UNCHANGED <<dir, snap, sound, removing, catalog, execReal, upsets>>

\* ... and its insertion of a row
CreateVersionImage(d) ==
    /\ stage[d] = "create"
    /\ \E i \in Fresh :
        /\ \A j \in Fresh : i <= j
        /\ image' = [image EXCEPT ![i] = [status |-> "pending", target |-> catalog]]
        /\ uses' = [uses EXCEPT ![d] = i]
    /\ Goto(d, "insert") /\ muddled' = (muddled \/ Versioned # {})
    /\ UNCHANGED <<dir, snap, sound, removing, catalog, execReal, upsets>>

\* A request may name an image
NameImage(d, i) ==
    /\ stage[d] = "new" /\ i \in ImageRows
    /\ Goto(d, "insert") /\ uses' = [uses EXCEPT ![d] = i]
    /\ UNCHANGED <<image, dir, snap, sound, removing, catalog, execReal, muddled, upsets>>

\* CreateInstance and Deploy; the foreign key refuses an image that has gone
InsertInstance(d) ==
    /\ stage[d] = "insert"
    /\ IF uses[d] \in ImageRows THEN Goto(d, "read") /\ UNCHANGED uses ELSE Vanish(d)
    /\ UNCHANGED <<image, dir, snap, sound, removing, catalog, execReal, muddled, upsets>>

\* createImage: a directory under the image root, registered as it is
CreateImage ==
    /\ \E i \in Fresh : /\ \A j \in Fresh : i <= j
                        /\ image' = [image EXCEPT ![i] = [status |-> "ready", target |-> Custom]]
    /\ UNCHANGED <<dir, stage, uses, snap, sound, removing, catalog, execReal, muddled, upsets>>

-----------------------------------------------------------------------------
(* runDeploy, up to the launch.                                            *)

ReadImage(d) ==
    /\ stage[d] = "read"
    /\ snap' = [snap EXCEPT ![d] = image[uses[d]]]
    /\ Goto(d, "ensure") /\ muddled' = (muddled \/ At(Fetching) # {})
    /\ UNCHANGED <<image, dir, uses, sound, removing, catalog, execReal, upsets>>

imagePopulated == dir.files # "none"

\* A ready row is trusted only if there are files as well
Trusted(d) == snap[d].status = "ready" /\ imagePopulated

\* Dry-run, or an image registered by hand: the row is marked ready, unseen. In
\* dry-run mode that muddles what an earlier fetch left.
EnsureUnseen(d) ==
    /\ stage[d] = "ensure" /\ (~execReal \/ snap[d].target = Custom)
    /\ IF snap[d].status # "ready" THEN SetStatus(uses[d], "ready") ELSE UNCHANGED image
    /\ muddled' = (muddled \/ (~execReal /\ imagePopulated))
    /\ Goto(d, "launch")
    /\ UNCHANGED <<dir, uses, snap, sound, removing, catalog, execReal, upsets>>

EnsureImage(d) ==
    /\ stage[d] = "ensure" /\ execReal /\ snap[d].target # Custom
    /\ IF Trusted(d)
       THEN Goto(d, "launch") /\ UNCHANGED image
       ELSE Goto(d, "fetch") /\ SetStatus(uses[d], "fetching")
    /\ UNCHANGED <<dir, uses, snap, sound, removing, catalog, execReal, muddled, upsets>>

\* cvd fetch, into whatever is there
BeginFetch(d) ==
    /\ stage[d] = "fetch"
    /\ dir' = [files |-> "partial", of |-> snap[d].target]
    /\ muddled' = (muddled \/ At(Fetching \cup {"ensure", "fetch", "launch"}) # {d})
    /\ Goto(d, "fetching")
    /\ UNCHANGED <<image, uses, snap, sound, removing, catalog, execReal, upsets>>

EndFetch(d) ==
    /\ stage[d] = "fetching"
    /\ \/ /\ Goto(d, "mark") /\ UNCHANGED upsets
          /\ \E files \in {"whole"} \cup (IF muddled THEN {"partial"} ELSE {}) :
                dir' = [files |-> files, of |-> snap[d].target]
       \/ Goto(d, "markError") /\ Upset /\ UNCHANGED dir
    /\ UNCHANGED <<image, uses, snap, sound, removing, catalog, execReal, muddled>>

\* Fault: the row is marked ready before the fetch's error is looked at
MarkReady(d) ==
    /\ stage[d] \in {"mark", "markError"} /\ SetStatus(uses[d], "ready")
    /\ Goto(d, IF stage[d] = "mark" THEN "launch" ELSE "error")
    /\ snap' = IF stage[d] = "mark" THEN snap ELSE Forget(d)
    /\ UNCHANGED <<dir, uses, sound, removing, catalog, execReal, muddled, upsets>>

MarkImage(d) ==
    /\ stage[d] \in {"mark", "markError"}
    /\ SetStatus(uses[d], IF stage[d] = "mark" THEN "ready" ELSE "error")
    /\ Goto(d, IF stage[d] = "mark" THEN "launch" ELSE "error")
    /\ snap' = IF stage[d] = "mark" THEN snap ELSE Forget(d)
    /\ UNCHANGED <<dir, uses, sound, removing, catalog, execReal, muddled, upsets>>

-----------------------------------------------------------------------------
(* The launch, and what becomes of an instance afterwards.                 *)

\* The build a launch asks for: a deployment's as it read the row, a start's as
\* the row says by now
Asked(d) == IF stage[d] = "launch" THEN snap[d].target ELSE image[uses[d]].target

\* A start ensures nothing; only the image's row can tell of files not to trust
Warned(d) == stage[d] = "start" /\ image[uses[d]].status # "ready"

\* launch, of a deployment or of a start: it takes the image's directory, which
\* has to be there, for granted. It may fail for reasons of its own.
Launch(d) ==
    /\ stage[d] \in {"launch", "start"} /\ snap' = Forget(d)
    /\ \/ /\ execReal /\ Asked(d) # Custom => imagePopulated
          /\ Goto(d, "up")
          /\ sound' = [sound EXCEPT ![d] =
                \/ ~execReal \/ Asked(d) = Custom \/ muddled \/ Warned(d)
                \/ dir = [files |-> "whole", of |-> Asked(d)]]
       \/ Goto(d, "error") /\ UNCHANGED sound
    /\ UNCHANGED <<image, dir, uses, removing, catalog, execReal, muddled, upsets>>

\* StartInstance, the only way to try again
StartInstance(d) ==
    /\ stage[d] \in {"stopped", "error"} /\ Goto(d, "start")
    /\ UNCHANGED <<image, dir, uses, snap, sound, removing, catalog, execReal, muddled, upsets>>

\* StopInstance, whose clean-up may fail, or a boot that failed
StopInstance(d) ==
    /\ stage[d] \in {"up", "error"} /\ (Goto(d, "stopped") \/ Goto(d, "error"))
    /\ UNCHANGED <<image, dir, uses, snap, sound, removing, catalog, execReal, muddled, upsets>>

DeleteInstance(d) ==
    /\ stage[d] \in {"error", "up", "stopped", "stuck"} /\ Vanish(d)
    /\ UNCHANGED <<image, dir, snap, sound, removing, catalog, execReal, muddled, upsets>>

-----------------------------------------------------------------------------
(* deleteImage, restarts.                                                  *)

\* DeleteImage: refused while an instance refers to the row
DeleteImage(i) ==
    /\ i \in ImageRows /\ \A d \in Inserted : uses[d] # i
    /\ image' = [image EXCEPT ![i] = NoImage] /\ removing' = removing \cup {i}
    /\ UNCHANGED <<dir, stage, uses, snap, sound, catalog, execReal, muddled, upsets>>

\* os.RemoveAll, whoever uses the directory by now
RemoveFiles(i) ==
    /\ i \in removing /\ removing' = removing \ {i}
    /\ \/ /\ dir' = Absent /\ UNCHANGED upsets
          /\ muddled' = (muddled \/ At(Fetching \cup {"launch"}) # {})
       \/ Upset /\ UNCHANGED <<dir, muddled>>
    /\ UNCHANGED <<image, stage, uses, snap, sound, catalog, execReal>>

\* Whatever was under way is over. Reconcile fails the instances that were being
\* launched; it does not know those still being provisioned, which can only be
\* deleted from then on.
AtRest == {"new", "gone", "up", "error", "stopped", "stuck"}
RestartStore ==
    /\ Upset
    /\ stage' = [d \in Deploys |->
            CASE stage[d] \in {"create", "insert"} -> "gone"
              [] stage[d] \in {"launch", "start"} -> "error"
              [] stage[d] \in AtRest -> stage[d]
              [] OTHER -> "stuck"]
    /\ uses' = [d \in Deploys |-> IF stage'[d] = "gone" THEN NoImage ELSE uses[d]]
    /\ snap' = [d \in Deploys |-> NoImage] /\ removing' = {}
    /\ catalog' \in {catalog, IF catalog < MaxCatalog THEN catalog + 1 ELSE catalog}
    /\ execReal' \in BOOLEAN
    /\ UNCHANGED <<image, dir, sound, muddled>>

ImageNext ==
    \/ \E d \in Deploys :
        \/ GetVersionImage(d) \/ CreateVersionImage(d) \/ InsertInstance(d) \/ ReadImage(d)
        \/ EnsureUnseen(d) \/ EnsureImage(d) \/ BeginFetch(d) \/ EndFetch(d) \/ MarkImage(d)
        \/ Launch(d) \/ StartInstance(d) \/ StopInstance(d) \/ DeleteInstance(d)
        \/ \E i \in ImageIds : NameImage(d, i)
    \/ CreateImage
    \/ \E i \in ImageIds : DeleteImage(i) \/ RemoveFiles(i)
    \/ RestartStore

ImageSpec == ImageInit /\ [][ImageNext]_imageVars

-----------------------------------------------------------------------------

\* A deployment launches on the complete files of the build its image names:
\* after fetches that failed or were cut off by a restart, after images and
\* their files were deleted, after a new catalog changed the build. A start, for
\* which nothing is fetched or checked, does so as long as the image's row reads
\* ready: what a failed or interrupted fetch left behind is launched only from a
\* row that says otherwise. That is, as long as no other deployment ran beside
\* one that fetches, the directory had one row, was not removed or given another
\* build under a deployment, and dry-run mode marked no files as ready.
LaunchesAreWhole == \A d \in Deploys : sound[d]

=============================================================================
