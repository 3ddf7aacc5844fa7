----------------------------- MODULE SourceBuild -----------------------------
(***************************************************************************)
(* Deploying from an image stream on OpenShift:                            *)
(* webImageSourceConfiguration (helper.go) for a WebServer with a          *)
(* webImageStream.  With webSources the operator keeps an image stream and *)
(* a BuildConfig of the application's name, OpenShift builds and pushes to *)
(* that stream, and the trigger annotation of the workload makes OpenShift *)
(* put the pushed image into the pods.                                     *)
(*                                                                         *)
(* The BuildConfig is read from an informer cache and is not watched.  ws  *)
(* is the WebServer as the operator's cache has it: an edit counts from    *)
(* the moment it arrives there.  The workload is reduced to its hash label *)
(* and its image, and the rest of Reconcile (owned objects, pods, status)  *)
(* to whether it asks for a requeue, which it does as long as the number   *)
(* of pods is not the wanted one: WorkloadReconciler has both.  Renames    *)
(* are left out, and nobody but the operator touches its image stream.     *)
(*                                                                         *)
(* Where the code answers an error with neither an error nor a requeue,    *)
(* Reconcile goes on to that rest; missed remembers that it did, and       *)
(* behind whether the BuildConfig in the cache was old when it began; only *)
(* the properties look at these two.                                       *)
(***************************************************************************)
EXTENDS Naturals, Sequences

CONSTANTS
    Cfgs,             \* values of spec.webImageStream
    Sourced,          \* those with webSources
    FailingCalls,     \* calls that may answer with an error of their own
    MaxDisturbances,  \* bound on edits, rebuilds, failures and crashes
    None

Calls == {"stream", "config", "update", "instantiate", "delete", "deploy",
          "image", "replace"}

(* hash: what the web-image-source-hash label names, and what is built;    *)
(* started: its status.lastVersion is not 0.                               *)
BuildConfigs == [hash : Sourced, started : BOOLEAN]

(* hash: the webserver-hash label; image: the configuration whose build    *)
(* the container runs, None as long as it is the repository it was given.  *)
Workloads == [hash : Cfgs, image : Sourced \cup {None}]

Results == [cfg : Sourced, ok : BOOLEAN]

ASSUME ConstantsAssumption ==
    /\ Sourced \subseteq Cfgs
    /\ FailingCalls \subseteq Calls
    /\ MaxDisturbances \in Nat
    /\ None \notin Cfgs \cup BuildConfigs \cup Workloads \cup Results

VARIABLES
    ws,                 \* spec.webImageStream of the WebServer
    stream, streamSeen, \* the application's image stream exists, is cached
    config,             \* the BuildConfig, or None
    configCache,        \* the same in the informer, ...
    configLag,          \* ... which does not have the latest version
    builds,             \* configurations being built, one after the other
    last,               \* how the build that ended last ended, or None
    latest,             \* the image behind the tag latest, or None
    workload,           \* the Deployment, or None
    queued, pc, snap,   \* the reconcile
    missed,             \* the error this reconcile, or the last one, has passed
                        \*   over: the "image" stream is not there, the
                        \*   "update" of the workload was refused, or "none"
    behind,             \* it began with an old copy of the BuildConfig
    budget              \* disturbances left

operands == <<stream, streamSeen, config, configCache, configLag>>
output   == <<builds, last, latest, workload>>
history  == <<missed, behind>>
vars     == <<ws, operands, output, queued, pc, snap, history, budget>>

Disturb == budget > 0 /\ budget' = budget - 1

Over(again) == pc' = "idle" /\ snap' = None /\ queued' = (queued \/ again)

Return(again) == Over(again) /\ UNCHANGED history

(* The rest of Reconcile.                                                  *)
Rest == \E again \in BOOLEAN : Return(again)

PassOver(error) ==
    /\ missed' = error /\ UNCHANGED behind
    /\ \E again \in BOOLEAN : Over(again)

Goto(step) == pc' = step /\ UNCHANGED <<queued, snap, history>>

-----------------------------------------------------------------------------
(* Instantiation as OpenShift performs it: the build takes the BuildConfig *)
(* as it is now, waits for the builds before it, and counts in the         *)
(* BuildConfig's status.                                                   *)
Instantiates(c) ==
    /\ builds' = Append(builds, c.hash)
    /\ config' = [c EXCEPT !.started = TRUE]
    /\ configLag' = TRUE

(* Wrong: every image stream is built from sources.                        *)
EntryAlways(s) == "stream"

(* Where webImageSourceConfiguration begins.                               *)
Entry(s) == IF s \in Sourced THEN "stream" ELSE "delete"

(* The reconcile.                                                          *)
Start ==
    /\ pc = "idle" /\ queued
    /\ queued' = FALSE
    /\ missed' = "none" /\ behind' = configLag
    /\ snap' = ws
    /\ pc' = Entry(ws)
    /\ UNCHANGED <<ws, operands, output, budget>>

(* createImageStream: AlreadyExists is not an error; a Create requeues.    *)
EnsureStream ==
    /\ pc = "stream"
    /\ IF streamSeen THEN Goto("config") /\ UNCHANGED stream
                     ELSE Return(TRUE) /\ stream' = TRUE
    /\ UNCHANGED <<ws, streamSeen, config, configCache, configLag, output,
                   budget>>

(* A BuildConfig made from the configuration s, labelled with its hash.    *)
NewConfig(s) == [hash |-> s, started |-> FALSE]

(* createUpdateBuildConfig: the BuildConfig is not there.                  *)
CreateConfig ==
    /\ pc = "config" /\ configCache = None
    /\ IF config = None THEN config' = NewConfig(snap) /\ configLag' = TRUE
                        ELSE UNCHANGED <<config, configLag>>
    /\ Return(TRUE)
    /\ UNCHANGED <<ws, stream, streamSeen, configCache, output, budget>>

KeepConfig ==
    /\ pc = "config" /\ configCache # None /\ configCache.hash = snap
    /\ Goto("deploy")
    /\ UNCHANGED <<ws, operands, output, budget>>

(* Wrong: the update is left to the triggers.                              *)
UpdateOnly ==
    /\ pc = "config" /\ configCache # None /\ configCache.hash # snap
    /\ IF config # None /\ ~configLag
       THEN /\ config' = [config EXCEPT !.hash = snap]
            /\ configLag' = TRUE
            /\ Goto("deploy")
       ELSE /\ Return(TRUE)
            /\ UNCHANGED <<config, configLag>>
    /\ UNCHANGED <<ws, stream, streamSeen, configCache, output, budget>>

(* It has another hash: Update with the resource version that was read,    *)
(* where a build started since makes a conflict, an error and a retry.     *)
UpdateConfig ==
    /\ pc = "config" /\ configCache # None /\ configCache.hash # snap
    /\ IF config # None /\ ~configLag
       THEN /\ config' = [config EXCEPT !.hash = snap]
            /\ configLag' = TRUE
            /\ Goto("instantiate")
       ELSE /\ Return(TRUE)
            /\ UNCHANGED <<config, configLag>>
    /\ UNCHANGED <<ws, stream, streamSeen, configCache, output, budget>>

(* Updating starts no build: the operator asks for one.                    *)
Instantiate ==
    /\ pc = "instantiate" /\ config # None
    /\ Instantiates(config) /\ Goto("deploy")
    /\ UNCHANGED <<ws, stream, streamSeen, configCache, last, latest,
                   workload, budget>>

(* Without sources a BuildConfig that is there goes, and its builds with   *)
(* it.                                                                     *)
DeleteConfig ==
    /\ pc = "delete"
    /\ IF configCache # None /\ config # None
       THEN config' = None /\ configLag' = TRUE /\ builds' = <<>>
       ELSE UNCHANGED <<config, configLag, builds>>
    /\ Goto("deploy")
    /\ UNCHANGED <<ws, stream, streamSeen, configCache, last, latest,
                   workload, budget>>

(* Wrong: the operator waits for the build to be over, but not again.      *)
DeployWhenBuilt ==
    /\ pc = "deploy"
    /\ IF (workload = None \/ workload.hash # snap) /\ builds = <<>>
       THEN workload' = [hash |-> snap, image |-> None] /\ Return(TRUE)
       ELSE UNCHANGED workload /\ Rest
    /\ UNCHANGED <<ws, operands, builds, last, latest, budget>>

(* continueWithDeployment: created or regenerated with the repository of   *)
(* the stream, whatever is built or not yet, and looked at again; or found *)
(* as it should be.                                                        *)
Deploy ==
    /\ pc = "deploy"
    /\ IF workload = None \/ workload.hash # snap
       THEN workload' = [hash |-> snap, image |-> None] /\ Return(TRUE)
       ELSE UNCHANGED workload /\ Rest
    /\ UNCHANGED <<ws, operands, builds, last, latest, budget>>

(* The image stream of a WebServer without sources is somebody else's: it  *)
(* may be missing, which is logged and passed over.                        *)
NoStream ==
    /\ pc = "deploy" /\ "image" \in FailingCalls /\ snap \notin Sourced
    /\ Disturb /\ PassOver("image")
    /\ UNCHANGED <<ws, operands, output>>

(* The Update of a workload that is there, for another hash, is refused;   *)
(* conflicts aside, that is passed over.                                   *)
DeployFails ==
    /\ pc = "deploy" /\ "replace" \in FailingCalls
    /\ workload # None /\ workload.hash # snap
    /\ Disturb /\ PassOver("update")
    /\ UNCHANGED <<ws, operands, output>>

Reconcile == \/ Start \/ EnsureStream \/ CreateConfig \/ KeepConfig
             \/ UpdateConfig \/ Instantiate \/ DeleteConfig \/ Deploy

(* An error is returned, and the key put back; that of the Delete is only  *)
(* logged.                                                                 *)
CallFails ==
    /\ \/ pc \in FailingCalls \ {"delete"}
       \/ pc = "config" /\ "update" \in FailingCalls
    /\ Disturb /\ Return(TRUE)
    /\ UNCHANGED <<ws, operands, output>>

DeleteFails ==
    /\ pc = "delete" /\ "delete" \in FailingCalls
    /\ Disturb /\ Goto("deploy")
    /\ UNCHANGED <<ws, operands, output>>

(* The operator stops; on restart the informers list everything.  Between  *)
(* Update and Instantiate that is as good as a failed Instantiate.         *)
Crash ==
    /\ pc = "instantiate" => "instantiate" \in FailingCalls
    /\ Disturb
    /\ Over(TRUE) /\ missed' = "none" /\ behind' = FALSE
    /\ streamSeen' = stream /\ configCache' = config /\ configLag' = FALSE
    /\ UNCHANGED <<ws, stream, config, output>>

-----------------------------------------------------------------------------
(* OpenShift and the users.                                                *)

SyncStream ==
    /\ streamSeen # stream
    /\ streamSeen' = stream
    /\ UNCHANGED <<ws, stream, config, configCache, configLag, output, queued,
                   pc, snap, history, budget>>

SyncConfig ==
    /\ configLag
    /\ configCache' = config /\ configLag' = FALSE
    /\ UNCHANGED <<ws, stream, streamSeen, config, output, queued, pc, snap,
                   history, budget>>

Starts ==
    /\ Instantiates(config)
    /\ UNCHANGED <<ws, stream, streamSeen, configCache, last, latest, workload,
                   queued, pc, snap, history>>

(* The ConfigChange trigger: a new BuildConfig is built once.              *)
FirstBuild ==
    /\ config # None /\ ~config.started
    /\ Starts /\ UNCHANGED budget

(* A new base image, or a webhook.                                         *)
Rebuild ==
    /\ config # None /\ config.started
    /\ Disturb /\ Starts

Ends(ok) ==
    /\ builds # <<>>
    /\ builds' = Tail(builds)
    /\ last' = [cfg |-> Head(builds), ok |-> ok]
    /\ latest' = IF ok THEN Head(builds) ELSE latest
    /\ UNCHANGED <<ws, operands, workload, queued, pc, snap, history>>

BuildSucceeds == Ends(TRUE) /\ UNCHANGED budget
BuildFails == Ends(FALSE) /\ Disturb

(* Wrong: a workload without the annotation.                               *)
NotTriggered(w) == FALSE

(* The annotation names the application's stream, sources or not.          *)
Triggered(w) == w # None /\ latest # None /\ w.image # latest

(* The workload is watched: its change wakes the operator.                 *)
TriggerImage ==
    /\ Triggered(workload)
    /\ workload' = [workload EXCEPT !.image = latest]
    /\ queued' = TRUE
    /\ UNCHANGED <<ws, operands, builds, last, latest, pc, snap, history, budget>>

EditSpec ==
    /\ Disturb
    /\ ws' \in Cfgs \ {ws}
    /\ queued' = TRUE
    /\ UNCHANGED <<operands, output, pc, snap, history>>

-----------------------------------------------------------------------------
Init ==
    /\ ws \in Cfgs
    /\ stream = FALSE /\ streamSeen = FALSE
    /\ config = None /\ configCache = None /\ configLag = FALSE
    /\ builds = <<>> /\ last = None /\ latest = None /\ workload = None
    /\ queued = TRUE /\ pc = "idle" /\ snap = None
    /\ missed = "none" /\ behind = FALSE
    /\ budget = MaxDisturbances

OpenShift == FirstBuild \/ BuildSucceeds \/ TriggerImage
Disturbances ==
    \/ CallFails \/ DeleteFails \/ NoStream \/ DeployFails
    \/ Crash \/ Rebuild \/ BuildFails \/ EditSpec

Next == Reconcile \/ SyncStream \/ SyncConfig \/ OpenShift \/ Disturbances

Spec == Init /\ [][Next]_vars

(* The worker, the informers, the builder and the trigger controller keep  *)
(* going.                                                                  *)
FairSpec ==
    /\ Spec
    /\ WF_vars(Reconcile)
    /\ WF_vars(SyncStream) /\ WF_vars(SyncConfig)
    /\ WF_vars(FirstBuild) /\ WF_vars(BuildSucceeds) /\ WF_vars(TriggerImage)

-----------------------------------------------------------------------------
(* Every variable has its type, and a reconcile that is at the BuildConfig *)
(* is one for a configuration with sources.                                *)
TypeOK ==
    /\ ws \in Cfgs
    /\ stream \in BOOLEAN /\ streamSeen \in BOOLEAN
    /\ config \in BuildConfigs \cup {None}
    /\ configCache \in BuildConfigs \cup {None} /\ configLag \in BOOLEAN
    /\ builds \in Seq(Sourced) /\ last \in Results \cup {None}
    /\ latest \in Sourced \cup {None}
    /\ workload \in Workloads \cup {None}
    /\ queued \in BOOLEAN
    /\ pc \in (Calls \ {"update", "image", "replace"}) \cup {"idle"}
    /\ snap \in Cfgs \cup {None}
    /\ missed \in {"none", "image", "update"} /\ behind \in BOOLEAN
    /\ budget \in Nat
    /\ pc # "idle" => snap \in Cfgs
    /\ pc \in {"stream", "config", "instantiate"} => snap \in Sourced

(* What was, or will be, built last.                                       *)
Newest == IF builds # <<>> THEN builds[Len(builds)]
          ELSE IF last # None THEN last.cfg ELSE None

(* The web-image-source-hash label of the BuildConfig names the            *)
(* configuration that is built last: the operator, which looks at nothing  *)
(* but the label, may take an equal hash for a build that need not be      *)
(* asked for.                                                              *)
HashNamesBuild ==
    config # None /\ config.started /\ pc # "instantiate" =>
      Newest = config.hash

(* Neither the operator nor OpenShift has anything left to do.             *)
AtRest ==
    /\ pc = "idle" /\ ~queued /\ ~configLag
    /\ builds = <<>> /\ (config # None => config.started)
    /\ ~Triggered(workload)

(* Built from its current sources, by the build that ended last, and       *)
(* running that image unless the build failed.                             *)
RunsItsBuild ==
    /\ last # None /\ last.cfg = ws
    /\ last.ok => workload.image = ws

(* Then the workload is made from the current spec, and one with sources   *)
(* runs its build: no conflict, crash, rebuild, returned error or edit in  *)
(* between loses a build or leaves an older image in the pods.  Excepted   *)
(* is a last reconcile that has passed over a missing image stream or a    *)
(* refused Update of the workload, or began with an old copy of the        *)
(* BuildConfig, which is not watched.                                      *)
QuietMeansBuilt ==
    AtRest /\ missed = "none" /\ ~behind =>
      /\ workload # None /\ workload.hash = ws
      /\ ws \in Sourced => RunsItsBuild

(* A WebServer without sources runs what is in the image stream it names,  *)
(* "the imagestream containing the image to be deployed".                  *)
QuietMeansOwnStream ==
    AtRest /\ ws \notin Sourced /\ workload # None => workload.image = None

(* Once the disturbances stop, the pods run what the sources of the spec   *)
(* were built to, for good, or the operator has gone to rest with an error *)
(* passed over, or after a reconcile that began with an old copy.          *)
GaveUp == pc = "idle" /\ ~queued /\ (missed # "none" \/ behind)

EventuallyBuilt ==
    <>[](\/ GaveUp
         \/ /\ workload # None /\ workload.hash = ws
            /\ ws \in Sourced => RunsItsBuild)
=============================================================================
