------------------------------- MODULE BuildPod -------------------------------
(***************************************************************************)
(* Building a web application before deploying it: webImageConfiguration   *)
(* (helper.go) for a WebServer with a webImage and a webApp.  The build    *)
(* script goes into a ConfigMap, a build pod mounts it, builds from the    *)
(* sources and pushes the image; only when the pod has succeeded is the    *)
(* workload created or replaced.                                           *)
(*                                                                         *)
(* The build pod is read from the informer cache and has no watch, so the  *)
(* operator polls it.  ws is the WebServer as the operator's cache has it: *)
(* an edit counts from the moment it arrives there.  The workload is       *)
(* reduced to what was deployed last, and the rest of Reconcile (owned     *)
(* objects, pods, status) to whether it asks for a requeue, which it does  *)
(* as long as the number of pods is not the wanted one:                    *)
(* WorkloadReconciler has both.                                            *)
(*                                                                         *)
(* Where the code answers an error with neither an error nor a requeue,    *)
(* Reconcile goes on to that rest; missed remembers that it did, behind    *)
(* whether a build pod in the cache was old when it began, and late that a *)
(* script was rewritten too early.  Only the properties look at these.     *)
(***************************************************************************)
EXTENDS Naturals, FiniteSets

CONSTANTS
    Apps,         \* values of spec.applicationName
    Cfgs,         \* what getWebServerHash digests but the application name
    Built,        \* configurations with a webApp to build
    ScriptOf,     \* applicationBuildScript of a configuration in Built
    NoScript,     \* the value of ScriptOf[c] when it is empty
    Faults,       \* "call" (of any kind) and "replace" (of the workload) that
                  \*   fail, "crash" of the operator; "evict", "delete" of a pod
    FirstApps, FirstCfgs,   \* what the WebServer is created with
    MaxEdits, MaxFaults,    \* bounds
    None

Scripts == {ScriptOf[c] : c \in Built} \ {NoScript}

ASSUME BuildAssumption ==
    /\ Built \subseteq Cfgs
    /\ FirstApps \subseteq Apps /\ FirstCfgs \subseteq Cfgs
    /\ None \notin Scripts \cup {NoScript}
    /\ Faults \subseteq {"call", "replace", "crash", "evict", "delete"}
    /\ MaxEdits \in Nat /\ MaxFaults \in Nat

WebServers == [app : Apps, cfg : Cfgs]
Phases == {"Pending", "Running", "Succeeded", "Failed"}

(* hash: the configuration the webserver-hash label names; script: what    *)
(* its container runs, once started; going: it has a deletion timestamp.   *)
BuildPods == [hash : Built, phase : Phases, going : BOOLEAN,
              script : Scripts \cup {NoScript, None}]

(* by: the application whose pod pushed it; cfg: what the pod's            *)
(* webserver-hash label named; script: what it ran.                        *)
Images == [by : Apps, cfg : Built, script : Scripts \cup {NoScript}]

ASSUME NoneAssumption == None \notin WebServers \cup BuildPods \cup Images

VARIABLES
    ws,         \* the WebServer
    configMap,  \* build.sh in the ConfigMap webserver-bd-<name>, or None
    pods,       \* the build pod <applicationName>-build, or None
    podCache,   \* the same in the informer
    image,      \* what was last pushed to webAppWarImage
    deployed,   \* the WebServer the workload was last made from
    queued, pc, snap,   \* the reconcile
    missed,     \* the error this reconcile, or the last one, has passed over:
                \*   the "delete" of a pod, the "update" of the workload, "none"
    behind,     \* it began with an old copy of a build pod
    late,       \* the script was once rewritten for another one while a pod
                \*   that was to mount it waited to start
    budget

history == <<missed, behind, late>>
vars == <<ws, configMap, pods, podCache, image, deployed, queued, pc, snap,
          history, budget>>

Step(f) ==
    /\ f \in Faults /\ budget.faults > 0
    /\ budget' = [budget EXCEPT !.faults = @ - 1]

Over(again) == pc' = "idle" /\ snap' = None /\ queued' = (queued \/ again)

Return(again) == Over(again) /\ UNCHANGED history

(* The rest of Reconcile.                                                  *)
Rest == \E again \in BOOLEAN : Return(again)

PassOver(error) ==
    /\ missed' = error /\ UNCHANGED <<behind, late>>
    /\ \E again \in BOOLEAN : Over(again)

-----------------------------------------------------------------------------
(* The reconcile.                                                          *)

NeedsBuildAlways(s) == TRUE   \* wrong: webApp is not looked at
NeedsBuild(s) == s.cfg \in Built

HasScript(s) == ScriptOf[s.cfg] # NoScript

Start ==
    /\ pc = "idle" /\ queued
    /\ queued' = FALSE
    /\ missed' = "none" /\ behind' = (podCache # pods)
    /\ snap' = ws
    /\ pc' = IF ~NeedsBuild(ws) THEN "deploy"
             ELSE IF HasScript(ws) THEN "script" ELSE "pod"
    /\ UNCHANGED <<ws, configMap, pods, podCache, image, deployed, late, budget>>

Waiting(p) == p # None /\ p.phase = "Pending" /\ ~p.going

Overtaken(p, s) == Waiting(p) /\ ScriptOf[p.hash] \notin {NoScript, ScriptOf[s.cfg]}

(* createConfigMap: an unconditional Update, or a Create and a requeue.    *)
(* What comes back is what was sent, so that the comparison after it never *)
(* finds a difference.                                                     *)
UpdateScript ==
    /\ pc = "script"
    /\ configMap' = ScriptOf[snap.cfg]
    /\ late' = (late \/ \E a \in Apps : Overtaken(pods[a], snap))
    /\ IF configMap = None THEN Over(TRUE)
                           ELSE pc' = "pod" /\ UNCHANGED <<queued, snap>>
    /\ UNCHANGED <<ws, pods, podCache, image, deployed, missed, behind, budget>>

(* Wrong hash checks: none; any pod that is done.                          *)
StaleNever(p, s) == FALSE
StaleWhenDone(p, s) == p.hash # s.cfg \/ p.phase = "Succeeded"

(* The pod's webserver-hash is not the current one.                        *)
Stale(p, s) == p.hash # s.cfg

ReadyWhenOver(p) == p.phase \in {"Succeeded", "Failed"}   \* wrong
Ready(p) == p.phase = "Succeeded"

(* createBuildPod's cached Get and what follows from it.                   *)
ReadBuildPod ==
    /\ pc = "pod"
    /\ LET p == podCache[snap.app]
       IN  \/ p = None /\ pc' = "create"
           \/ p # None /\ Stale(p, snap) /\ pc' = "delete"
           \/ p # None /\ ~Stale(p, snap) /\ Ready(p) /\ pc' = "deploy"
    /\ UNCHANGED <<ws, configMap, pods, podCache, image, deployed, queued,
                   snap, history, budget>>

(* Wrong: the unfinished build is not polled.                              *)
WaitOnce ==
    /\ pc = "pod"
    /\ LET p == podCache[snap.app]
       IN  p # None /\ ~Stale(p, snap) /\ ~Ready(p)
    /\ Return(FALSE)
    /\ UNCHANGED <<ws, configMap, pods, podCache, image, deployed, budget>>

(* checkBuildPodPhase: whatever else the phase is, look again later.       *)
WaitForBuild ==
    /\ pc = "pod"
    /\ LET p == podCache[snap.app]
       IN  p # None /\ ~Stale(p, snap) /\ ~Ready(p)
    /\ Return(TRUE)
    /\ UNCHANGED <<ws, configMap, pods, podCache, image, deployed, budget>>

NewBuildPod(s) ==
    [hash |-> s.cfg, phase |-> "Pending", going |-> FALSE, script |-> None]

(* AlreadyExists, of a pod on its way out too, is not an error.            *)
CreateBuildPod ==
    /\ pc = "create"
    /\ pods' = IF pods[snap.app] = None
               THEN [pods EXCEPT ![snap.app] = NewBuildPod(snap)] ELSE pods
    /\ Return(TRUE)
    /\ UNCHANGED <<ws, configMap, podCache, image, deployed, budget>>

(* Delete; a NotFound is passed over.                                      *)
DeleteBuildPod ==
    /\ pc = "delete"
    /\ IF pods[snap.app] = None
       THEN PassOver("delete") /\ UNCHANGED pods
       ELSE /\ pods' = [pods EXCEPT ![snap.app].going = TRUE]
            /\ Return(TRUE)
    /\ UNCHANGED <<ws, configMap, podCache, image, deployed, budget>>

(* continueWithDeployment or continueWithStatefulSet: created or updated,  *)
(* and looked at again, or found as it should be.                          *)
Deploy ==
    /\ pc = "deploy"
    /\ deployed' = snap
    /\ IF deployed # snap THEN Return(TRUE) ELSE Rest
    /\ UNCHANGED <<ws, configMap, pods, podCache, image, budget>>

(* The Update of a workload that is there, for another hash, is refused;   *)
(* conflicts aside, that is passed over.                                   *)
DeployFails ==
    /\ pc = "deploy"
    /\ deployed \notin {None, snap} /\ deployed.app = snap.app
    /\ Step("replace")
    /\ PassOver("update")
    /\ UNCHANGED <<ws, configMap, pods, podCache, image, deployed>>

(* Any other error of a call: returned, or (Delete) logged and requeued.   *)
CallFails ==
    /\ pc # "idle"
    /\ Step("call")
    /\ Return(TRUE)
    /\ UNCHANGED <<ws, configMap, pods, podCache, image, deployed>>

Crash ==
    /\ Step("crash")
    /\ Over(TRUE) /\ missed' = "none" /\ behind' = FALSE
    /\ podCache' = pods
    /\ UNCHANGED <<ws, configMap, pods, image, deployed, late>>

Reconcile ==
    \/ Start \/ UpdateScript \/ ReadBuildPod \/ WaitForBuild
    \/ CreateBuildPod \/ DeleteBuildPod \/ Deploy

-----------------------------------------------------------------------------
(* The cluster.                                                            *)

SyncPods ==
    /\ podCache # pods
    /\ podCache' = pods
    /\ UNCHANGED <<ws, configMap, pods, image, deployed, queued, pc, snap,
                   history, budget>>

PodOnly == UNCHANGED <<ws, configMap, podCache, deployed, queued, pc, snap,
                       history>>

(* The kubelet mounts the ConfigMap as it is when the container starts.    *)
StartBuild(a) ==
    /\ Waiting(pods[a])
    /\ LET scripted == ScriptOf[pods[a].hash] # NoScript
       IN  /\ scripted => configMap # None
           /\ pods' = [pods EXCEPT ![a].phase = "Running",
                         ![a].script = IF scripted THEN configMap ELSE NoScript]
    /\ PodOnly /\ UNCHANGED <<image, budget>>

(* The container pushes the image and ends, in its grace period too.       *)
FinishBuild(a) ==
    /\ pods[a] # None /\ pods[a].phase = "Running"
    /\ pods' = [pods EXCEPT ![a].phase = "Succeeded"]
    /\ image' = [by |-> a, cfg |-> pods[a].hash, script |-> pods[a].script]
    /\ PodOnly /\ UNCHANGED budget

(* A deleted pod is gone once its container is.                            *)
RemovePod(a) ==
    /\ pods[a] # None /\ pods[a].going
    /\ pods' = [pods EXCEPT ![a] = None]
    /\ PodOnly /\ UNCHANGED <<image, budget>>

(* Evicted from its node, the pod fails for good (RestartPolicy OnFailure  *)
(* restarts the container only).                                           *)
Evict(a) ==
    /\ pods[a] # None /\ pods[a].phase \in {"Pending", "Running"}
    /\ Step("evict")
    /\ pods' = [pods EXCEPT ![a].phase = "Failed"]
    /\ PodOnly /\ UNCHANGED image

(* Someone deletes the build pod, for instance to build again.             *)
DeletePod(a) ==
    /\ pods[a] # None /\ ~pods[a].going
    /\ Step("delete")
    /\ pods' = [pods EXCEPT ![a].going = TRUE]
    /\ PodOnly /\ UNCHANGED image

EditSpec ==
    /\ budget.edits > 0 /\ budget' = [budget EXCEPT !.edits = @ - 1]
    /\ ws' \in WebServers \ {ws}
    /\ queued' = TRUE
    /\ UNCHANGED <<configMap, pods, podCache, image, deployed, pc, snap, history>>

-----------------------------------------------------------------------------
Init ==
    /\ ws \in [app : FirstApps, cfg : FirstCfgs]
    /\ configMap = None
    /\ pods = [a \in Apps |-> None] /\ podCache = pods
    /\ image = None /\ deployed = None
    /\ queued = TRUE /\ pc = "idle" /\ snap = None
    /\ missed = "none" /\ behind = FALSE /\ late = FALSE
    /\ budget = [edits |-> MaxEdits, faults |-> MaxFaults]

Kubelet(a) == StartBuild(a) \/ FinishBuild(a) \/ RemovePod(a)
Others(a) == Evict(a) \/ DeletePod(a)

Next ==
    \/ Reconcile \/ DeployFails \/ CallFails \/ Crash \/ SyncPods \/ EditSpec
    \/ \E a \in Apps : Kubelet(a) \/ Others(a)

Spec == Init /\ [][Next]_vars

(* The worker, the informer and the kubelets keep going.                   *)
FairSpec ==
    /\ Spec
    /\ WF_vars(Reconcile) /\ WF_vars(SyncPods)
    /\ \A a \in Apps : WF_vars(Kubelet(a))

-----------------------------------------------------------------------------
Locations == {"idle", "script", "pod", "create", "delete", "deploy"}

(* Every variable has its type, a build pod is there only for a webApp and *)
(* runs something, and a reconcile in progress has its WebServer.          *)
TypeOK ==
    /\ ws \in WebServers
    /\ configMap \in Scripts \cup {None}
    /\ pods \in [Apps -> BuildPods \cup {None}]
    /\ podCache \in [Apps -> BuildPods \cup {None}]
    /\ image \in Images \cup {None}
    /\ deployed \in WebServers \cup {None}
    /\ queued \in BOOLEAN /\ pc \in Locations
    /\ snap \in WebServers \cup {None}
    /\ missed \in {"none", "delete", "update"}
    /\ behind \in BOOLEAN /\ late \in BOOLEAN
    /\ budget \in [edits : Nat, faults : Nat]
    /\ pc # "idle" => snap \in WebServers
    /\ pc \notin {"idle", "deploy"} => NeedsBuild(snap)
    /\ pc = "script" => HasScript(snap)
    /\ \A a \in Apps : pods[a] # None /\ pods[a].phase = "Running"
                        => pods[a].script # None

Quiet == pc = "idle" /\ ~queued

(* The operator stops looking only when the workload is made from the      *)
(* current spec, or when its last reconcile has passed over an error (the  *)
(* pod to delete was gone, the Update of the workload was refused): no     *)
(* build is forgotten otherwise, finished or not.                          *)
QuietMeansDeployed == Quiet /\ missed = "none" => deployed = ws

(* The last push was the build of the WebServer s: by its pod, labelled    *)
(* with its hash, which ran its script.  A pod of another application name *)
(* may have pushed over it since: a rename does not stop a build.          *)
HoldsBuildOf(s) ==
    /\ image # None
    /\ image.by = s.app =>
         image = [by |-> s.app, cfg |-> s.cfg, script |-> ScriptOf[s.cfg]]

(* Once the operator has come to rest, errors passed over aside, the       *)
(* repository holds the build of the current configuration: what the       *)
(* workload pulls from now on (imagePullPolicy Always) is no other build   *)
(* under the same application name.  Build pods are not watched: a last    *)
(* reconcile that began with an old copy of one is excepted, and so is     *)
(* what follows the early rewriting of a script.                           *)
QuietMeansOwnImage ==
    Quiet /\ missed = "none" /\ ~behind /\ ~late /\ NeedsBuild(ws)
      => HoldsBuildOf(ws)

(* A configuration is deployed only when the repository holds its build:   *)
(* never before the build succeeded, never with what another configuration *)
(* or another's script was built to, unless it was decided with an old     *)
(* copy of the build pod, or a script has been rewritten before the pod    *)
(* that was to mount it had started.                                       *)
DeployedWasBuilt ==
    [][deployed' # deployed /\ NeedsBuild(deployed') /\ ~behind /\ ~late
         => HoldsBuildOf(deployed')]_vars

(* Edits and errors over, the current spec is deployed, unless its build   *)
(* pod failed for good: that one is polled for ever and never replaced; or *)
(* the operator has gone to rest with an error passed over.                *)
BuildFailed ==
    LET p == pods[ws.app]
    IN  NeedsBuild(ws) /\ p # None /\ p.hash = ws.cfg /\ p.phase = "Failed"

GaveUp == Quiet /\ missed # "none"

EventuallyDeployed == <>[](deployed = ws \/ BuildFailed \/ GaveUp)
=============================================================================
