------------------------- MODULE WorkloadReconciler -------------------------
(***************************************************************************)
(* How the operator turns one WebServer into one running Deployment or     *)
(* StatefulSet: Reconcile (webserver_controller.go) from the dequeued key  *)
(* to the status write, with continueWithDeployment/-StatefulSet and       *)
(* checkOwnedObjects (helper.go).                                          *)
(*                                                                         *)
(* The client reads informer caches and writes to the API server, so every *)
(* read may be old and every call is a step of its own.  A resource        *)
(* version is only ever compared with the current one: what the model      *)
(* keeps of it is whether a copy is still the current version (lag, wsLag, *)
(* objCurrent, snapCurrent).                                               *)
(*                                                                         *)
(* The objects provisioned before the workload (services, config maps,     *)
(* routes, claims, builds) are taken to exist here; that part of Reconcile *)
(* shows as a call that may end the reconcile early ("workload" in         *)
(* FailingCalls) or leave out the workload ("image").                      *)
(*                                                                         *)
(* Reconcile returns early for an error or a requeue only (lines 325-336). *)
(* Where the code answers an error with neither, it is passed over and the *)
(* reconcile goes on with the owned objects and the status; missed         *)
(* remembers that it did, and behind whether the workload informers had    *)
(* yet to catch up when it began; only the properties look at these two.   *)
(***************************************************************************)
EXTENDS Integers, FiniteSets

CONSTANTS
    Apps,             \* values of spec.applicationName, the workload's name
    Cfgs,             \* everything in the spec that getWebServerHash digests,
                      \*   but the application name
    Claims,           \* spec.volume.volumeClaimTemplates of a configuration
    NoClaims,         \* the value of Claims[c] when the list is empty
    PlainImage,       \* configurations with a webImage and no webApp to build
    ImageStreams,     \* configurations with a webImageStream, no webImage
    Replicas,         \* values of spec.replicas
    Uids,             \* object UIDs of successive WebServers of this name
    Watched,          \* workload kinds the controller Owns()
    FailingCalls,     \* calls that may answer with an error of their own
    Drifts,           \* what others may do to a workload behind the operator
    MaxDisturbances,  \* bound on edits, drifts, failed calls and crashes
    Absent, NoHash, Foreign

Kinds == {"Deployment", "StatefulSet"}
Calls == {"workload", "image", "create", "replace", "update", "delete",
          "status"}

ASSUME ConstantsAssumption ==
    /\ PlainImage \subseteq Cfgs
    /\ ImageStreams \subseteq Cfgs \ PlainImage
    /\ Replicas \subseteq Nat
    /\ Watched \subseteq Kinds
    /\ FailingCalls \subseteq Calls
    /\ Drifts \subseteq {"scale", "image", "unlabel", "delete"}
    /\ MaxDisturbances \in Nat
    /\ NoHash \notin Cfgs
    /\ Foreign \notin Cfgs

(* A WebServer needs a StatefulSet exactly when it has claim templates.    *)
KindOf(c) == IF Claims[c] = NoClaims THEN "Deployment" ELSE "StatefulSet"

Keys == Kinds \X Apps
KeysOf(kind) == {k \in Keys : k[1] = kind}

(* The workload object a spec asks for.                                    *)
Desired(s) == <<KindOf(s.cfg), s.app>>

WebServers == [uid : Uids, app : Apps, cfg : Cfgs, replicas : Replicas]

(* hash: the webserver-hash label; tmpl: the configuration the pod         *)
(* template was generated from; image: the configuration whose image the   *)
(* container runs; ready: .status.replicas; owner: the controller UID.     *)
Workloads == [hash : Cfgs \cup {NoHash}, tmpl : Cfgs,
              image : Cfgs \cup {Foreign}, replicas : Nat, ready : Nat,
              owner : Uids]

ASSUME AbsentAssumption == Absent \notin Workloads \cup WebServers

(* WebServerStatus, the pod list reduced to its length.                    *)
Statuses == [pods : Nat, replicas : Nat, scaling : Int]

VARIABLES
    ws, status,       \* the WebServer in the API server (or Absent), its status
    store,            \* the workloads in the API server
    wsCache, statusCache, wsLag,   \* WebServer informer; wsLag: not the latest
    cache, lag,       \* workload informers; lag: keys not the latest
    podCache,         \* pod informer: pods carrying the labels of a workload
    queued,           \* the key is in the work queue, or will be added
    pc,               \* where the reconcile is
    snap, mem,        \* the reconcile's WebServer and its in-memory status
    snapCurrent,      \* snap carries the current resourceVersion
    obj, objCurrent,  \* the amended workload and its resourceVersion
    doomed,           \* owned objects checkOwnedObjects still has to delete
    requeue, dirty,   \* the locals requeue and updateStatus of Reconcile
    missed,           \* the error this reconcile, or the last one, has passed
                      \*   over: the "image" is not to be had, the "update" of
                      \*   an outdated workload was refused, or "none"
    behind,           \* it began with old copies of workloads in the caches
    budget            \* disturbances left

api       == <<ws, status, store>>
informers == <<wsCache, statusCache, wsLag, cache, lag, podCache>>
locals    == <<snap, mem, snapCurrent, obj, objCurrent, doomed, requeue, dirty>>
history   == <<missed, behind>>
vars      == <<api, informers, queued, pc, locals, history, budget>>

NoStatus == [pods |-> 0, replicas |-> 0, scaling |-> 0]

-----------------------------------------------------------------------------
(* Writes as the API server performs them.                                 *)

(* A write that changes nothing leaves the resource version alone.         *)
Write(k, o) ==
    /\ store' = [store EXCEPT ![k] = o]
    /\ lag' = IF o = store[k] THEN lag ELSE lag \cup {k}

(* A write by anyone else also makes the reconcile's copy an old version.  *)
OtherWrites(k, o) ==
    /\ Write(k, o)
    /\ objCurrent' = (objCurrent /\ k # Desired(snap))

Disturb == budget > 0 /\ budget' = budget - 1

(* The reconcile is over and its locals are gone.                          *)
Forget ==
    /\ pc' = "idle"
    /\ snap' = Absent /\ mem' = NoStatus /\ snapCurrent' = FALSE
    /\ obj' = Absent /\ objCurrent' = FALSE
    /\ doomed' = {} /\ requeue' = FALSE /\ dirty' = FALSE

(* Reconcile returns: the key is added to the queue again or dropped.      *)
Return(again) == Forget /\ queued' = (queued \/ again) /\ UNCHANGED history

(* An error is answered with neither an error nor a requeue: on to the     *)
(* owned objects, the workload as it is.                                   *)
PassOver(error) ==
    /\ pc' = "listDeployments" /\ missed' = error
    /\ UNCHANGED <<queued, locals, behind>>

-----------------------------------------------------------------------------
(* The reconcile, one call at a time.                                      *)

(* The worker takes the key; getWebServer reads the cache.  A WebServer    *)
(* that is gone ends the reconcile without a requeue.                      *)
Start ==
    /\ pc = "idle" /\ queued
    /\ queued' = FALSE
    /\ missed' = "none" /\ behind' = (lag # {})
    /\ IF wsCache = Absent
       THEN UNCHANGED <<pc, locals>>
       ELSE /\ pc' = "workload"
            /\ snap' = wsCache
            /\ mem' = statusCache
            /\ snapCurrent' = ~wsLag
            /\ UNCHANGED <<obj, objCurrent, doomed, requeue, dirty>>
    /\ UNCHANGED <<api, informers, budget>>

(* getWebServerHash, and generatePodTemplate with the pull secrets, probes *)
(* and environment it generates: both are functions of the configuration   *)
(* and of the application name, which the key already holds.               *)
HashOf(s) == s.cfg
TemplateOf(s) == s.cfg

(* The object generateDeployment/generateStatefulSet builds, labelled with *)
(* the hash and controlled by the WebServer.                               *)
NewWorkload(s) ==
    [hash |-> HashOf(s), tmpl |-> TemplateOf(s), image |-> s.cfg,
     replicas |-> s.replicas, ready |-> 0, owner |-> s.uid]

(* A wrong regeneration, which changes the label and keeps the template.   *)
Relabelled(o, s) == [o EXCEPT !.hash = HashOf(s), !.replicas = s.replicas]

(* What generateUpdatedDeployment/-StatefulSet makes of an existing object: *)
(* everything anew, but for the status.                                    *)
Regenerated(o, s) == [NewWorkload(s) EXCEPT !.ready = o.ready]

(* A wrong in-place correction, which forgets to scale.                     *)
AmendedButScale(o, s) ==
    [o EXCEPT !.hash = HashOf(s),
              !.image = IF s.cfg \in PlainImage THEN s.cfg ELSE @]

(* The in-place corrections: a missing hash label, a foreign image, the    *)
(* number of replicas.                                                     *)
Amended(o, s) ==
    [o EXCEPT !.hash = HashOf(s),
              !.image = IF s.cfg \in PlainImage THEN s.cfg ELSE @,
              !.replicas = s.replicas]

(* continueWithStatefulSet compares the image with spec.webImage, without  *)
(* the nil check its Deployment twin makes.                                *)
Panics(s) == KindOf(s.cfg) = "StatefulSet" /\ s.cfg \in ImageStreams

(* createDeployment's Get and the decisions made on what it returned.      *)
ReadWorkload ==
    /\ pc = "workload"
    /\ LET k == Desired(snap)
           o == cache[k]
       IN  \/ /\ o = Absent
              /\ pc' = "create"
              /\ UNCHANGED <<obj, objCurrent>>
           \/ /\ o # Absent /\ o.hash \notin {NoHash, HashOf(snap)}
              /\ pc' = "replace"
              /\ UNCHANGED <<obj, objCurrent>>
           \/ /\ o # Absent /\ o.hash \in {NoHash, HashOf(snap)}
              /\ ~Panics(snap) /\ o # Amended(o, snap)
              /\ pc' = "update"
              /\ obj' = Amended(o, snap)
              /\ objCurrent' = (k \notin lag)
           \/ /\ o # Absent /\ o = Amended(o, snap) /\ ~Panics(snap)
              /\ pc' = "listDeployments"
              /\ UNCHANGED <<obj, objCurrent>>
    /\ UNCHANGED <<api, informers, queued, snap, mem, snapCurrent, doomed,
                   requeue, dirty, history, budget>>

(* What has to be there first is not: the image stream the spec names      *)
(* (logged only), or the build pod of the configuration before, which was  *)
(* to be deleted.                                                          *)
NoImage ==
    /\ pc = "workload" /\ "image" \in FailingCalls
    /\ snap.cfg \notin PlainImage
    /\ Disturb
    /\ PassOver("image")
    /\ UNCHANGED <<api, informers>>

(* The controller recovers from the panic and puts the key back.           *)
PanicOnStream ==
    /\ pc = "workload" /\ Panics(snap)
    /\ LET o == cache[Desired(snap)]
       IN  o # Absent /\ o.hash \in {NoHash, HashOf(snap)}
    /\ Return(TRUE)
    /\ UNCHANGED <<api, informers, budget>>

(* Create: AlreadyExists is not an error; both answers requeue.            *)
CreateWorkload ==
    /\ pc = "create"
    /\ LET k == Desired(snap)
       IN  IF store[k] = Absent THEN Write(k, NewWorkload(snap))
                                ELSE UNCHANGED <<store, lag>>
    /\ Return(TRUE)
    /\ UNCHANGED <<ws, status, wsCache, statusCache, wsLag, cache, podCache,
                   budget>>

(* What the API server lets generateUpdatedStatefulSet change: the claim   *)
(* templates of a StatefulSet are immutable.                               *)
Accepts(k, s) ==
    /\ store[k] # Absent
    /\ k[1] = "StatefulSet" => Claims[store[k].tmpl] = Claims[s.cfg]

(* generateUpdatedDeployment drops the resource version with the rest of   *)
(* the metadata, so this Update overwrites whatever is there.  A refusal   *)
(* (NotFound, Invalid) is passed over.                                     *)
ReplaceWorkload ==
    /\ pc = "replace"
    /\ LET k == Desired(snap)
       IN  IF Accepts(k, snap)
           THEN /\ Write(k, Regenerated(store[k], snap))
                /\ Return(TRUE)
           ELSE /\ UNCHANGED <<store, lag>>
                /\ PassOver("update")
    /\ UNCHANGED <<ws, status, wsCache, statusCache, wsLag, cache, podCache,
                   budget>>

(* So is any other error of that Update but a conflict.                    *)
ReplaceFails ==
    /\ pc = "replace" /\ "replace" \in FailingCalls
    /\ Disturb
    /\ PassOver("update")
    /\ UNCHANGED <<api, informers>>

(* Update with the resource version read: a conflict is logged, NotFound   *)
(* is returned as an error; every answer requeues.                         *)
UpdateWorkload ==
    /\ pc = "update"
    /\ IF objCurrent THEN Write(Desired(snap), obj)
                     ELSE UNCHANGED <<store, lag>>
    /\ Return(TRUE)
    /\ UNCHANGED <<ws, status, wsCache, statusCache, wsLag, cache, podCache,
                   budget>>

(* Wrong selections: only the kind that is not wanted (a renamed workload  *)
(* stays), only the wanted kind (a switched one stays), the desired too.   *)
OwnedOfOtherKind(kind) ==
    {k \in KeysOf(kind) : /\ kind # KindOf(snap.cfg)
                          /\ cache[k] # Absent /\ cache[k].owner = snap.uid}
OwnedOfSameKind(kind) ==
    {k \in KeysOf(kind) : /\ kind = KindOf(snap.cfg) /\ k # Desired(snap)
                          /\ cache[k] # Absent /\ cache[k].owner = snap.uid}
OwnedAll(kind) ==
    {k \in KeysOf(kind) : cache[k] # Absent /\ cache[k].owner = snap.uid}

(* What a cached List by owner UID returns, the desired object left out.   *)
OwnedOthers(kind) ==
    {k \in KeysOf(kind) : /\ k # Desired(snap)
                          /\ cache[k] # Absent
                          /\ cache[k].owner = snap.uid}

(* checkOwnedObjects lists the owned Deployments, then the StatefulSets.   *)
ListDeployments ==
    /\ pc = "listDeployments"
    /\ doomed' = OwnedOthers("Deployment")
    /\ pc' = "listStatefulSets"
    /\ UNCHANGED <<api, informers, queued, snap, mem, snapCurrent, obj,
                   objCurrent, requeue, dirty, history, budget>>

ListStatefulSets ==
    /\ pc = "listStatefulSets"
    /\ doomed' = doomed \cup OwnedOthers("StatefulSet")
    /\ pc' = "delete"
    /\ UNCHANGED <<api, informers, queued, snap, mem, snapCurrent, obj,
                   objCurrent, requeue, dirty, history, budget>>

(* One Delete by name: the kind that is not wanted goes first, and a       *)
(* NotFound is returned as an error.                                       *)
DeleteOwned(k) ==
    /\ pc = "delete" /\ k \in doomed
    /\ k[1] = KindOf(snap.cfg) => \A j \in doomed : j[1] = k[1]
    /\ IF store[k] = Absent
       THEN /\ Return(TRUE)
            /\ UNCHANGED <<store, lag>>
       ELSE /\ Write(k, Absent)
            /\ doomed' = doomed \ {k}
            /\ UNCHANGED <<queued, pc, snap, mem, snapCurrent, obj,
                           objCurrent, requeue, dirty, history>>
    /\ UNCHANGED <<ws, status, wsCache, statusCache, wsLag, cache, podCache,
                   budget>>

(* getPodList and getPodStatus: a wrong number of pods means poll again.   *)
ReadPods ==
    /\ pc = "delete" /\ doomed = {}
    /\ LET n == podCache[Desired(snap)]
       IN  /\ requeue' = (n # snap.replicas)
           /\ dirty' = (n # mem.pods)
           /\ mem' = [mem EXCEPT !.pods = n]
    /\ pc' = "replicas"
    /\ UNCHANGED <<api, informers, queued, snap, snapCurrent, obj, objCurrent,
                   doomed, history, budget>>

(* Wrong counts: -1 for an unreadable workload, the replicas asked for.    *)
FoundOrMinusOne ==
    LET o == cache[Desired(snap)] IN IF o = Absent THEN -1 ELSE o.ready
FoundWanted ==
    LET o == cache[Desired(snap)] IN IF o = Absent THEN 0 ELSE o.replicas

(* getReplicaStatus: the workload's own count, 0 when it cannot be read.   *)
FoundReplicas ==
    LET o == cache[Desired(snap)] IN IF o = Absent THEN 0 ELSE o.ready

ReadReplicas ==
    /\ pc = "replicas"
    /\ LET found == FoundReplicas
           new == [mem EXCEPT !.replicas = found,
                              !.scaling = found - snap.replicas]
       IN  IF dirty \/ new # mem
           THEN /\ mem' = new
                /\ dirty' = TRUE
                /\ pc' = "status"
                /\ UNCHANGED <<queued, snap, snapCurrent, obj, objCurrent,
                               doomed, requeue, history>>
           ELSE Return(requeue)
    /\ UNCHANGED <<api, informers, budget>>

(* Status().Update with the resource version of the snapshot: a conflict   *)
(* requeues, NotFound is returned as an error.                             *)
WriteStatus ==
    /\ pc = "status"
    /\ IF snapCurrent
       THEN status' = mem /\ wsLag' = TRUE /\ Return(requeue)
       ELSE UNCHANGED <<status, wsLag>> /\ Return(TRUE)
    /\ UNCHANGED <<ws, store, wsCache, statusCache, cache, lag, podCache,
                   budget>>

(* Any other call answers with an error other than the ones above: it is   *)
(* returned, and so requeued.                                              *)
CallFails ==
    /\ pc \in FailingCalls \ {"replace"}
    /\ pc = "delete" => doomed # {}
    /\ Disturb
    /\ Return(TRUE)
    /\ UNCHANGED <<api, informers>>

Reconcile ==
    \/ Start \/ ReadWorkload \/ PanicOnStream \/ CreateWorkload \/ ReplaceWorkload
    \/ UpdateWorkload \/ ListDeployments \/ ListStatefulSets
    \/ \E k \in Keys : DeleteOwned(k)
    \/ ReadPods \/ ReadReplicas \/ WriteStatus

ActualPods(k) == IF store[k] = Absent THEN 0 ELSE store[k].ready

(* The operator stops anywhere; on restart the informers list everything   *)
(* and enqueue the WebServer.                                              *)
Crash ==
    /\ Disturb
    /\ Forget
    /\ queued' = (ws # Absent) /\ missed' = "none" /\ behind' = FALSE
    /\ wsCache' = ws /\ statusCache' = status /\ wsLag' = FALSE
    /\ cache' = store /\ lag' = {}
    /\ podCache' = [k \in Keys |-> ActualPods(k)]
    /\ UNCHANGED api

-----------------------------------------------------------------------------
(* The informers.  SetupWithManager registers the WebServer, and the kinds *)
(* in Watched, as event sources; the other caches fill silently.           *)

WakesNever(kind) == FALSE   \* wrong: Owns() left out

Wakes(kind) == kind \in Watched

SyncWebServer ==
    /\ wsLag
    /\ wsCache' = ws /\ statusCache' = status /\ wsLag' = FALSE
    /\ queued' = TRUE
    /\ UNCHANGED <<api, cache, lag, podCache, pc, locals, history, budget>>

SyncWorkloads(kind) ==
    /\ lag \cap KeysOf(kind) # {}
    /\ cache' = [k \in Keys |-> IF k[1] = kind THEN store[k] ELSE cache[k]]
    /\ lag' = lag \ KeysOf(kind)
    /\ queued' = (queued \/ Wakes(kind))
    /\ UNCHANGED <<api, wsCache, statusCache, wsLag, podCache, pc, locals,
                   history, budget>>

SyncPods ==
    /\ podCache # [k \in Keys |-> ActualPods(k)]
    /\ podCache' = [k \in Keys |-> ActualPods(k)]
    /\ UNCHANGED <<api, wsCache, statusCache, wsLag, cache, lag, queued, pc,
                   locals, history, budget>>

-----------------------------------------------------------------------------
(* The users and the rest of the cluster.                                  *)

(* The spec changes; the copy the reconcile holds becomes an old version.  *)
ChangeWebServer(new, st) ==
    /\ Disturb
    /\ ws' = new /\ status' = st /\ wsLag' = TRUE
    /\ snapCurrent' = FALSE
    /\ UNCHANGED <<store, wsCache, statusCache, cache, lag, podCache, queued,
                   pc, snap, mem, obj, objCurrent, doomed, requeue, dirty,
                   history>>

EditSpec ==
    /\ ws # Absent
    /\ \E new \in WebServers :
         new # ws /\ new.uid = ws.uid /\ ChangeWebServer(new, status)

DeleteWebServer == ws # Absent /\ ChangeWebServer(Absent, NoStatus)

(* UIDs still in use.                                                      *)
UsedUids == {o.uid : o \in {ws, wsCache, snap} \ {Absent}} \cup
            {store[k].owner : k \in {j \in Keys : store[j] # Absent}} \cup
            {cache[k].owner : k \in {j \in Keys : cache[j] # Absent}}

CreateWebServer ==
    /\ ws = Absent
    /\ \E new \in WebServers :
         new.uid \notin UsedUids /\ ChangeWebServer(new, NoStatus)

(* Someone scales a workload, sets its image, strips its label, deletes it.*)
Drifted(o) ==
    (IF "scale" \in Drifts THEN {[o EXCEPT !.replicas = n] : n \in Replicas}
                           ELSE {}) \cup
    (IF "image" \in Drifts THEN {[o EXCEPT !.image = Foreign]} ELSE {}) \cup
    (IF "unlabel" \in Drifts THEN {[o EXCEPT !.hash = NoHash]} ELSE {}) \cup
    (IF "delete" \in Drifts THEN {Absent} ELSE {})

RestUnchanged ==
    UNCHANGED <<ws, status, wsCache, statusCache, wsLag, cache, podCache,
                queued, pc, snap, mem, snapCurrent, obj, doomed, requeue,
                dirty, history>>

Drift(k) ==
    /\ store[k] # Absent
    /\ Disturb
    /\ \E o \in Drifted(store[k]) : o # store[k] /\ OtherWrites(k, o)
    /\ RestUnchanged

(* The Deployment or StatefulSet controller: pods and .status.replicas.    *)
RunPods(k) ==
    /\ store[k] # Absent /\ store[k].ready # store[k].replicas
    /\ OtherWrites(k, [store[k] EXCEPT !.ready = store[k].replicas])
    /\ UNCHANGED budget
    /\ RestUnchanged

(* The garbage collector removes what a WebServer that is gone owned.      *)
CollectGarbage(k) ==
    /\ store[k] # Absent
    /\ ws # Absent => store[k].owner # ws.uid
    /\ OtherWrites(k, Absent)
    /\ UNCHANGED budget
    /\ RestUnchanged

-----------------------------------------------------------------------------
Init ==
    /\ ws \in WebServers /\ status = NoStatus
    /\ store = [k \in Keys |-> Absent]
    /\ wsCache = ws /\ statusCache = status /\ wsLag = FALSE
    /\ cache = store /\ lag = {} /\ podCache = [k \in Keys |-> 0]
    /\ queued = TRUE
    /\ pc = "idle"
    /\ snap = Absent /\ mem = NoStatus /\ snapCurrent = FALSE
    /\ obj = Absent /\ objCurrent = FALSE
    /\ doomed = {} /\ requeue = FALSE /\ dirty = FALSE
    /\ missed = "none" /\ behind = FALSE
    /\ budget = MaxDisturbances

Informers == SyncWebServer \/ SyncPods \/ \E kind \in Kinds : SyncWorkloads(kind)
Cluster == \E k \in Keys : RunPods(k) \/ CollectGarbage(k)
Users == EditSpec \/ DeleteWebServer \/ CreateWebServer \/ \E k \in Keys : Drift(k)

Failures == CallFails \/ NoImage \/ ReplaceFails

Next == Reconcile \/ Failures \/ Crash \/ Informers \/ Cluster \/ Users

Spec == Init /\ [][Next]_vars

(* The worker, every informer and the cluster's controllers keep going;    *)
(* nobody has to edit, fail or crash.                                      *)
Fairness ==
    /\ WF_vars(Reconcile)
    /\ WF_vars(SyncWebServer) /\ WF_vars(SyncPods)
    /\ \A kind \in Kinds : WF_vars(SyncWorkloads(kind))
    /\ \A k \in Keys : WF_vars(RunPods(k)) /\ WF_vars(CollectGarbage(k))

FairSpec == Spec /\ Fairness

-----------------------------------------------------------------------------
Locations == {"idle", "workload", "create", "replace", "update",
              "listDeployments", "listStatefulSets", "delete", "replicas",
              "status"}

(* Every variable has its type, and the locals of a reconcile in progress  *)
(* are there when its next step reads them.                                *)
TypeOK ==
    /\ ws \in WebServers \cup {Absent} /\ status \in Statuses
    /\ store \in [Keys -> Workloads \cup {Absent}]
    /\ wsCache \in WebServers \cup {Absent} /\ statusCache \in Statuses
    /\ cache \in [Keys -> Workloads \cup {Absent}]
    /\ wsLag \in BOOLEAN /\ lag \subseteq Keys
    /\ podCache \in [Keys -> Nat]
    /\ queued \in BOOLEAN /\ pc \in Locations
    /\ snap \in WebServers \cup {Absent} /\ mem \in Statuses
    /\ snapCurrent \in BOOLEAN /\ objCurrent \in BOOLEAN
    /\ obj \in Workloads \cup {Absent}
    /\ doomed \subseteq Keys
    /\ requeue \in BOOLEAN /\ dirty \in BOOLEAN
    /\ missed \in {"none", "image", "update"} /\ behind \in BOOLEAN
    /\ budget \in Nat
    /\ pc # "idle" => snap \in WebServers
    /\ pc = "update" => obj \in Workloads

(* Nothing is left that could wake the operator.                           *)
Quiet == pc = "idle" /\ ~queued /\ ~wsLag /\ lag = {}

(* o is what the spec s asks for, as far as the operator looks.            *)
Satisfies(o, s) ==
    /\ o # Absent
    /\ o.hash = HashOf(s)
    /\ o.replicas = s.replicas
    /\ s.cfg \in PlainImage => o.image = s.cfg

Converged ==
    IF ws = Absent
    THEN \A k \in Keys : store[k] = Absent
    ELSE /\ Satisfies(store[Desired(ws)], ws)
         /\ \A k \in Keys \ {Desired(ws)} :
              store[k] # Absent => store[k].owner # ws.uid

(* When the operator has nothing left to do for a WebServer, the workload  *)
(* the spec asks for is there, with the hash label, the image and the      *)
(* replicas of the spec, and no other workload of the WebServer is.  The   *)
(* key is dropped while work remains only by a reconcile that has passed   *)
(* over an error of the image or of the Update after a hash change or,     *)
(* where some kind is not watched, has begun with old copies of workloads. *)
AllWatched == \A c \in Cfgs : KindOf(c) \in Watched

QuietMeansConverged ==
    Quiet /\ ws # Absent /\ missed = "none" /\ (AllWatched \/ ~behind)
      => Converged

(* When the operator has nothing left to do, the status shows the          *)
(* workload's own replica count, and the difference to the spec.           *)
QuietMeansStatusAccurate ==
    Quiet /\ ws # Absent =>
      /\ status.replicas = ActualPods(Desired(ws))
      /\ status.scaling = ActualPods(Desired(ws)) - ws.replicas

(* The webserver-hash label of a workload names the configuration its pod  *)
(* template was generated from: what lets getWebServerHash decide whether  *)
(* to redeploy.                                                            *)
HashNamesTemplate ==
    \A k \in Keys : store[k] # Absent /\ store[k].hash # NoHash =>
                      store[k].hash = store[k].tmpl

(* While a WebServer exists, the last workload it owns is never taken      *)
(* away: through every rename of the application, every switch between     *)
(* Deployment and StatefulSet and every refused Update, checkOwnedObjects  *)
(* removes the old workload only once the new one is there.  Excepted are  *)
(* a reconcile that did not get to the workload, for lack of its image,    *)
(* and one that began with old copies of workloads.                        *)
Owned == {k \in Keys : ws # Absent /\ store[k] # Absent
                         /\ store[k].owner = ws.uid}

NeverTheLast ==
    [][Owned # {} /\ ws' # Absent /\ missed # "image" /\ ~behind
         => Owned' # {}]_vars

(* Once the disturbances stop, the workload settles as the spec asks, and  *)
(* nothing of a deleted WebServer stays.                                   *)
EventuallyConverged == <>[]Converged

(* ... and the status settles on the workload's replica count.             *)
EventuallyReported ==
    <>[](ws # Absent => status.replicas = ActualPods(Desired(ws)))
=============================================================================
