---------------------------- MODULE BuildPod_proofs ----------------------------
(***************************************************************************)
(* Theorems about BuildPod, for every set of configurations, scripts and   *)
(* faults: its types, that no build is forgotten, and that nothing is      *)
(* deployed before its build.                                              *)
(***************************************************************************)
EXTENDS BuildPod, TLAPS

-----------------------------------------------------------------------------
(* Types.                                                                  *)

LEMMA InitTypes == Init => TypeOK
<1> SUFFICES ASSUME Init PROVE TypeOK
  OBVIOUS
<1>1. ws \in WebServers
  BY BuildAssumption DEF Init, WebServers
<1>2. budget \in [edits : Nat, faults : Nat]
  BY BuildAssumption DEF Init
<1>3. pods \in [Apps -> BuildPods \cup {None}] /\ podCache = pods
  BY DEF Init
<1>4. \A a \in Apps : pods[a] = None
  BY DEF Init
<1> QED
  BY <1>1, <1>2, <1>3, <1>4 DEF Init, TypeOK, Locations

(* A pod keeps its type through every change the model makes to one.       *)
LEMMA PodChanges ==
    ASSUME NEW p \in BuildPods, NEW x \in Phases,
           NEW y \in Scripts \cup {NoScript, None}
    PROVE  /\ [p EXCEPT !.phase = x] \in BuildPods
           /\ [p EXCEPT !.phase = x].phase = x
           /\ [p EXCEPT !.going = TRUE] \in BuildPods
           /\ [p EXCEPT !.going = TRUE].phase = p.phase
           /\ [p EXCEPT !.going = TRUE].script = p.script
           /\ [p EXCEPT !.going = TRUE].hash = p.hash
           /\ [p EXCEPT !.phase = x].hash = p.hash
           /\ [p EXCEPT !.phase = x, !.script = y] \in BuildPods
           /\ [p EXCEPT !.phase = x, !.script = y].script = y
           /\ [p EXCEPT !.phase = x, !.script = y].hash = p.hash
           /\ [p EXCEPT !.phase = x, !.script = y].phase = x
BY DEF BuildPods, Phases

LEMMA StepTypes == TypeOK /\ [Next]_vars => TypeOK'
<1> SUFFICES ASSUME TypeOK, [Next]_vars PROVE TypeOK'
  OBVIOUS
<1> USE DEF TypeOK, Locations, HasScript, history, Return, Over
<1>1. CASE Start
  BY <1>1 DEF Start, NeedsBuild, HasScript
<1>2. CASE UpdateScript
  <2>1. ScriptOf[snap.cfg] \in Scripts
    BY <1>2 DEF UpdateScript, NeedsBuild, HasScript, Scripts
  <2> QED
    BY <1>2, <2>1 DEF UpdateScript, NeedsBuild
<1>3. CASE ReadBuildPod
  BY <1>3 DEF ReadBuildPod
<1>4. CASE WaitForBuild
  BY <1>4 DEF WaitForBuild
<1>5. CASE CreateBuildPod
  <2>1. NewBuildPod(snap) \in BuildPods /\ NewBuildPod(snap).phase = "Pending"
    BY <1>5 DEF CreateBuildPod, NewBuildPod, NeedsBuild, BuildPods, Phases
  <2> QED
    BY <1>5, <2>1 DEF CreateBuildPod
<1>6. CASE DeleteBuildPod
  <2> DEFINE p == pods[snap.app]
             q == [p EXCEPT !.going = TRUE]
  <2>1. snap.app \in Apps
    BY <1>6 DEF DeleteBuildPod, WebServers
  <2>2. CASE p = None
    BY <1>6, <2>2 DEF DeleteBuildPod, PassOver
  <2>3. CASE p # None
    <3>1. p \in BuildPods
      BY <2>1, <2>3
    <3>2. q \in BuildPods /\ q.phase = p.phase /\ q.script = p.script
      BY <3>1, PodChanges, "Pending" \in Phases DEF Phases
    <3>3. pods' = [pods EXCEPT ![snap.app] = q]
      BY <1>6, <2>3 DEF DeleteBuildPod
    <3> QED
      BY <1>6, <2>1, <2>3, <3>2, <3>3 DEF DeleteBuildPod
  <2> QED
    BY <2>2, <2>3
<1>7. CASE Deploy
  BY <1>7 DEF Deploy, Rest
<1>8. CASE CallFails
  BY <1>8 DEF CallFails, Step
<1>9. CASE Crash
  <2>1. /\ pc' = "idle" /\ snap' = None /\ queued' \in BOOLEAN /\ missed' = "none" /\ late' = late
        /\ behind' = FALSE /\ podCache' = pods
        /\ budget' \in [edits : Nat, faults : Nat]
        /\ UNCHANGED <<ws, configMap, pods, image, deployed>>
    BY <1>9 DEF Crash, Step
  <2> QED
    BY <2>1
<1>14. CASE DeployFails
  BY <1>14 DEF DeployFails, PassOver, Step
<1>10. CASE SyncPods
  BY <1>10 DEF SyncPods, NeedsBuild
<1>11. CASE EditSpec
  BY <1>11 DEF EditSpec, NeedsBuild
<1>12. ASSUME NEW a \in Apps, Kubelet(a) \/ Others(a) PROVE TypeOK'
  <2> DEFINE p == pods[a]
  <2>1. CASE StartBuild(a)
    <3>1. p \in BuildPods
      BY <2>1 DEF StartBuild, Waiting
    <3> DEFINE y == IF ScriptOf[p.hash] # NoScript THEN configMap ELSE NoScript
    <3>2. y \in Scripts \cup {NoScript, None}
      OBVIOUS
    <3>3. y # None
      BY <2>1, BuildAssumption DEF StartBuild
    <3> DEFINE q == [p EXCEPT !.phase = "Running", !.script = y]
    <3>4. pods' = [pods EXCEPT ![a] = q]
      BY <2>1 DEF StartBuild
    <3> HIDE DEF y
    <3>5. q \in BuildPods
      BY <3>1, <3>2, PodChanges DEF Phases
    <3>6. q.script = y
      BY <3>1 DEF BuildPods
    <3> HIDE DEF q
    <3>7. pods' \in [Apps -> BuildPods \cup {None}]
      BY <3>4, <3>5
    <3>8. \A b \in Apps : pods'[b] = IF b = a THEN q ELSE pods[b]
      BY <3>4
    <3>9. UNCHANGED <<ws, configMap, podCache, image, deployed, queued, pc, snap,
                      missed, behind, late, budget>>
      BY <2>1 DEF StartBuild, PodOnly
    <3>10. \A b \in Apps : pods'[b] # None /\ pods'[b].phase = "Running"
                              => pods'[b].script # None
      BY <3>3, <3>6, <3>8
    <3> QED
      BY <3>7, <3>9, <3>10 DEF NeedsBuild
  <2>2. CASE FinishBuild(a)
    <3>1. p \in BuildPods
      BY <2>2 DEF FinishBuild
    <3>2. pods' = [pods EXCEPT ![a] = [p EXCEPT !.phase = "Succeeded"]]
      BY <2>2 DEF FinishBuild
    <3>3. [p EXCEPT !.phase = "Succeeded"] \in BuildPods
      BY <3>1, PodChanges DEF Phases
    <3>4. image' \in Images
      BY <2>2, <3>1 DEF FinishBuild, Images, BuildPods
    <3> QED
      BY <2>2, <3>2, <3>3, <3>4 DEF FinishBuild, PodOnly, NeedsBuild
  <2>3. CASE RemovePod(a)
    BY <2>3 DEF RemovePod, PodOnly, NeedsBuild
  <2>4. CASE Evict(a)
    <3>1. p \in BuildPods
      BY <2>4 DEF Evict
    <3>2. [p EXCEPT !.phase = "Failed"] \in BuildPods
      BY <3>1, PodChanges DEF Phases
    <3>3. pods' = [pods EXCEPT ![a] = [p EXCEPT !.phase = "Failed"]]
      BY <2>4 DEF Evict
    <3> QED
      BY <2>4, <3>2, <3>3 DEF Evict, PodOnly, Step, NeedsBuild
  <2>5. CASE DeletePod(a)
    <3>1. p \in BuildPods
      BY <2>5 DEF DeletePod
    <3>2. [p EXCEPT !.going = TRUE] \in BuildPods
      BY <3>1, PodChanges DEF Phases
    <3>3. pods' = [pods EXCEPT ![a] = [p EXCEPT !.going = TRUE]]
      BY <2>5 DEF DeletePod
    <3> QED
      BY <2>5, <3>2, <3>3 DEF DeletePod, PodOnly, Step, NeedsBuild
  <2> QED
    BY <1>12, <2>1, <2>2, <2>3, <2>4, <2>5 DEF Kubelet, Others
<1>13. CASE UNCHANGED vars
  BY <1>13 DEF vars, NeedsBuild
<1> QED
  BY <1>1, <1>2, <1>3, <1>4, <1>5, <1>6, <1>7, <1>8, <1>9, <1>10, <1>11,
     <1>12, <1>13, <1>14 DEF Next, Reconcile

(* Every reachable state has its types; a running build pod runs a script  *)
(* or the builder's own, and a reconcile in progress has its WebServer.    *)
THEOREM TypeCorrect == Spec => []TypeOK
BY InitTypes, StepTypes, PTL DEF Spec

-----------------------------------------------------------------------------
(* No build is forgotten.                                                  *)

(* A reconcile works for the current WebServer or another one follows.     *)
Current == pc # "idle" => snap = ws \/ queued
AtRest == Quiet /\ missed = "none" => deployed = ws
QuietInv == Current /\ AtRest

LEMMA QuietStep == QuietInv /\ [Next]_vars => QuietInv'
<1> SUFFICES ASSUME QuietInv, [Next]_vars PROVE QuietInv'
  OBVIOUS
<1> USE DEF QuietInv, Current, AtRest, Quiet, history, Return, Over
<1>1. CASE Start \/ UpdateScript \/ ReadBuildPod \/ WaitForBuild \/ CreateBuildPod
  BY <1>1 DEF Start, UpdateScript, ReadBuildPod, WaitForBuild, CreateBuildPod
<1>2. CASE DeleteBuildPod
  BY <1>2 DEF DeleteBuildPod, PassOver
<1>3. CASE Deploy
  BY <1>3 DEF Deploy, Rest
<1>4. CASE DeployFails \/ CallFails \/ Crash \/ SyncPods \/ EditSpec
  BY <1>4 DEF DeployFails, PassOver, CallFails, Crash, SyncPods, EditSpec
<1>5. CASE \E a \in Apps : Kubelet(a) \/ Others(a)
  BY <1>5 DEF Kubelet, Others, StartBuild, FinishBuild, RemovePod, Evict,
              DeletePod, PodOnly
<1>6. CASE UNCHANGED vars
  BY <1>6 DEF vars
<1> QED
  BY <1>1, <1>2, <1>3, <1>4, <1>5, <1>6 DEF Next, Reconcile

(* The operator comes to rest only with the current spec deployed or with  *)
(* an error passed over: no other failed call, crash, edit, eviction or    *)
(* deletion of a pod, however old the cache, makes it forget a build.      *)
THEOREM QuietCorrect == Spec => []QuietMeansDeployed
<1>1. Init => QuietInv
  BY DEF Init, QuietInv, Current, AtRest, Quiet
<1>2. QuietInv => QuietMeansDeployed
  BY DEF QuietInv, AtRest, QuietMeansDeployed
<1> QED
  BY <1>1, <1>2, QuietStep, PTL DEF Spec

-----------------------------------------------------------------------------
(* Nothing is deployed before its build, and nothing else is in its place. *)

(* a's build of c was pushed last, or another application's was.           *)
ImageOf(a, c) == [by |-> a, cfg |-> c, script |-> ScriptOf[c]]
Pushed(a, c) == image # None /\ (image.by = a => image = ImageOf(a, c))

Done(p) == p # None /\ p.phase = "Succeeded"
Settled(a) == pods[a] = None \/ Done(pods[a])

(* The ConfigMap has the script a pod that has yet to start was made for,  *)
(* and so each pod runs its own, as long as no script was rewritten early. *)
ScriptThere ==
    /\ pc \in {"pod", "create"} /\ HasScript(snap) => configMap = ScriptOf[snap.cfg]
    /\ \A a \in Apps : Waiting(pods[a]) /\ ScriptOf[pods[a].hash] # NoScript
                         => configMap = ScriptOf[pods[a].hash]
OwnScript ==
    \A a \in Apps : pods[a] # None /\ pods[a].phase \in {"Running", "Succeeded"}
                      => pods[a].script = ScriptOf[pods[a].hash]
ScriptInv == ~late => ScriptThere /\ OwnScript

(* A build that is done was pushed, and one a reconcile has seen done stays *)
(* what the repository holds for that application: until the reconcile     *)
(* makes another pod, there is none that could push over it.               *)
DonePushed == \A a \in Apps : Done(pods[a]) => Pushed(a, pods[a].hash)
SeenDone ==
    pc # "idle" /\ ~behind =>
      \A a \in Apps : Done(podCache[a]) => Settled(a) /\ Pushed(a, podCache[a].hash)
ReadyToDeploy ==
    pc = "deploy" /\ ~behind /\ NeedsBuild(snap) =>
      Settled(snap.app) /\ Pushed(snap.app, snap.cfg)
Rested ==
    Quiet /\ missed = "none" /\ ~behind /\ NeedsBuild(ws) =>
      Settled(ws.app) /\ Pushed(ws.app, ws.cfg)
ImageInv == ~late => DonePushed /\ SeenDone /\ ReadyToDeploy /\ Rested

(* What the cluster does to one build pod: it starts it, with the script   *)
(* the ConfigMap has, it finishes it, which pushes the image, it removes   *)
(* it, or it changes nothing that matters here.                            *)
Starts(a, q) ==
    /\ Waiting(pods[a]) /\ q.phase = "Running" /\ image' = image
    /\ q.script = IF ScriptOf[q.hash] # NoScript THEN configMap ELSE NoScript
Finishes(a, q) ==
    /\ pods[a].phase = "Running" /\ q.phase = "Succeeded"
    /\ q.script = pods[a].script
    /\ image' = [by |-> a, cfg |-> q.hash, script |-> q.script]
Fails(a, q) ==
    pods[a].phase \in {"Pending", "Running"} /\ q.phase = "Failed" /\ image' = image
Leaves(a, q) ==
    /\ q.phase = pods[a].phase /\ q.script = pods[a].script /\ q.going
    /\ image' = image

LEMMA PodSteps ==
    ASSUME TypeOK, NEW a \in Apps, Kubelet(a) \/ Others(a)
    PROVE  /\ pods[a] # None
           /\ UNCHANGED <<ws, configMap, podCache, deployed, queued, pc, snap, history>>
           /\ \/ pods' = [pods EXCEPT ![a] = None] /\ image' = image
              \/ \E q \in BuildPods :
                   /\ pods' = [pods EXCEPT ![a] = q] /\ q.hash = pods[a].hash
                   /\ Starts(a, q) \/ Finishes(a, q) \/ Fails(a, q) \/ Leaves(a, q)
<1> DEFINE p == pods[a]
<1>1. p # None /\ p \in BuildPods
      /\ UNCHANGED <<ws, configMap, podCache, deployed, queued, pc, snap, history>>
  BY DEF TypeOK, Kubelet, Others, StartBuild, Waiting, FinishBuild, RemovePod,
         Evict, DeletePod, PodOnly
<1>2. CASE StartBuild(a)
  <2> DEFINE y == IF ScriptOf[p.hash] # NoScript THEN configMap ELSE NoScript
             q == [p EXCEPT !.phase = "Running", !.script = y]
  <2>1. pods' = [pods EXCEPT ![a] = q] /\ image' = image /\ Waiting(p)
    BY <1>2 DEF StartBuild
  <2>2. y \in Scripts \cup {NoScript, None}
    BY DEF TypeOK
  <2>5. y = IF ScriptOf[p.hash] # NoScript THEN configMap ELSE NoScript
    OBVIOUS
  <2> HIDE DEF y
  <2>3. q \in BuildPods /\ q.hash = p.hash /\ q.phase = "Running" /\ q.script = y
    BY <1>1, <2>2 DEF BuildPods, Phases
  <2> HIDE DEF q
  <2>4. Starts(a, q)
    BY <2>1, <2>3, <2>5 DEF Starts
  <2> QED
    BY <1>1, <2>1, <2>3, <2>4
<1>3. CASE FinishBuild(a)
  <2> DEFINE q == [p EXCEPT !.phase = "Succeeded"]
  <2>1. /\ pods' = [pods EXCEPT ![a] = q] /\ p.phase = "Running"
        /\ image' = [by |-> a, cfg |-> p.hash, script |-> p.script]
    BY <1>3 DEF FinishBuild
  <2>2. /\ q \in BuildPods /\ q.hash = p.hash /\ q.phase = "Succeeded"
        /\ q.script = p.script
    BY <1>1 DEF BuildPods, Phases
  <2>3. Finishes(a, q)
    BY <2>1, <2>2 DEF Finishes
  <2> HIDE DEF q
  <2> QED
    BY <1>1, <2>1, <2>2, <2>3
<1>4. CASE RemovePod(a)
  BY <1>1, <1>4 DEF RemovePod
<1>5. CASE Evict(a)
  <2> DEFINE q == [p EXCEPT !.phase = "Failed"]
  <2>1. /\ pods' = [pods EXCEPT ![a] = q] /\ image' = image
        /\ p.phase \in {"Pending", "Running"}
    BY <1>5 DEF Evict
  <2>2. q \in BuildPods /\ q.hash = p.hash /\ q.phase = "Failed"
    BY <1>1 DEF BuildPods, Phases
  <2>3. Fails(a, q)
    BY <2>1, <2>2 DEF Fails
  <2> HIDE DEF q
  <2> QED
    BY <1>1, <2>1, <2>2, <2>3
<1>6. CASE DeletePod(a)
  <2> DEFINE q == [p EXCEPT !.going = TRUE]
  <2>1. pods' = [pods EXCEPT ![a] = q] /\ image' = image
    BY <1>6 DEF DeletePod
  <2>2. /\ q \in BuildPods /\ q.hash = p.hash /\ q.phase = p.phase
        /\ q.script = p.script /\ q.going
    BY <1>1 DEF BuildPods
  <2>3. Leaves(a, q)
    BY <2>1, <2>2 DEF Leaves
  <2> HIDE DEF q
  <2> QED
    BY <1>1, <2>1, <2>2, <2>3
<1> QED
  BY <1>2, <1>3, <1>4, <1>5, <1>6 DEF Kubelet, Others

(* The operator's own changes to a pod.                                    *)
LEMMA Marked ==
    ASSUME TypeOK, DeleteBuildPod, pods[snap.app] # None
    PROVE  \E q \in BuildPods :
             /\ pods' = [pods EXCEPT ![snap.app] = q]
             /\ q.hash = pods[snap.app].hash /\ q.phase = pods[snap.app].phase
             /\ q.script = pods[snap.app].script /\ q.going /\ snap.app \in Apps
<1> DEFINE p == pods[snap.app]
           q == [p EXCEPT !.going = TRUE]
<1>1. snap.app \in Apps /\ p \in BuildPods
  BY DEF DeleteBuildPod, TypeOK, WebServers
<1>2. /\ q \in BuildPods /\ q.hash = p.hash /\ q.phase = p.phase
      /\ q.script = p.script /\ q.going
  BY <1>1 DEF BuildPods
<1>3. pods' = [pods EXCEPT ![snap.app] = q]
  BY DEF DeleteBuildPod
<1> HIDE DEF q
<1> QED
  BY <1>1, <1>2, <1>3

(* Whether a script was rewritten too early is not forgotten.              *)
LEMMA LateStays == TypeOK /\ [Next]_vars /\ late => late'
BY DEF TypeOK, Next, Reconcile, Start, UpdateScript, ReadBuildPod, WaitForBuild,
       CreateBuildPod, DeleteBuildPod, Deploy, Rest, DeployFails, PassOver, CallFails,
       Crash, SyncPods, EditSpec, Kubelet, Others, StartBuild, FinishBuild,
       RemovePod, Evict, DeletePod, PodOnly, history, Return, vars

LEMMA ScriptStep ==
    ASSUME TypeOK, ScriptInv, [Next]_vars PROVE ScriptInv'
<1> SUFFICES ASSUME ~late' PROVE (ScriptThere /\ OwnScript)'
  BY DEF ScriptInv
<1>0. ScriptThere /\ OwnScript
  BY LateStays DEF ScriptInv
<1> USE <1>0 DEF ScriptThere, OwnScript, history, Return, Over
<1>1. CASE Start
  BY <1>1 DEF Start, HasScript
<1>2. CASE UpdateScript
  <2>1. \A a \in Apps : ~Overtaken(pods[a], snap)
    BY <1>2 DEF UpdateScript
  <2> QED
    BY <1>2, <2>1 DEF UpdateScript, HasScript, Overtaken
<1>3. CASE ReadBuildPod \/ WaitForBuild \/ Deploy \/ DeployFails \/ CallFails
  BY <1>3 DEF ReadBuildPod, WaitForBuild, Deploy, Rest, DeployFails, PassOver,
              CallFails, HasScript
<1>4. CASE CreateBuildPod
  <2> DEFINE q == NewBuildPod(snap)
  <2>1. snap \in WebServers /\ snap.app \in Apps
    BY <1>4 DEF CreateBuildPod, TypeOK, WebServers
  <2>2. q.hash = snap.cfg /\ q.phase = "Pending"
    BY DEF NewBuildPod
  <2>3. ScriptOf[snap.cfg] # NoScript => configMap = ScriptOf[snap.cfg]
    BY <1>4 DEF CreateBuildPod, HasScript
  <2>4. pods' = pods \/ pods' = [pods EXCEPT ![snap.app] = q]
    BY <1>4 DEF CreateBuildPod
  <2>5. pc' = "idle" /\ UNCHANGED configMap
    BY <1>4 DEF CreateBuildPod
  <2> HIDE DEF q
  <2> QED
    BY <2>1, <2>2, <2>3, <2>4, <2>5 DEF TypeOK, Waiting
<1>5. CASE DeleteBuildPod
  <2>1. pc' = "idle" /\ UNCHANGED configMap
    BY <1>5 DEF DeleteBuildPod, PassOver
  <2>2. CASE pods[snap.app] = None
    BY <1>5, <2>1, <2>2 DEF DeleteBuildPod
  <2>3. CASE pods[snap.app] # None
    <3>1. PICK q \in BuildPods :
             /\ pods' = [pods EXCEPT ![snap.app] = q]
             /\ q.hash = pods[snap.app].hash /\ q.phase = pods[snap.app].phase
             /\ q.script = pods[snap.app].script /\ q.going /\ snap.app \in Apps
      BY <1>5, <2>3, Marked
    <3> QED
      BY <2>1, <2>3, <3>1 DEF TypeOK, Waiting
  <2> QED
    BY <2>2, <2>3
<1>6. CASE Crash \/ SyncPods \/ EditSpec
  BY <1>6 DEF Crash, SyncPods, EditSpec, HasScript
<1>7. ASSUME NEW a \in Apps, Kubelet(a) \/ Others(a) PROVE (ScriptThere /\ OwnScript)'
  <2>1. UNCHANGED <<configMap, pc, snap>> /\ pods[a] # None
    BY <1>7, PodSteps
  <2>2. CASE pods' = [pods EXCEPT ![a] = None]
    BY <2>1, <2>2 DEF TypeOK, Waiting, HasScript
  <2>3. ASSUME NEW q \in BuildPods, pods' = [pods EXCEPT ![a] = q],
               q.hash = pods[a].hash,
               Starts(a, q) \/ Finishes(a, q) \/ Fails(a, q) \/ Leaves(a, q)
        PROVE  (ScriptThere /\ OwnScript)'
    <3>1. ~Waiting(q)
      BY <2>3 DEF Starts, Finishes, Fails, Leaves, Waiting
    <3>2. q.phase \in {"Running", "Succeeded"} => q.script = ScriptOf[q.hash]
      BY <2>1, <2>3 DEF Starts, Finishes, Fails, Leaves
    <3>3. \A b \in Apps : pods'[b] = IF b = a THEN q ELSE pods[b]
      BY <2>3 DEF TypeOK
    <3> QED
      BY <2>1, <3>1, <3>2, <3>3 DEF HasScript
  <2> QED
    BY <1>7, <2>2, <2>3, PodSteps
<1>8. CASE UNCHANGED vars
  BY <1>8 DEF vars, HasScript
<1> QED
  BY <1>1, <1>2, <1>3, <1>4, <1>5, <1>6, <1>7, <1>8 DEF Next, Reconcile

LEMMA ImageStep ==
    ASSUME TypeOK, QuietInv, ScriptInv, ImageInv, [Next]_vars PROVE ImageInv'
<1> DEFINE Inv == DonePushed /\ SeenDone /\ ReadyToDeploy /\ Rested
<1> SUFFICES ASSUME ~late' PROVE Inv'
  BY DEF ImageInv
<1>0. Inv /\ OwnScript
  BY LateStays DEF ImageInv, ScriptInv
<1> USE <1>0 DEF DonePushed, SeenDone, ReadyToDeploy, Rested, Settled, Pushed,
            Quiet, history, Return, Over
<1>1. CASE Start
  BY <1>1 DEF Start, NeedsBuild
<1>2. CASE UpdateScript \/ WaitForBuild \/ CallFails
  BY <1>2 DEF UpdateScript, WaitForBuild, CallFails
<1>3. CASE ReadBuildPod
  <2>1. /\ UNCHANGED <<ws, pods, podCache, image, queued, snap, missed, behind>>
        /\ pc = "pod" /\ pc' # "idle" /\ snap.app \in Apps
        /\ pc' = "deploy" => Done(podCache[snap.app])
                             /\ podCache[snap.app].hash = snap.cfg
    BY <1>3 DEF ReadBuildPod, Done, Stale, Ready, TypeOK, WebServers
  <2> QED
    BY <2>1
<1>4. CASE CreateBuildPod
  <2> DEFINE q == NewBuildPod(snap)
  <2>1. snap.app \in Apps /\ pc' = "idle" /\ queued' /\ UNCHANGED image
    BY <1>4 DEF CreateBuildPod, TypeOK, WebServers
  <2>2. ~Done(q)
    BY DEF NewBuildPod, Done
  <2>3. pods' = pods \/ pods' = [pods EXCEPT ![snap.app] = q]
    BY <1>4 DEF CreateBuildPod
  <2> HIDE DEF q
  <2> QED
    BY <2>1, <2>2, <2>3 DEF TypeOK
<1>5. CASE DeleteBuildPod
  <2>1. pc' = "idle" /\ UNCHANGED image
    BY <1>5 DEF DeleteBuildPod, PassOver
  <2>2. CASE pods[snap.app] = None
    BY <1>5, <2>1, <2>2 DEF DeleteBuildPod, PassOver
  <2>3. CASE pods[snap.app] # None
    <3>1. PICK q \in BuildPods :
             /\ pods' = [pods EXCEPT ![snap.app] = q]
             /\ q.hash = pods[snap.app].hash /\ q.phase = pods[snap.app].phase
             /\ q.script = pods[snap.app].script /\ q.going /\ snap.app \in Apps
      BY <1>5, <2>3, Marked
    <3>2. queued'
      BY <1>5, <2>3 DEF DeleteBuildPod
    <3> QED
      BY <2>1, <2>3, <3>1, <3>2 DEF TypeOK, Done
  <2> QED
    BY <2>2, <2>3
<1>6. CASE Deploy
  <2>1. /\ UNCHANGED <<ws, pods, image, missed, behind>> /\ pc = "deploy"
        /\ pc' = "idle" /\ (queued => queued')
    BY <1>6 DEF Deploy, Rest
  <2>2. ~queued' => snap = ws
    BY <2>1 DEF QuietInv, Current
  <2> QED
    BY <2>1, <2>2
<1>7. CASE DeployFails
  BY <1>7 DEF DeployFails, PassOver
<1>8. CASE Crash
  BY <1>8 DEF Crash
<1>9. CASE SyncPods
  BY <1>9 DEF SyncPods
<1>10. CASE EditSpec
  BY <1>10 DEF EditSpec
<1>11. ASSUME NEW a \in Apps, Kubelet(a) \/ Others(a) PROVE Inv'
  <2>1. /\ UNCHANGED <<ws, podCache, queued, pc, snap, missed, behind>>
        /\ pods[a] # None
    BY <1>11, PodSteps
  <2>2. ws.app \in Apps /\ (pc # "idle" => snap.app \in Apps)
    BY DEF TypeOK, WebServers
  <2>3. CASE pods' = [pods EXCEPT ![a] = None] /\ image' = image
    BY <2>1, <2>2, <2>3 DEF TypeOK, Done
  <2>4. ASSUME NEW q \in BuildPods, pods' = [pods EXCEPT ![a] = q],
               q.hash = pods[a].hash,
               Starts(a, q) \/ Finishes(a, q) \/ Fails(a, q) \/ Leaves(a, q)
        PROVE  Inv'
    <3>1. q # None /\ \A b \in Apps : pods'[b] = IF b = a THEN q ELSE pods[b]
      BY <2>4, NoneAssumption DEF TypeOK
    <3>2. Finishes(a, q) => image' # None /\ image'.by = a
      <4> SUFFICES ASSUME Finishes(a, q) PROVE image' # None /\ image'.by = a
        OBVIOUS
      <4>1. image' = [by |-> a, cfg |-> q.hash, script |-> pods[a].script]
        BY DEF Finishes
      <4>2. pods[a].script \in Scripts \cup {NoScript}
        BY <2>1 DEF Finishes, TypeOK, BuildPods
      <4>3. image' \in Images
        BY <4>1, <4>2 DEF Images, BuildPods
      <4> QED
        BY <4>1, <4>3, NoneAssumption
    <3>3. ASSUME NEW b \in Apps, Settled(b)
          PROVE  Settled(b)' /\ \A c : Pushed(b, c) => Pushed(b, c)'
      <4>1. CASE b = a
        <5>1. pods[a].phase = "Succeeded"
          BY <2>1, <3>3, <4>1 DEF Done
        <5>2. Leaves(a, q)
          BY <2>4, <5>1 DEF Starts, Finishes, Fails, Waiting
        <5>3. Done(q) /\ image' = image
          BY <5>1, <5>2, <3>1 DEF Leaves, Done
        <5> QED
          BY <3>1, <4>1, <5>3
      <4>2. CASE b # a
        <5>1. pods'[b] = pods[b]
          BY <3>1, <4>2
        <5>2. image' = image \/ (image' # None /\ image'.by = a)
          BY <2>4, <3>2 DEF Starts, Fails, Leaves
        <5> QED
          BY <3>3, <4>2, <5>1, <5>2
      <4> QED
        BY <4>1, <4>2
    <3>4. Done(q) => Pushed(a, q.hash)'
      <4>1. CASE Finishes(a, q)
        BY <2>1, <2>4, <3>2, <4>1 DEF Finishes, ImageOf, OwnScript
      <4>2. CASE Starts(a, q) \/ Fails(a, q)
        BY <4>2 DEF Starts, Fails, Done
      <4>3. CASE Leaves(a, q)
        BY <2>1, <2>4, <3>1, <4>3 DEF Leaves, Done
      <4> QED
        BY <2>4, <4>1, <4>2, <4>3
    <3>5. DonePushed'
      <4> SUFFICES ASSUME NEW b \in Apps, Done(pods'[b])
                   PROVE  Pushed(b, pods[b].hash)' 
        OBVIOUS
      <4> QED
        BY <2>4, <3>1, <3>3, <3>4
    <3>6. SeenDone' /\ ReadyToDeploy' /\ Rested'
      BY <2>1, <2>2, <3>3 DEF NeedsBuild
    <3> QED
      BY <3>5, <3>6
  <2> QED
    BY <1>11, <2>3, <2>4, PodSteps
<1>12. CASE UNCHANGED vars
  BY <1>12 DEF vars
<1> QED
  BY <1>1, <1>2, <1>3, <1>4, <1>5, <1>6, <1>7, <1>8, <1>9, <1>10, <1>11, <1>12
     DEF Next, Reconcile

LEMMA InitImages == Init => QuietInv /\ ScriptInv /\ ImageInv
  BY DEF Init, QuietInv, Current, AtRest, Quiet, ScriptInv, ScriptThere, OwnScript,
         Waiting, ImageInv, DonePushed, SeenDone, ReadyToDeploy, Rested, Done

LEMMA PushedIsHeld ==
    ASSUME NEW s \in WebServers, Pushed(s.app, s.cfg) PROVE HoldsBuildOf(s)
  BY DEF Pushed, ImageOf, HoldsBuildOf

(* A configuration with a webApp is deployed only when the repository      *)
(* holds the image its own pod built with its own script, or one another   *)
(* application pushed over it, unless the reconcile began with an old copy *)
(* of a build pod or a script was rewritten before its pod had started:    *)
(* for any number of application names, however builds are edited,         *)
(* deleted, evicted and overtaken.                                         *)
THEOREM BuiltCorrect == Spec => DeployedWasBuilt
<1> DEFINE Inv == TypeOK /\ QuietInv /\ ScriptInv /\ ImageInv
           Deploys == deployed' # deployed /\ NeedsBuild(deployed') /\ ~behind /\ ~late
                        => HoldsBuildOf(deployed')
<1>1. Init => Inv
  BY InitTypes, InitImages
<1>2. Inv /\ [Next]_vars => Inv'
  BY StepTypes, QuietStep, ScriptStep, ImageStep
<1>3. Inv /\ [Next]_vars => [Deploys]_vars
  <2> SUFFICES ASSUME Inv, Next, deployed' # deployed, NeedsBuild(deployed'), ~behind,
                      ~late
               PROVE  HoldsBuildOf(deployed')
    BY DEF vars
  <2>1. CASE Deploy
    BY <2>1, PushedIsHeld DEF Deploy, ImageInv, ReadyToDeploy, TypeOK
  <2>2. CASE ~Deploy
    BY <2>2 DEF Next, Reconcile, Start, UpdateScript, ReadBuildPod,
       WaitForBuild, CreateBuildPod, DeleteBuildPod, DeployFails, CallFails, Crash,
       SyncPods, EditSpec, Kubelet, Others, StartBuild, FinishBuild,
       RemovePod, Evict, DeletePod, PodOnly
  <2> QED
    BY <2>1, <2>2
<1> QED
  BY <1>1, <1>2, <1>3, PTL DEF Spec, DeployedWasBuilt

(* Once the operator is at rest, with nothing passed over, the repository  *)
(* holds the build of the current spec in the same sense: what a restarted *)
(* pod of the workload pulls is no other build of its application.         *)
THEOREM OwnImageCorrect == Spec => []QuietMeansOwnImage
<1> DEFINE Inv == TypeOK /\ QuietInv /\ ScriptInv /\ ImageInv
<1>1. Init => Inv
  BY InitTypes, InitImages
<1>2. Inv /\ [Next]_vars => Inv'
  BY StepTypes, QuietStep, ScriptStep, ImageStep
<1>3. Inv => QuietMeansOwnImage
  BY PushedIsHeld DEF ImageInv, Rested, QuietMeansOwnImage, TypeOK
<1> QED
  BY <1>1, <1>2, <1>3, PTL DEF Spec
=============================================================================
