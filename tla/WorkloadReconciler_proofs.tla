---------------------- MODULE WorkloadReconciler_proofs ----------------------
(***************************************************************************)
(* What TLAPS proves of WorkloadReconciler, for every set of applications, *)
(* configurations, replica numbers and UIDs.                               *)
(***************************************************************************)
EXTENDS WorkloadReconciler, TLAPS

USE DEF Kinds, HashOf, TemplateOf

(* The workload a spec asks for is one of the workloads there can be.      *)
LEMMA DesiredIsKey == ASSUME NEW s \in WebServers PROVE Desired(s) \in Keys
  BY DEF Desired, Keys, KindOf, WebServers

(* What the operator writes for a workload is a workload.                  *)
LEMMA WrittenIsWorkload ==
  ASSUME NEW s \in WebServers
  PROVE  /\ NewWorkload(s) \in Workloads
         /\ \A o \in Workloads : Amended(o, s) \in Workloads
                                 /\ Regenerated(o, s) \in Workloads
  BY ConstantsAssumption
     DEF NewWorkload, Amended, Regenerated, Workloads, WebServers

LEMMA NoStatusTyped == NoStatus \in Statuses
  BY DEF NoStatus, Statuses

LEMMA DisturbTyped == budget \in Nat /\ Disturb => budget' \in Nat
  BY DEF Disturb

(* What the end of a reconcile leaves of its locals.                       *)
LEMMA ForgetTyped ==
  Forget => /\ pc' = "idle" /\ snap' = Absent /\ mem' \in Statuses
            /\ obj' = Absent /\ doomed' = {}
            /\ snapCurrent' \in BOOLEAN /\ objCurrent' \in BOOLEAN
            /\ requeue' \in BOOLEAN /\ dirty' \in BOOLEAN
  BY NoStatusTyped DEF Forget

(* The calls of the reconcile keep the type invariant.                     *)
LEMMA TypeOKReconcile ==
  ASSUME TypeOK, Reconcile PROVE TypeOK'
<1> USE DEF TypeOK, api, informers, locals, history, Locations
<1>1. CASE Start
  <2>1. CASE wsCache = Absent
    BY <1>1, <2>1 DEF Start
  <2>2. CASE wsCache # Absent
    <3>1. /\ pc' = "workload" /\ snap' = wsCache /\ snap' \in WebServers
          /\ mem' = statusCache /\ snapCurrent' \in BOOLEAN
          /\ queued' = FALSE /\ UNCHANGED <<obj, objCurrent, doomed, requeue, dirty>>
          /\ missed' = "none" /\ behind' \in BOOLEAN
      BY <1>1, <2>2 DEF Start
    <3>2. UNCHANGED <<api, informers, budget>>
      BY <1>1 DEF Start
    <3> QED
      BY <3>1, <3>2
  <2> QED
    BY <2>1, <2>2
<1>2. CASE ReadWorkload
  <2>1. snap \in WebServers /\ Desired(snap) \in Keys
    BY <1>2, DesiredIsKey DEF ReadWorkload
  <2>2. cache[Desired(snap)] # Absent =>
          Amended(cache[Desired(snap)], snap) \in Workloads
    BY <2>1, WrittenIsWorkload
  <2>3. \/ /\ pc' \in {"create", "replace", "listDeployments"}
           /\ UNCHANGED <<obj, objCurrent>>
        \/ pc' = "update" /\ obj' \in Workloads /\ objCurrent' \in BOOLEAN
    BY <1>2, <2>2 DEF ReadWorkload
  <2>4. UNCHANGED <<api, informers, queued, snap, mem, snapCurrent, doomed,
                    requeue, dirty, history, budget>>
    BY <1>2 DEF ReadWorkload
  <2> QED
    BY <2>1, <2>3, <2>4
<1>3. CASE PanicOnStream
  BY <1>3, ForgetTyped DEF PanicOnStream, Return
<1>4. CASE CreateWorkload
  BY <1>4, ForgetTyped, WrittenIsWorkload, DesiredIsKey
     DEF CreateWorkload, Write, Return
<1>5. CASE ReplaceWorkload
  <2> DEFINE k == Desired(snap)
  <2>1. k \in Keys
    BY <1>5, DesiredIsKey DEF ReplaceWorkload
  <2>2. Accepts(k, snap) => Regenerated(store[k], snap) \in Workloads
    BY <1>5, <2>1, WrittenIsWorkload DEF ReplaceWorkload, Accepts
  <2> HIDE DEF k
  <2>3. /\ store' \in [Keys -> Workloads \cup {Absent}] /\ lag' \subseteq Keys
        /\ UNCHANGED <<ws, status, wsCache, statusCache, wsLag, cache, podCache,
                       budget>>
    BY <1>5, <2>1, <2>2 DEF ReplaceWorkload, Write, k
  <2>4. CASE Accepts(k, snap)
    <3>1. Forget /\ queued' \in BOOLEAN /\ UNCHANGED history
      BY <1>5, <2>4 DEF ReplaceWorkload, Return, k
    <3> QED
      BY <2>3, <3>1, ForgetTyped
  <2>5. CASE ~Accepts(k, snap)
    <3>1. PassOver("update") /\ pc # "idle"
      BY <1>5, <2>5 DEF ReplaceWorkload, k
    <3> QED
      BY <2>3, <3>1 DEF PassOver
  <2> QED
    BY <2>4, <2>5
<1>6. CASE UpdateWorkload
  BY <1>6, ForgetTyped, DesiredIsKey
     DEF UpdateWorkload, Write, Return
<1>7. CASE ListDeployments
  BY <1>7 DEF ListDeployments, OwnedOthers, KeysOf
<1>8. CASE ListStatefulSets
  BY <1>8 DEF ListStatefulSets, OwnedOthers, KeysOf
<1>9. CASE \E k \in Keys : DeleteOwned(k)
  <2>1. PICK k \in Keys : DeleteOwned(k)
    BY <1>9
  <2>2. CASE store[k] = Absent
    BY <2>1, <2>2, ForgetTyped DEF DeleteOwned, Return
  <2>3. CASE store[k] # Absent
    BY <2>1, <2>3 DEF DeleteOwned, Write
  <2> QED
    BY <2>2, <2>3
<1>10. CASE ReadPods
  BY <1>10, DesiredIsKey DEF ReadPods, Statuses
<1>11. CASE ReadReplicas
  <2>1. FoundReplicas \in Nat
    BY <1>11, DesiredIsKey DEF ReadReplicas, FoundReplicas, Workloads
  <2>2. FoundReplicas - snap.replicas \in Int
    BY <1>11, <2>1, ConstantsAssumption DEF ReadReplicas, WebServers
  <2> DEFINE new == [mem EXCEPT !.replicas = FoundReplicas,
                                !.scaling = FoundReplicas - snap.replicas]
  <2>3. new \in Statuses
    BY <2>1, <2>2 DEF Statuses
  <2> HIDE DEF new
  <2>4. CASE dirty \/ new # mem
    <3>1. /\ mem' = new /\ dirty' = TRUE /\ pc' = "status" /\ pc = "replicas"
          /\ UNCHANGED <<queued, snap, snapCurrent, obj, objCurrent, doomed,
                         requeue, missed, behind>>
      BY <1>11, <2>4 DEF ReadReplicas, new
    <3>2. UNCHANGED <<api, informers, budget>>
      BY <1>11 DEF ReadReplicas
    <3> QED
      BY <2>3, <3>1, <3>2
  <2>5. CASE ~dirty /\ new = mem
    <3>1. Forget /\ queued' = (queued \/ requeue) /\ UNCHANGED history
      BY <1>11, <2>5 DEF ReadReplicas, Return, new
    <3>2. UNCHANGED <<api, informers, budget>>
      BY <1>11 DEF ReadReplicas
    <3> QED
      BY <3>1, <3>2, ForgetTyped
  <2> QED
    BY <2>4, <2>5
<1>12. CASE WriteStatus
  BY <1>12, ForgetTyped DEF WriteStatus, Return
<1> QED
  BY <1>1, <1>2, <1>3, <1>4, <1>5, <1>6, <1>7, <1>8, <1>9, <1>10, <1>11, <1>12
     DEF Reconcile

(* So does whatever the users make of the WebServer.                       *)
LEMMA ChangeTyped ==
  ASSUME TypeOK, NEW new \in WebServers \cup {Absent}, NEW st \in Statuses,
         ChangeWebServer(new, st)
  PROVE  TypeOK'
<1>1. ws' \in WebServers \cup {Absent} /\ status' \in Statuses /\ budget' \in Nat
  BY DisturbTyped DEF ChangeWebServer, TypeOK
<1>2. /\ wsLag' = TRUE /\ snapCurrent' = FALSE
      /\ UNCHANGED <<store, wsCache, statusCache, cache, lag, podCache, queued>>
      /\ UNCHANGED <<pc, snap, mem, obj, objCurrent, doomed, requeue, dirty>>
      /\ UNCHANGED <<missed, behind>>
  BY DEF ChangeWebServer, history
<1> QED
  BY <1>1, <1>2 DEF TypeOK

LEMMA SyncTyped == ASSUME TypeOK, SyncWebServer PROVE TypeOK'
<1>1. wsCache' \in WebServers \cup {Absent} /\ statusCache' \in Statuses
  BY DEF SyncWebServer, TypeOK
<1>2. /\ wsLag' = FALSE /\ queued' = TRUE
      /\ UNCHANGED <<ws, status, store, cache, lag, podCache, pc, budget>>
      /\ UNCHANGED <<snap, mem, snapCurrent, obj, objCurrent, doomed, requeue, dirty>>
      /\ UNCHANGED <<missed, behind>>
  BY DEF SyncWebServer, api, locals, history
<1> QED
  BY <1>1, <1>2 DEF TypeOK

(* So does everything else that happens to the operator and the cluster.   *)
LEMMA TypeOKOthers ==
  ASSUME TypeOK, Failures \/ Crash \/ Informers \/ Cluster \/ Users
  PROVE  TypeOK'
<1> USE DEF TypeOK, api, informers, locals, history, Locations
<1>1. CASE CallFails
  BY <1>1, ForgetTyped, DisturbTyped DEF CallFails, Return
<1>12. CASE NoImage \/ ReplaceFails
  BY <1>12, DisturbTyped DEF NoImage, ReplaceFails, PassOver
<1>2. CASE Crash
  <2>1. \A k \in Keys : ActualPods(k) \in Nat
    BY DEF ActualPods, Workloads
  <2> QED
    BY <1>2, <2>1, ForgetTyped, DisturbTyped DEF Crash
<1>3. CASE SyncWebServer
  BY <1>3, SyncTyped
<1>4. CASE SyncPods
  BY <1>4 DEF SyncPods, ActualPods, Workloads
<1>5. CASE \E kind \in Kinds : SyncWorkloads(kind)
  BY <1>5 DEF SyncWorkloads, KeysOf, Wakes
<1>6. CASE \E k \in Keys : RunPods(k)
  BY <1>6 DEF RunPods, OtherWrites, Write, RestUnchanged, Workloads
<1>7. CASE \E k \in Keys : CollectGarbage(k)
  BY <1>7 DEF CollectGarbage, OtherWrites, Write, RestUnchanged
<1>8. CASE EditSpec
  BY <1>8, ChangeTyped DEF EditSpec
<1>9. CASE DeleteWebServer
  BY <1>9, ChangeTyped, NoStatusTyped DEF DeleteWebServer
<1>10. CASE CreateWebServer
  BY <1>10, ChangeTyped, NoStatusTyped DEF CreateWebServer
<1>11. CASE \E k \in Keys : Drift(k)
  <2>1. PICK k \in Keys : Drift(k)
    BY <1>11
  <2>2. \A o \in Drifted(store[k]) : o \in Workloads \cup {Absent}
    BY <2>1, ConstantsAssumption DEF Drift, Drifted, Workloads
  <2> QED
    BY <2>1, <2>2, DisturbTyped DEF Drift, OtherWrites, Write, RestUnchanged
<1> QED
  BY <1>1, <1>2, <1>3, <1>4, <1>5, <1>6, <1>7, <1>8, <1>9, <1>10, <1>11, <1>12
     DEF Failures, Informers, Cluster, Users

LEMMA TypeOKNext == TypeOK /\ [Next]_vars => TypeOK'
<1> SUFFICES ASSUME TypeOK, [Next]_vars PROVE TypeOK'
  OBVIOUS
<1>1. CASE Next
  BY <1>1, TypeOKReconcile, TypeOKOthers DEF Next
<1>2. CASE UNCHANGED vars
  BY <1>2 DEF TypeOK, vars, api, informers, locals, history
<1> QED
  BY <1>1, <1>2

LEMMA TypeOKInit == Init => TypeOK
<1> SUFFICES ASSUME Init PROVE TypeOK
  OBVIOUS
<1>1. /\ store \in [Keys -> Workloads \cup {Absent}]
      /\ cache \in [Keys -> Workloads \cup {Absent}]
      /\ podCache \in [Keys -> Nat]
  BY DEF Init
<1> QED
  BY <1>1, ConstantsAssumption, NoStatusTyped DEF Init, TypeOK, Locations

(* Every variable keeps its type, and the locals of a reconcile are there  *)
(* when a step reads them.                                                 *)
THEOREM TypeCorrect == Spec => []TypeOK
<1>1. Init => TypeOK
  BY TypeOKInit
<1>2. TypeOK /\ [Next]_vars => TypeOK'
  BY TypeOKNext
<1> QED
  BY <1>1, <1>2, PTL DEF Spec

-----------------------------------------------------------------------------
(* While nobody strips the label, every copy of a workload, stored, cached *)
(* or about to be written, carries the hash its template was made from.    *)
LabelTrue(o) == o # Absent => o.hash = o.tmpl

HashInv ==
    /\ \A k \in Keys : LabelTrue(store[k]) /\ LabelTrue(cache[k])
    /\ pc = "update" => LabelTrue(obj)

LEMMA HashInvNext ==
  ASSUME "unlabel" \notin Drifts, TypeOK, HashInv, [Next]_vars
  PROVE  HashInv'
<1> USE DEF HashInv, LabelTrue, api, informers, locals, history
<1> DEFINE D == Desired(snap)
<1>1. CASE Start
  BY <1>1 DEF Start
<1>2. CASE ReadWorkload
  <2>1. snap \in WebServers /\ D \in Keys
    BY <1>2, DesiredIsKey DEF ReadWorkload, TypeOK
  <2>2. cache[D] # Absent => cache[D] \in Workloads
    BY <2>1 DEF TypeOK
  <2>3. cache[D] # Absent /\ cache[D].hash \in {NoHash, snap.cfg}
          => Amended(cache[D], snap).hash = Amended(cache[D], snap).tmpl
    BY <2>1, <2>2, ConstantsAssumption DEF Amended, Workloads
  <2> QED
    BY <1>2, <2>3 DEF ReadWorkload
<1>3. CASE PanicOnStream \/ Failures
  BY <1>3 DEF PanicOnStream, Failures, CallFails, NoImage, ReplaceFails,
              PassOver, Return, Forget
<1>4. CASE CreateWorkload
  <2>1. D \in Keys
    BY <1>4, DesiredIsKey DEF CreateWorkload, TypeOK
  <2>2. LabelTrue(NewWorkload(snap))
    BY DEF NewWorkload
  <2> QED
    BY <1>4, <2>1, <2>2 DEF CreateWorkload, Write, Return, Forget, TypeOK
<1>5. CASE ReplaceWorkload
  <2>1. D \in Keys
    BY <1>5, DesiredIsKey DEF ReplaceWorkload, TypeOK
  <2>2. LabelTrue(Regenerated(store[D], snap))
    BY DEF Regenerated, NewWorkload
  <2> QED
    BY <1>5, <2>1, <2>2
       DEF ReplaceWorkload, Write, PassOver, Return, Forget, TypeOK
<1>6. CASE UpdateWorkload
  BY <1>6, DesiredIsKey DEF UpdateWorkload, Write, Return, Forget, TypeOK
<1>7. CASE ListDeployments \/ ListStatefulSets \/ ReadPods
  BY <1>7 DEF ListDeployments, ListStatefulSets, ReadPods
<1>8. CASE \E k \in Keys : DeleteOwned(k)
  BY <1>8 DEF DeleteOwned, Write, Return, Forget, TypeOK
<1>9. CASE ReadReplicas \/ WriteStatus
  BY <1>9 DEF ReadReplicas, WriteStatus, Return, Forget
<1>10. CASE Crash
  BY <1>10 DEF Crash, Forget
<1>11. CASE Informers
  BY <1>11 DEF Informers, SyncWebServer, SyncPods, SyncWorkloads
<1>12. CASE Cluster
  BY <1>12 DEF Cluster, RunPods, CollectGarbage, OtherWrites, Write,
               RestUnchanged, TypeOK, Workloads
<1>13. CASE EditSpec \/ DeleteWebServer \/ CreateWebServer
  BY <1>13 DEF EditSpec, DeleteWebServer, CreateWebServer, ChangeWebServer
<1>14. CASE \E k \in Keys : Drift(k)
  <2>1. PICK k \in Keys : Drift(k)
    BY <1>14
  <2>2. \A o \in Drifted(store[k]) : LabelTrue(o)
    BY <2>1 DEF Drift, Drifted, TypeOK, Workloads
  <2> QED
    BY <2>1, <2>2 DEF Drift, OtherWrites, Write, RestUnchanged, TypeOK
<1>15. CASE UNCHANGED vars
  BY <1>15 DEF vars
<1> QED
  BY <1>1, <1>2, <1>3, <1>4, <1>5, <1>6, <1>7, <1>8, <1>9, <1>10, <1>11,
     <1>12, <1>13, <1>14, <1>15 DEF Next, Reconcile, Users

(* The hash label names the configuration of the pod template, so that a   *)
(* reconcile that finds it equal to the hash of the spec may leave the     *)
(* template alone: proved while nobody strips the label, because a missing *)
(* one is filled in without regenerating the template.                     *)
THEOREM LabelCorrect ==
  ASSUME "unlabel" \notin Drifts
  PROVE  Spec => []HashNamesTemplate
<1>1. Init => HashInv
  BY DEF Init, HashInv, LabelTrue
<1>2. TypeOK /\ HashInv /\ [Next]_vars => HashInv'
  BY HashInvNext
<1>3. HashInv => HashNamesTemplate
  BY DEF HashInv, LabelTrue, HashNamesTemplate
<1> QED
  BY <1>1, <1>2, <1>3, TypeCorrect, PTL DEF Spec

-----------------------------------------------------------------------------
(* No other path loses the key.  The setting is that of OpenShift with     *)
(* Deployments only: the kind every configuration needs is watched.        *)
WatchedSetting ==
    /\ \A c \in Cfgs : KindOf(c) = "Deployment"
    /\ "Deployment" \in Watched

(* What is no longer lagging is a copy of the store; nothing is ever a     *)
(* StatefulSet.                                                            *)
Coherent ==
    /\ ~wsLag => wsCache = ws /\ statusCache = status
    /\ \A k \in Keys \ lag : cache[k] = store[k]
    /\ \A k \in KeysOf("StatefulSet") :
         k \notin lag /\ store[k] = Absent /\ cache[k] = Absent

(* Neither a queued key nor an event to come will make the operator look   *)
(* again, so that what it concluded from its caches must be right, unless  *)
(* it has passed over an error.                                            *)
NoWorkloadEvent == ~queued /\ lag = {}
MustBeRight == NoWorkloadEvent /\ missed = "none"

(* The caches hold the desired workload of s, and no other one that s owns.*)
OthersOf(s) == {k \in Keys \ {Desired(s)} :
                  cache[k] # Absent /\ cache[k].owner = s.uid}
Tidy(s) == Satisfies(cache[Desired(s)], s) /\ OthersOf(s) = {}

Checked == {"listDeployments", "listStatefulSets", "delete", "replicas",
            "status"}

(* What a reconcile has established by the time it is at pc, and what is   *)
(* left when it has ended.                                                 *)
Progress ==
    /\ pc # "idle" /\ ~queued => snap = wsCache
    /\ pc \in Checked /\ MustBeRight => Satisfies(cache[Desired(snap)], snap)
    /\ pc \in {"listStatefulSets", "delete", "replicas", "status"}
         /\ NoWorkloadEvent => OthersOf(snap) \subseteq doomed
    /\ pc \in {"replicas", "status"} => doomed = {}
    /\ pc = "idle" /\ MustBeRight /\ wsCache # Absent => Tidy(wsCache)

ConvInv == Coherent /\ Progress

LEMMA DesiredIsDeployment ==
  ASSUME WatchedSetting, NEW s \in WebServers
  PROVE  /\ Desired(s) \in Keys /\ Desired(s) \in KeysOf("Deployment")
         /\ Desired(s)[1] = "Deployment"
  BY DesiredIsKey DEF WatchedSetting, Desired, KeysOf, WebServers

(* A write of a key that is not a StatefulSet's leaves it lagging, or is   *)
(* no write at all.                                                        *)
LEMMA WriteCoherent ==
  ASSUME TypeOK, Coherent, NEW k \in Keys, NEW o, Write(k, o),
         k \notin KeysOf("StatefulSet"), UNCHANGED <<ws, status, informers>>
           \/ UNCHANGED <<ws, status, wsCache, statusCache, wsLag, cache>>
  PROVE  Coherent'
  BY DEF TypeOK, Coherent, Write, informers, KeysOf

LEMMA CoherentNext ==
  ASSUME WatchedSetting, TypeOK, Coherent, [Next]_vars
  PROVE  Coherent'
<1> USE DEF api, informers
<1>1. CASE Start \/ ReadWorkload \/ PanicOnStream \/ ListDeployments
           \/ ListStatefulSets \/ ReadPods \/ ReadReplicas \/ Failures
  BY <1>1 DEF Coherent, Start, ReadWorkload, PanicOnStream, ListDeployments,
              ListStatefulSets, ReadPods, ReadReplicas, Failures, CallFails,
              NoImage, ReplaceFails, KeysOf
<1>2. CASE CreateWorkload \/ ReplaceWorkload \/ UpdateWorkload
  <2> DEFINE D == Desired(snap)
  <2>1. snap \in WebServers
    BY <1>2 DEF CreateWorkload, ReplaceWorkload, UpdateWorkload, TypeOK
  <2>2. D \in Keys /\ D \notin KeysOf("StatefulSet")
    BY <2>1, DesiredIsDeployment DEF KeysOf
  <2>3. (\E o : Write(D, o)) \/ UNCHANGED <<store, lag>>
    BY <1>2 DEF CreateWorkload, ReplaceWorkload, UpdateWorkload
  <2>4. UNCHANGED <<ws, status, wsCache, statusCache, wsLag, cache>>
    BY <1>2 DEF CreateWorkload, ReplaceWorkload, UpdateWorkload
  <2> HIDE DEF D
  <2>5. CASE \E o : Write(D, o)
    BY <2>2, <2>4, <2>5, WriteCoherent
  <2>6. CASE UNCHANGED <<store, lag>>
    BY <2>4, <2>6 DEF Coherent, KeysOf
  <2> QED
    BY <2>3, <2>5, <2>6
<1>3. CASE \E k \in Keys : DeleteOwned(k)
  <2>1. PICK k \in Keys : DeleteOwned(k)
    BY <1>3
  <2>2. CASE store[k] = Absent
    BY <2>1, <2>2 DEF DeleteOwned, Coherent, KeysOf
  <2>3. CASE store[k] # Absent
    <3>1. k \notin KeysOf("StatefulSet")
      BY <2>3 DEF Coherent
    <3> QED
      BY <2>1, <2>3, <3>1, WriteCoherent DEF DeleteOwned
  <2> QED
    BY <2>2, <2>3
<1>4. CASE WriteStatus
  BY <1>4 DEF WriteStatus, Coherent, KeysOf
<1>5. CASE Crash
  BY <1>5 DEF Crash, Coherent, KeysOf
<1>6. CASE SyncWebServer \/ SyncPods
  BY <1>6 DEF SyncWebServer, SyncPods, Coherent, KeysOf
<1>7. CASE \E kind \in Kinds : SyncWorkloads(kind)
  <2>1. PICK kind \in Kinds : SyncWorkloads(kind)
    BY <1>7
  <2> QED
    BY <2>1 DEF SyncWorkloads, Coherent, KeysOf
<1>8. CASE Cluster \/ \E k \in Keys : Drift(k)
  <2>1. PICK k \in Keys : RunPods(k) \/ CollectGarbage(k) \/ Drift(k)
    BY <1>8 DEF Cluster
  <2>2. store[k] # Absent /\ RestUnchanged /\ \E o : Write(k, o)
    BY <2>1 DEF RunPods, CollectGarbage, Drift, OtherWrites
  <2>3. k \notin KeysOf("StatefulSet")
    BY <2>2 DEF Coherent
  <2> QED
    BY <2>2, <2>3, WriteCoherent DEF RestUnchanged
<1>9. CASE EditSpec \/ DeleteWebServer \/ CreateWebServer
  BY <1>9 DEF EditSpec, DeleteWebServer, CreateWebServer, ChangeWebServer,
              Coherent, KeysOf
<1>10. CASE UNCHANGED vars
  BY <1>10 DEF vars, Coherent, KeysOf
<1> QED
  BY <1>1, <1>2, <1>3, <1>4, <1>5, <1>6, <1>7, <1>8, <1>9, <1>10
     DEF Next, Reconcile, Informers, Users

(* A reconcile that ends with the key queued, or with a write no informer  *)
(* has seen, owes nothing.                                                 *)
LEMMA EndProgress ==
  ASSUME Forget, queued' \/ lag' # {}
  PROVE  Progress'
  BY DEF Forget, Progress, MustBeRight, NoWorkloadEvent, Checked

(* A step of others, which leaves the reconcile and its caches alone and   *)
(* can only add to what will wake it.                                      *)
LEMMA OthersProgress ==
  ASSUME Progress, UNCHANGED <<wsCache, cache, pc, snap, doomed, missed>>,
         queued => queued', lag # {} => lag' # {}
  PROVE  Progress'
  BY DEF Progress, MustBeRight, NoWorkloadEvent, Checked, Tidy, OthersOf,
         Satisfies

(* An error passed over: nothing but the WebServer is claimed any more.    *)
LEMMA PassOverProgress ==
  ASSUME Progress, pc # "idle", UNCHANGED wsCache, NEW e, e # "none", PassOver(e)
  PROVE  Progress'
  BY DEF Progress, MustBeRight, PassOver, locals

(* Amending what needs no amendment says that it satisfies the spec.       *)
LEMMA AmendedSatisfies ==
  ASSUME NEW o \in Workloads, NEW s \in WebServers, o = Amended(o, s)
  PROVE  Satisfies(o, s)
<1> DEFINE a == Amended(o, s)
<1>1. /\ a.hash = s.cfg /\ a.replicas = s.replicas
      /\ s.cfg \in PlainImage => a.image = s.cfg
  BY DEF Amended, Workloads
<1> QED
  BY <1>1, AbsentAssumption DEF Satisfies

LEMMA ProgressReconcile ==
  ASSUME WatchedSetting, TypeOK, Coherent, Progress, Reconcile
  PROVE  Progress'
<1> USE DEF api, informers, locals, history
<1> DEFINE D == Desired(snap)
<1>1. CASE Start
  BY <1>1 DEF Start, Progress, MustBeRight, NoWorkloadEvent, Checked
<1>2. CASE ReadWorkload
  <2>1. snap \in WebServers /\ D \in Keys
    BY <1>2, DesiredIsKey DEF ReadWorkload, TypeOK
  <2>2. UNCHANGED <<wsCache, cache, queued, lag, snap, missed>> /\ pc = "workload"
    BY <1>2 DEF ReadWorkload
  <2>3. pc' \in {"create", "replace", "update", "listDeployments"}
    BY <1>2 DEF ReadWorkload
  <2>4. pc' = "listDeployments" => Satisfies(cache[D], snap)
    <3>1. pc' = "listDeployments"
            => cache[D] # Absent /\ cache[D] = Amended(cache[D], snap)
      BY <1>2 DEF ReadWorkload
    <3> QED
      BY <2>1, <3>1, AmendedSatisfies DEF TypeOK
  <2> QED
    BY <2>2, <2>3, <2>4
       DEF Progress, MustBeRight, NoWorkloadEvent, Checked, Satisfies, Desired
<1>3. CASE PanicOnStream \/ CreateWorkload \/ UpdateWorkload
  BY <1>3, EndProgress
     DEF PanicOnStream, CreateWorkload, UpdateWorkload, Return
<1>4. CASE ReplaceWorkload
  <2>1. CASE Accepts(D, snap)
    BY <1>4, <2>1, EndProgress DEF ReplaceWorkload, Return
  <2>2. CASE ~Accepts(D, snap)
    <3>1. PassOver("update") /\ pc # "idle" /\ UNCHANGED wsCache
      BY <1>4, <2>2 DEF ReplaceWorkload
    <3> QED
      BY <3>1, PassOverProgress
  <2> QED
    BY <2>1, <2>2
<1>5. CASE ListDeployments
  <2>1. UNCHANGED <<wsCache, cache, queued, lag, snap, missed>>
        /\ pc = "listDeployments" /\ pc' = "listStatefulSets"
        /\ doomed' = OwnedOthers("Deployment")
    BY <1>5 DEF ListDeployments
  <2>2. OthersOf(snap) \subseteq OwnedOthers("Deployment")
    BY DEF OthersOf, OwnedOthers, Keys, KeysOf, Coherent
  <2> QED
    BY <2>1, <2>2
       DEF Progress, MustBeRight, NoWorkloadEvent, Checked, OthersOf, Satisfies,
           Desired
<1>6. CASE ListStatefulSets
  BY <1>6 DEF ListStatefulSets, Progress, MustBeRight, NoWorkloadEvent, Checked, OthersOf,
              Satisfies, Desired
<1>7. CASE \E k \in Keys : DeleteOwned(k)
  <2>1. PICK k \in Keys : DeleteOwned(k)
    BY <1>7
  <2>2. CASE store[k] = Absent
    BY <2>1, <2>2, EndProgress DEF DeleteOwned, Return
  <2>3. CASE store[k] # Absent
    <3>1. lag' # {} /\ pc = "delete" /\ UNCHANGED <<pc, snap, queued, wsCache>>
      BY <2>1, <2>3 DEF DeleteOwned, Write
    <3> QED
      BY <3>1 DEF Progress, MustBeRight, NoWorkloadEvent, Checked
  <2> QED
    BY <2>2, <2>3
<1>8. CASE ReadPods
  BY <1>8 DEF ReadPods, Progress, MustBeRight, NoWorkloadEvent, Checked, OthersOf,
              Satisfies, Desired
<1>9. CASE ReadReplicas \/ WriteStatus
  <2>1. pc \in {"replicas", "status"} /\ UNCHANGED <<wsCache, cache, lag, missed>>
    BY <1>9 DEF ReadReplicas, WriteStatus, Return
  <2>2. MustBeRight => Tidy(snap) /\ snap = wsCache
    BY <2>1 DEF Progress, MustBeRight, NoWorkloadEvent, Checked, Tidy
  <2>3. CASE pc' # "idle"
    <3>1. pc' = "status" /\ UNCHANGED <<queued, snap, doomed>>
      BY <1>9, <2>3 DEF ReadReplicas, WriteStatus, Return, Forget
    <3> QED
      BY <2>1, <3>1 DEF Progress, MustBeRight, NoWorkloadEvent, Checked, OthersOf,
                        Satisfies, Desired
  <2>4. CASE pc' = "idle"
    <3>1. Forget /\ (queued => queued')
      BY <1>9, <2>1, <2>4 DEF ReadReplicas, WriteStatus, Return
    <3> QED
      BY <2>1, <2>2, <2>4, <3>1
         DEF Forget, Progress, MustBeRight, NoWorkloadEvent, Checked, Tidy, OthersOf,
             Satisfies
  <2> QED
    BY <2>3, <2>4
<1> QED
  BY <1>1, <1>2, <1>3, <1>4, <1>5, <1>6, <1>7, <1>8, <1>9 DEF Reconcile

LEMMA ProgressNext ==
  ASSUME WatchedSetting, TypeOK, Coherent, Progress, [Next]_vars
  PROVE  Progress'
<1> USE DEF api, informers, locals, history
<1>1. CASE Reconcile
  BY <1>1, ProgressReconcile
<1>2. CASE Failures
  <2>1. CASE CallFails
    BY <2>1, EndProgress DEF CallFails, Return
  <2>2. CASE NoImage
    BY <2>2, PassOverProgress DEF NoImage
  <2>3. CASE ReplaceFails
    BY <2>3, PassOverProgress DEF ReplaceFails
  <2> QED
    BY <1>2, <2>1, <2>2, <2>3 DEF Failures
<1>3. CASE Crash
  BY <1>3 DEF Crash, Forget, Progress, MustBeRight, NoWorkloadEvent, Checked
<1>4. CASE SyncWebServer
  BY <1>4 DEF SyncWebServer, Progress, MustBeRight, NoWorkloadEvent, TypeOK
<1>5. CASE SyncPods
  BY <1>5, OthersProgress DEF SyncPods
<1>6. CASE \E kind \in Kinds : SyncWorkloads(kind)
  <2>1. PICK kind \in Kinds : SyncWorkloads(kind)
    BY <1>6
  <2>2. kind = "Deployment"
    BY <2>1 DEF SyncWorkloads, Coherent
  <2> QED
    BY <2>1, <2>2 DEF SyncWorkloads, Wakes, WatchedSetting, Progress,
                      MustBeRight, NoWorkloadEvent
<1>7. CASE Cluster \/ \E k \in Keys : Drift(k)
  <2>1. PICK k \in Keys : RunPods(k) \/ CollectGarbage(k) \/ Drift(k)
    BY <1>7 DEF Cluster
  <2>2. RestUnchanged /\ \E o : Write(k, o)
    BY <2>1 DEF RunPods, CollectGarbage, Drift, OtherWrites
  <2>3. lag # {} => lag' # {}
    BY <2>2 DEF Write
  <2> QED
    BY <2>2, <2>3, OthersProgress DEF RestUnchanged
<1>8. CASE EditSpec \/ DeleteWebServer \/ CreateWebServer
  BY <1>8, OthersProgress DEF EditSpec, DeleteWebServer, CreateWebServer,
                              ChangeWebServer
<1>9. CASE UNCHANGED vars
  BY <1>9, OthersProgress DEF vars
<1> QED
  BY <1>1, <1>2, <1>3, <1>4, <1>5, <1>6, <1>7, <1>8, <1>9
     DEF Next, Informers, Users

(* When nothing is left that could wake the operator, the Deployment the   *)
(* spec asks for is there with the right hash, image and replicas, and no  *)
(* other workload of the WebServer is, unless the last reconcile has       *)
(* passed over an error of the image or the Update; whatever the users,    *)
(* the other clients, the failing calls and the crashes did on the way,    *)
(* and however far the caches lagged.                                      *)
THEOREM QuietCorrect ==
  ASSUME WatchedSetting
  PROVE  Spec => []QuietMeansConverged
<1>1. Init => Coherent /\ Progress
  BY DEF Init, Coherent, Progress, MustBeRight, NoWorkloadEvent, Checked, KeysOf
<1>2. TypeOK /\ Coherent /\ Progress /\ [Next]_vars => Coherent' /\ Progress'
  BY CoherentNext, ProgressNext
<1>3. TypeOK /\ Coherent /\ Progress => QuietMeansConverged
  <2> SUFFICES ASSUME TypeOK, Coherent, Progress, Quiet, ws # Absent,
                      missed = "none"
               PROVE  Converged
    BY DEF QuietMeansConverged
  <2>1. wsCache = ws /\ (\A k \in Keys : cache[k] = store[k]) /\ ws \in WebServers
    BY DEF Quiet, Coherent, TypeOK
  <2>2. Tidy(ws)
    BY <2>1 DEF Quiet, Progress, MustBeRight, NoWorkloadEvent
  <2> QED
    BY <2>1, <2>2, DesiredIsKey DEF Tidy, OthersOf, Converged
<1> QED
  BY <1>1, <1>2, <1>3, TypeCorrect, PTL DEF Spec

-----------------------------------------------------------------------------
(* The status.  What getReplicaStatus reads for a spec, and a status that  *)
(* says it.                                                                *)
CachedReplicas(s) ==
    IF cache[Desired(s)] = Absent THEN 0 ELSE cache[Desired(s)].ready

Reports(st, s) == /\ st.replicas = CachedReplicas(s)
                  /\ st.scaling = CachedReplicas(s) - s.replicas

(* updateStatus is set as soon as the reconcile's status differs from the  *)
(* one it read, so that a reconcile which ends without a write, and        *)
(* without anything to come, leaves a status that was right already.       *)
NoEvent == NoWorkloadEvent /\ ~wsLag

StatusInv ==
    /\ pc \notin {"replicas", "status"} => ~dirty
    /\ pc # "idle" /\ ~dirty /\ ~queued /\ ~wsLag => mem = statusCache
    /\ pc = "idle" /\ NoEvent /\ wsCache # Absent => Reports(statusCache, wsCache)

LEMMA EndStatus ==
  ASSUME Forget, queued' \/ lag' # {} \/ wsLag' PROVE StatusInv'
  BY DEF Forget, StatusInv, NoEvent, NoWorkloadEvent

(* Calls before the status is computed.                                    *)
LEMMA EarlyStatus ==
  ASSUME StatusInv, pc # "idle", pc' # "idle", ~dirty, ~dirty',
         UNCHANGED <<mem, queued, wsLag, statusCache>>
  PROVE  StatusInv'
  BY DEF StatusInv

LEMMA OthersStatus ==
  ASSUME StatusInv, UNCHANGED <<pc, mem, dirty, wsCache, statusCache, cache>>,
         queued => queued', lag # {} => lag' # {}, wsLag => wsLag'
  PROVE  StatusInv'
  BY DEF StatusInv, NoEvent, NoWorkloadEvent, Reports, CachedReplicas

LEMMA StatusReconcile ==
  ASSUME WatchedSetting, TypeOK, ConvInv, StatusInv, Reconcile
  PROVE  StatusInv'
<1> USE DEF api, informers, locals, history
<1> DEFINE D == Desired(snap)
<1>1. CASE Start
  BY <1>1 DEF Start, StatusInv, NoEvent, NoWorkloadEvent
<1>2. CASE ReadWorkload
  <2>1. pc = "workload" /\ UNCHANGED <<dirty, mem, queued, wsLag, statusCache>>
    BY <1>2 DEF ReadWorkload
  <2>2. pc' \in {"create", "replace", "update", "listDeployments"}
    BY <1>2 DEF ReadWorkload
  <2> QED
    BY <2>1, <2>2, EarlyStatus DEF StatusInv
<1>3. CASE PanicOnStream \/ CreateWorkload \/ UpdateWorkload
  BY <1>3, EndStatus DEF PanicOnStream, CreateWorkload, UpdateWorkload, Return
<1>4. CASE ReplaceWorkload
  <2>1. CASE Accepts(D, snap)
    BY <1>4, <2>1, EndStatus DEF ReplaceWorkload, Return
  <2>2. CASE ~Accepts(D, snap)
    <3>1. /\ pc = "replace" /\ pc' = "listDeployments"
          /\ UNCHANGED <<dirty, mem, queued, wsLag, statusCache>>
      BY <1>4, <2>2 DEF ReplaceWorkload, PassOver
    <3> QED
      BY <3>1, EarlyStatus DEF StatusInv
  <2> QED
    BY <2>1, <2>2
<1>5. CASE ListDeployments \/ ListStatefulSets
  <2>1. /\ pc \in {"listDeployments", "listStatefulSets"} /\ pc' # "idle"
        /\ UNCHANGED <<dirty, mem, queued, wsLag, statusCache>>
    BY <1>5 DEF ListDeployments, ListStatefulSets
  <2> QED
    BY <2>1, EarlyStatus DEF StatusInv
<1>6. CASE \E k \in Keys : DeleteOwned(k)
  <2>1. PICK k \in Keys : DeleteOwned(k)
    BY <1>6
  <2>2. CASE store[k] = Absent
    BY <2>1, <2>2, EndStatus DEF DeleteOwned, Return
  <2>3. CASE store[k] # Absent
    <3>1. pc = "delete" /\ UNCHANGED <<pc, dirty, mem, queued, wsLag, statusCache>>
      BY <2>1, <2>3 DEF DeleteOwned
    <3> QED
      BY <3>1, EarlyStatus DEF StatusInv
  <2> QED
    BY <2>2, <2>3
<1>7. CASE ReadPods
  <2>1. /\ pc = "delete" /\ pc' = "replicas"
        /\ UNCHANGED <<queued, wsLag, statusCache>>
        /\ dirty' = (podCache[D] # mem.pods)
        /\ mem' = [mem EXCEPT !.pods = podCache[D]]
    BY <1>7 DEF ReadPods
  <2>2. ~dirty' => mem' = mem
    BY <2>1 DEF TypeOK, Statuses
  <2> QED
    BY <2>1, <2>2 DEF StatusInv
<1>8. CASE ReadReplicas
  <2> DEFINE found == FoundReplicas
             new == [mem EXCEPT !.replicas = found,
                                !.scaling = found - snap.replicas]
  <2>1. pc = "replicas" /\ UNCHANGED <<wsLag, wsCache, statusCache, cache, lag>>
    BY <1>8 DEF ReadReplicas
  <2>2. CASE dirty \/ new # mem
    <3>1. pc' = "status" /\ dirty'
      BY <1>8, <2>2 DEF ReadReplicas
    <3> QED
      BY <3>1 DEF StatusInv
  <2>3. CASE ~dirty /\ new = mem
    <3>1. Forget /\ queued' = (queued \/ requeue)
      BY <1>8, <2>3 DEF ReadReplicas, Return
    <3>2. ASSUME ~queued, ~wsLag PROVE Reports(statusCache, wsCache)
      <4>1. snap = wsCache /\ mem = statusCache
        BY <2>1, <2>3, <3>2 DEF ConvInv, Progress, StatusInv
      <4>2. found = CachedReplicas(snap)
        BY DEF FoundReplicas, CachedReplicas
      <4>3. new.replicas = found /\ new.scaling = found - snap.replicas
        BY DEF TypeOK, Statuses
      <4> QED
        BY <2>3, <4>1, <4>2, <4>3 DEF Reports
    <3>3. ~queued' => ~queued
      BY <3>1
    <3> QED
      BY <2>1, <3>1, <3>2, <3>3
         DEF Forget, StatusInv, NoEvent, NoWorkloadEvent, Reports, CachedReplicas
  <2> QED
    BY <2>2, <2>3
<1>9. CASE WriteStatus
  BY <1>9, EndStatus DEF WriteStatus, Return
<1> QED
  BY <1>1, <1>2, <1>3, <1>4, <1>5, <1>6, <1>7, <1>8, <1>9 DEF Reconcile

LEMMA StatusNext ==
  ASSUME WatchedSetting, TypeOK, ConvInv, StatusInv, [Next]_vars
  PROVE  StatusInv'
<1> USE DEF api, informers, locals, history
<1>1. CASE Reconcile
  BY <1>1, StatusReconcile
<1>2. CASE Failures
  <2>1. CASE CallFails
    BY <2>1, EndStatus DEF CallFails, Return
  <2>2. CASE NoImage \/ ReplaceFails
    <3>1. /\ pc \in {"workload", "replace"} /\ pc' = "listDeployments"
          /\ UNCHANGED <<dirty, mem, queued, wsLag, statusCache>>
      BY <2>2 DEF NoImage, ReplaceFails, PassOver
    <3> QED
      BY <3>1, EarlyStatus DEF StatusInv
  <2> QED
    BY <1>2, <2>1, <2>2 DEF Failures
<1>3. CASE Crash
  BY <1>3 DEF Crash, Forget, StatusInv, NoEvent, NoWorkloadEvent
<1>4. CASE SyncWebServer
  BY <1>4 DEF SyncWebServer, StatusInv, NoEvent, NoWorkloadEvent
<1>5. CASE SyncPods
  BY <1>5, OthersStatus DEF SyncPods
<1>6. CASE \E kind \in Kinds : SyncWorkloads(kind)
  <2>1. PICK kind \in Kinds : SyncWorkloads(kind)
    BY <1>6
  <2>2. kind = "Deployment"
    BY <2>1 DEF SyncWorkloads, ConvInv, Coherent
  <2>3. queued' /\ UNCHANGED <<pc, mem, dirty, wsLag, statusCache>>
    BY <2>1, <2>2 DEF SyncWorkloads, Wakes, WatchedSetting
  <2> QED
    BY <2>3 DEF StatusInv, NoEvent, NoWorkloadEvent
<1>7. CASE Cluster \/ \E k \in Keys : Drift(k)
  <2>1. PICK k \in Keys : RunPods(k) \/ CollectGarbage(k) \/ Drift(k)
    BY <1>7 DEF Cluster
  <2>2. RestUnchanged /\ \E o : Write(k, o)
    BY <2>1 DEF RunPods, CollectGarbage, Drift, OtherWrites
  <2>3. lag # {} => lag' # {}
    BY <2>2 DEF Write
  <2> QED
    BY <2>2, <2>3, OthersStatus DEF RestUnchanged
<1>8. CASE EditSpec \/ DeleteWebServer \/ CreateWebServer
  BY <1>8, OthersStatus DEF EditSpec, DeleteWebServer, CreateWebServer,
                            ChangeWebServer
<1>9. CASE UNCHANGED vars
  BY <1>9, OthersStatus DEF vars
<1> QED
  BY <1>1, <1>2, <1>3, <1>4, <1>5, <1>6, <1>7, <1>8, <1>9
     DEF Next, Informers, Users

(* No early return, conflict or crash leaves a status behind that is not   *)
(* the workload's: at rest it shows the replicas that run, and how far     *)
(* they are from the spec.                                                 *)
THEOREM StatusCorrect ==
  ASSUME WatchedSetting
  PROVE  Spec => []QuietMeansStatusAccurate
<1>1. Init => ConvInv /\ StatusInv
  BY DEF Init, ConvInv, Coherent, Progress, MustBeRight, NoWorkloadEvent, Checked,
         KeysOf, StatusInv, NoEvent
<1>2. TypeOK /\ ConvInv /\ StatusInv /\ [Next]_vars => ConvInv' /\ StatusInv'
  BY CoherentNext, ProgressNext, StatusNext DEF ConvInv
<1>3. TypeOK /\ ConvInv /\ StatusInv => QuietMeansStatusAccurate
  <2> SUFFICES ASSUME TypeOK, ConvInv, StatusInv, Quiet, ws # Absent
               PROVE  /\ status.replicas = ActualPods(Desired(ws))
                      /\ status.scaling = ActualPods(Desired(ws)) - ws.replicas
    BY DEF QuietMeansStatusAccurate
  <2>1. wsCache = ws /\ statusCache = status /\ ws \in WebServers
    BY DEF Quiet, ConvInv, Coherent, TypeOK
  <2>2. Desired(ws) \in Keys /\ cache[Desired(ws)] = store[Desired(ws)]
    BY <2>1, DesiredIsKey DEF Quiet, ConvInv, Coherent
  <2>3. Reports(status, ws)
    BY <2>1 DEF Quiet, StatusInv, NoEvent, NoWorkloadEvent
  <2> QED
    BY <2>2, <2>3 DEF Reports, CachedReplicas, ActualPods
<1> QED
  BY <1>1, <1>2, <1>3, TypeCorrect, PTL DEF Spec

-----------------------------------------------------------------------------
(* The last workload.  The setting: nobody else deletes workloads, and a   *)
(* WebServer is created anew only once its predecessor's workloads are     *)
(* gone.                                                                   *)
SteadySetting ==
    /\ \A u, v \in Uids : u = v
    /\ "delete" \notin Drifts

(* What a reconcile that began with current caches saw in them is still    *)
(* there, as long as its WebServer is: from the lookup on the workload the *)
(* spec asks for is in the store, unless its image was not to be had, and  *)
(* it is none of those that will be deleted.                               *)
LastInv ==
    /\ \A k \in Keys \ lag : cache[k] = store[k]
    /\ pc = "workload" /\ ws # Absent /\ ~behind
         => \A k \in Keys : cache[k] # Absent => store[k] # Absent
    /\ pc = "replace" /\ ws # Absent /\ ~behind => store[Desired(snap)] # Absent
    /\ pc \in Checked /\ ws # Absent /\ ~behind /\ missed # "image"
         => store[Desired(snap)] # Absent
    /\ pc \in {"listStatefulSets", "delete"} => Desired(snap) \notin doomed

(* A write or a copy keeps what is not lagging equal to the store.         *)
Kept == \A k \in Keys : store[k] # Absent => store'[k] # Absent

LEMMA WriteLag ==
  ASSUME TypeOK, LastInv, NEW k \in Keys, NEW o, Write(k, o), UNCHANGED cache
  PROVE  /\ \A j \in Keys \ lag' : cache'[j] = store'[j]
         /\ o # Absent => Kept
  BY DEF TypeOK, LastInv, Write, Kept

(* Steps outside the reconcile, which nothing takes away in while a        *)
(* WebServer exists, and during which none appears.                        *)
LEMMA LastOthers ==
  ASSUME LastInv, UNCHANGED <<pc, snap, doomed, history>>,
         \A k \in Keys \ lag' : cache'[k] = store'[k],
         \A k \in Keys : cache'[k] \in {cache[k], store'[k]},
         pc # "idle" /\ ws' # Absent => ws # Absent /\ Kept,
         pc # "idle" => Desired(snap) \in Keys
  PROVE  LastInv'
<1> USE DEF history
<1>1. pc = "workload" /\ ws' # Absent /\ ~behind
        => \A k \in Keys : cache'[k] # Absent => store'[k] # Absent
  BY DEF LastInv, Kept
<1>2. /\ pc = "replace" /\ ws' # Absent /\ ~behind => store'[Desired(snap)] # Absent
      /\ pc \in Checked /\ ws' # Absent /\ ~behind /\ missed # "image"
           => store'[Desired(snap)] # Absent
  BY DEF LastInv, Kept, Checked
<1>3. Desired(snap)' = Desired(snap)
  BY DEF Desired
<1> QED
  BY <1>1, <1>2, <1>3 DEF LastInv

(* An error passed over, with the desired workload there or its image not  *)
(* to be had.                                                              *)
LEMMA LastPassOver ==
  ASSUME LastInv, NEW e, PassOver(e), UNCHANGED <<ws, store, cache, lag>>,
         e = "image" \/ pc = "replace"
  PROVE  LastInv'
  BY DEF PassOver, LastInv, Checked, Desired, locals

(* A reconcile that ends leaves only the first part to show.               *)
LEMMA LastEnd ==
  ASSUME Forget, \A k \in Keys \ lag' : cache'[k] = store'[k]
  PROVE  LastInv'
  BY DEF Forget, LastInv, Checked

LEMMA LastReconcile ==
  ASSUME SteadySetting, TypeOK, LastInv, Reconcile
  PROVE  /\ LastInv'
         /\ ws # Absent /\ ~behind /\ missed # "image"
              => Kept \/ \E k \in Keys : store'[k] # Absent
<1> USE DEF api, informers, locals, history
<1> DEFINE D == Desired(snap)
<1>0. UNCHANGED store => Kept
  BY DEF Kept
<1>1. CASE Start
  <2>1. /\ behind' = (lag # {}) /\ UNCHANGED <<store, cache, lag>>
        /\ pc' \in {"idle", "workload"}
    BY <1>1 DEF Start
  <2> QED
    BY <1>0, <2>1 DEF LastInv, Checked
<1>2. CASE ReadWorkload
  <2>1. /\ UNCHANGED <<ws, store, cache, lag, snap, doomed, history>>
        /\ pc = "workload"
        /\ pc' \in {"create", "replace", "update", "listDeployments"}
    BY <1>2 DEF ReadWorkload
  <2>2. snap \in WebServers /\ D \in Keys
    BY <2>1, DesiredIsKey DEF TypeOK
  <2>3. pc' \in {"replace", "listDeployments"} => cache[D] # Absent
    BY <1>2 DEF ReadWorkload
  <2> QED
    BY <1>0, <2>1, <2>2, <2>3 DEF LastInv, Checked, Desired
<1>3. CASE PanicOnStream \/ (ReadReplicas /\ pc' = "idle") \/ WriteStatus
  <2>1. Forget /\ UNCHANGED <<store, cache, lag>>
    BY <1>3 DEF PanicOnStream, ReadReplicas, WriteStatus, Return
  <2> QED
    BY <1>0, <2>1, LastEnd DEF LastInv
<1>4. CASE CreateWorkload \/ (ReplaceWorkload /\ Accepts(D, snap)) \/ UpdateWorkload
  <2>1. snap \in WebServers /\ Forget /\ UNCHANGED cache
    BY <1>4 DEF CreateWorkload, ReplaceWorkload, UpdateWorkload, Return, TypeOK
  <2>2. D \in Keys
    BY <2>1, DesiredIsKey
  <2>3. \/ UNCHANGED <<store, lag>>
        \/ \E o \in Workloads : Write(D, o)
    <3>1. CASE CreateWorkload
      BY <2>1, <3>1, WrittenIsWorkload DEF CreateWorkload
    <3>2. CASE ReplaceWorkload /\ Accepts(D, snap)
      <4>1. store[D] \in Workloads
        BY <2>2, <3>2 DEF Accepts, TypeOK
      <4>2. Regenerated(store[D], snap) \in Workloads
        BY <2>1, <4>1, WrittenIsWorkload
      <4> QED
        BY <3>2, <4>2 DEF ReplaceWorkload
    <3>3. CASE UpdateWorkload
      BY <3>3 DEF UpdateWorkload, TypeOK
    <3> QED
      BY <1>4, <3>1, <3>2, <3>3
  <2> HIDE DEF D
  <2>4. CASE UNCHANGED <<store, lag>>
    BY <1>0, <2>1, <2>4, LastEnd DEF LastInv
  <2>5. CASE \E o \in Workloads : Write(D, o)
    <3>1. PICK o \in Workloads : Write(D, o)
      BY <2>5
    <3>2. o # Absent
      BY <3>1, AbsentAssumption
    <3> QED
      BY <2>1, <2>2, <3>1, <3>2, WriteLag, LastEnd
  <2> QED
    BY <2>3, <2>4, <2>5
<1>8. CASE ReplaceWorkload /\ ~Accepts(D, snap)
  <2>1. /\ pc = "replace" /\ PassOver("update")
        /\ UNCHANGED <<ws, store, cache, lag>>
    BY <1>8 DEF ReplaceWorkload
  <2> QED
    BY <1>0, <2>1, LastPassOver
<1>5. CASE ListDeployments \/ ListStatefulSets
  <2>1. /\ UNCHANGED <<ws, store, cache, lag, snap, history>> /\ pc \in Checked
        /\ pc' \in Checked
    BY <1>5 DEF ListDeployments, ListStatefulSets, Checked
  <2>2. D \notin doomed'
    BY <1>5 DEF ListDeployments, ListStatefulSets, OwnedOthers, LastInv
  <2>3. ws # Absent /\ ~behind /\ missed # "image" => store[D] # Absent
    BY <2>1 DEF LastInv
  <2>4. D' = D
    BY <2>1 DEF Desired
  <2> HIDE DEF D
  <2>5. LastInv'
    BY <1>5, <2>1, <2>2, <2>3, <2>4
       DEF LastInv, D, ListDeployments, ListStatefulSets
  <2> QED
    BY <1>0, <2>1, <2>5
<1>6. CASE \E k \in Keys : DeleteOwned(k)
  <2>1. PICK k \in Keys : DeleteOwned(k)
    BY <1>6
  <2>2. CASE store[k] = Absent
    BY <1>0, <2>1, <2>2, LastEnd DEF DeleteOwned, Return, LastInv
  <2>3. CASE store[k] # Absent
    <3>1. /\ Write(k, Absent) /\ UNCHANGED <<ws, cache, snap, pc, history>>
          /\ pc = "delete" /\ k \in doomed /\ doomed' = doomed \ {k}
      BY <2>1, <2>3 DEF DeleteOwned
    <3>2. D \in Keys /\ D # k /\ D \notin doomed
      BY <3>1, DesiredIsKey DEF TypeOK, LastInv
    <3>3. store'[D] = store[D]
      BY <3>1, <3>2 DEF Write, TypeOK
    <3>4. \A j \in Keys \ lag' : cache'[j] = store'[j]
      BY <3>1, WriteLag
    <3>5. ws # Absent /\ ~behind /\ missed # "image" => store[D] # Absent
      BY <3>1 DEF LastInv, Checked
    <3> QED
      BY <2>1, <3>1, <3>2, <3>3, <3>4, <3>5 DEF LastInv, Checked, Desired
  <2> QED
    BY <2>2, <2>3
<1>7. CASE ReadPods \/ (ReadReplicas /\ pc' # "idle")
  <2>1. /\ UNCHANGED <<ws, store, cache, lag, snap, history>> /\ pc \in Checked
        /\ pc' \in {"replicas", "status"}
    BY <1>7 DEF ReadPods, ReadReplicas, Return, Forget, Checked
  <2> QED
    BY <1>0, <2>1 DEF LastInv, Checked, Desired
<1> QED
  BY <1>1, <1>2, <1>3, <1>4, <1>5, <1>6, <1>7, <1>8 DEF Reconcile

(* While a reconcile is in progress no WebServer takes the place of one    *)
(* that is gone: its UID is in use.                                        *)
LEMMA NoneAppears ==
  ASSUME SteadySetting, TypeOK, EditSpec \/ DeleteWebServer \/ CreateWebServer
  PROVE  pc # "idle" /\ ws' # Absent => ws # Absent
<1>1. CASE CreateWebServer
  <2>1. PICK new \in WebServers : new.uid \notin UsedUids
    BY <1>1 DEF CreateWebServer
  <2>2. pc # "idle" => snap \in WebServers /\ snap # Absent
    BY AbsentAssumption DEF TypeOK
  <2>3. pc # "idle" => snap.uid \in UsedUids
    BY <2>2 DEF UsedUids
  <2>4. pc # "idle" => snap.uid = new.uid
    BY <2>1, <2>2 DEF SteadySetting, WebServers
  <2> QED
    BY <2>1, <2>3, <2>4
<1>2. CASE EditSpec \/ DeleteWebServer
  BY <1>2 DEF EditSpec, DeleteWebServer, ChangeWebServer
<1> QED
  BY <1>1, <1>2

LEMMA LastNotReconcile ==
  ASSUME SteadySetting, TypeOK, LastInv,
         Failures \/ Crash \/ Informers \/ Cluster \/ Users \/ UNCHANGED vars
  PROVE  LastInv' /\ (ws # Absent /\ ws' # Absent => Kept)
<1> USE DEF api, informers, locals, history
<1>0. UNCHANGED store => Kept
  BY DEF Kept
<1>1. pc # "idle" => Desired(snap) \in Keys
  BY DesiredIsKey DEF TypeOK
<1>2. CASE Failures
  <2>1. CASE CallFails
    BY <1>0, <2>1, LastEnd DEF CallFails, Return, LastInv
  <2>2. CASE NoImage
    BY <1>0, <2>2, LastPassOver DEF NoImage
  <2>3. CASE ReplaceFails
    BY <1>0, <2>3, LastPassOver DEF ReplaceFails
  <2> QED
    BY <1>2, <2>1, <2>2, <2>3 DEF Failures
<1>3. CASE Crash
  BY <1>0, <1>3, LastEnd DEF Crash
<1>4. CASE Informers
  <2>1. /\ UNCHANGED <<ws, store, pc, snap, doomed, history>>
        /\ \A k \in Keys \ lag' : cache'[k] = store'[k]
        /\ \A k \in Keys : cache'[k] \in {cache[k], store'[k]}
    <3>1. CASE SyncWebServer \/ SyncPods
      BY <3>1 DEF SyncWebServer, SyncPods, LastInv
    <3>2. CASE \E kind \in Kinds : SyncWorkloads(kind)
      BY <3>2 DEF SyncWorkloads, LastInv, KeysOf
    <3> QED
      BY <1>4, <3>1, <3>2 DEF Informers
  <2> QED
    BY <1>0, <1>1, <2>1, LastOthers
<1>5. CASE Cluster \/ \E k \in Keys : Drift(k)
  <2>1. PICK k \in Keys : RunPods(k) \/ CollectGarbage(k) \/ Drift(k)
    BY <1>5 DEF Cluster
  <2>2. PICK o \in Workloads \cup {Absent} :
           /\ store[k] # Absent /\ RestUnchanged /\ Write(k, o)
           /\ o = Absent => ws = Absent
    <3>1. store[k] \in Workloads
      BY <2>1 DEF RunPods, CollectGarbage, Drift, TypeOK
    <3>2. CASE RunPods(k)
      <4>1. [store[k] EXCEPT !.ready = store[k].replicas] \in Workloads
        BY <3>1 DEF Workloads
      <4> QED
        BY <3>2, <4>1, AbsentAssumption DEF RunPods, OtherWrites
    <3>3. CASE CollectGarbage(k)
      <4>1. ws = Absent
        BY <3>1, <3>3 DEF CollectGarbage, SteadySetting, TypeOK, WebServers,
                          Workloads
      <4> QED
        BY <3>3, <4>1 DEF CollectGarbage, OtherWrites
    <3>4. CASE Drift(k)
      <4>1. PICK o \in Drifted(store[k]) : OtherWrites(k, o)
        BY <3>4 DEF Drift
      <4>2. o \in Workloads
        BY <3>1, <4>1, ConstantsAssumption
           DEF Drifted, SteadySetting, Workloads
      <4> QED
        BY <3>4, <4>1, <4>2, AbsentAssumption DEF Drift, OtherWrites
    <3> QED
      BY <2>1, <3>2, <3>3, <3>4
  <2>3. ws # Absent => Kept
    BY <2>2, WriteLag DEF RestUnchanged
  <2>4. \A j \in Keys \ lag' : cache'[j] = store'[j]
    BY <2>2, WriteLag DEF RestUnchanged
  <2> QED
    BY <1>1, <2>2, <2>3, <2>4, LastOthers DEF RestUnchanged
<1>6. CASE EditSpec \/ DeleteWebServer \/ CreateWebServer
  <2>1. UNCHANGED <<store, cache, lag, pc, snap, doomed, history>>
    BY <1>6 DEF EditSpec, DeleteWebServer, CreateWebServer, ChangeWebServer
  <2>2. pc # "idle" /\ ws' # Absent => ws # Absent
    BY <1>6, NoneAppears
  <2>3. \A k \in Keys \ lag' : cache'[k] = store'[k]
    BY <2>1 DEF LastInv
  <2> QED
    BY <1>0, <1>1, <2>1, <2>2, <2>3, LastOthers
<1>7. CASE UNCHANGED vars
  BY <1>0, <1>1, <1>7, LastOthers DEF vars, LastInv
<1> QED
  BY <1>2, <1>3, <1>4, <1>5, <1>6, <1>7 DEF Users

(* checkOwnedObjects never takes the last workload of a WebServer away,    *)
(* through every rename, every switch between Deployment and StatefulSet   *)
(* and every refused Update, whatever calls fail and wherever the operator *)
(* stops, except when the image is not to be had or the reconcile began    *)
(* with old copies.                                                        *)
THEOREM LastCorrect ==
  ASSUME SteadySetting
  PROVE  Spec => NeverTheLast
<1> DEFINE Step == Owned # {} /\ ws' # Absent /\ missed # "image" /\ ~behind
                     => Owned' # {}
<1>1. Init => LastInv
  BY DEF Init, LastInv, Checked
<1>2. TypeOK /\ LastInv /\ [Next]_vars => LastInv'
  BY LastReconcile, LastNotReconcile DEF Next
<1>3. TypeOK /\ TypeOK' /\ LastInv /\ [Next]_vars => [Step]_vars
  <2> SUFFICES ASSUME TypeOK, TypeOK', LastInv, Next, Owned # {}, ws' # Absent,
                      missed # "image", ~behind
               PROVE  Owned' # {}
    OBVIOUS
  <2>1. PICK k \in Keys : ws # Absent /\ store[k] # Absent
    BY DEF Owned
  <2>2. \E j \in Keys : store'[j] # Absent
    <3>1. CASE Reconcile
      BY <2>1, <3>1, LastReconcile DEF Kept
    <3>2. CASE ~Reconcile
      BY <2>1, <3>2, LastNotReconcile DEF Next, Kept
    <3> QED
      BY <3>1, <3>2
  <2>3. PICK j \in Keys : store'[j] # Absent
    BY <2>2
  <2>4. store'[j].owner \in Uids /\ ws'.uid \in Uids
    BY <2>3 DEF TypeOK, Workloads, WebServers
  <2> QED
    BY <2>3, <2>4 DEF Owned, SteadySetting
<1> QED
  BY <1>1, <1>2, <1>3, TypeCorrect, PTL DEF Spec, NeverTheLast

-----------------------------------------------------------------------------
(* No other path loses the key where not every kind is watched.  The       *)
(* setting is that of LastCorrect, in which moreover nobody else changes a *)
(* workload.                                                               *)
UnwatchedSetting ==
    /\ SteadySetting
    /\ Drifts = {}
    /\ ~AllWatched

(* Two looks at one workload, as far as the operator and the contract of   *)
(* the cluster's controllers go: only the status may differ.               *)
Alike(o, p) ==
    /\ o = Absent <=> p = Absent
    /\ o # Absent => /\ p.hash = o.hash /\ p.replicas = o.replicas
                     /\ p.image = o.image /\ p.owner = o.owner

Reading == {"workload", "listDeployments", "listStatefulSets"}

(* What a reconcile that began with current caches and passed over nothing *)
(* has established of the store by the time it is at pc, as long as there  *)
(* is a WebServer.                                                         *)
Established ==
    /\ pc \in Reading => \A k \in Keys : Alike(cache[k], store[k])
    /\ pc \in Checked => Satisfies(store[Desired(snap)], snap)
    /\ pc = "listStatefulSets" =>
         {k \in KeysOf("Deployment") \ {Desired(snap)} : store[k] # Absent} \subseteq doomed
    /\ pc \in {"delete", "replicas", "status"} =>
         {k \in Keys \ {Desired(snap)} : store[k] # Absent} \subseteq doomed

Clean == missed = "none" /\ ~behind

DoneInv ==
    /\ ~wsLag => wsCache = ws
    /\ pc # "idle" /\ ~queued => snap = wsCache
    /\ pc \in {"replicas", "status"} => doomed = {}
    /\ ws # Absent /\ Clean => Established
    /\ pc = "idle" /\ ~queued /\ ~wsLag /\ ws # Absent /\ Clean
         => Converged

(* Being alike is an equivalence, and keeps what a spec asks for.          *)
LEMMA AlikeFacts ==
  ASSUME NEW o, NEW p
  PROVE  /\ Alike(o, o)
         /\ Alike(o, p) => Alike(p, o)
         /\ \A q : Alike(o, p) /\ Alike(p, q) => Alike(o, q)
         /\ \A t : Satisfies(o, t) /\ Alike(o, p) => Satisfies(p, t)
  BY DEF Alike, Satisfies

LEMMA ConvergedAlike ==
  ASSUME TypeOK, Converged, ws # Absent, UNCHANGED ws,
         \A k \in Keys : Alike(store[k], store'[k])
  PROVE  Converged'
<1>1. ws \in WebServers
  BY DEF TypeOK
<1>2. Desired(ws) \in Keys
  BY <1>1, DesiredIsKey
<1>3. Satisfies(store'[Desired(ws)], ws)
  BY <1>2, AlikeFacts DEF Converged
<1>4. \A k \in Keys \ {Desired(ws)} : store'[k] # Absent => store'[k].owner # ws.uid
  BY DEF Converged, Alike
<1> QED
  BY <1>3, <1>4 DEF Converged, Desired

(* Steps of others: they change no more of a workload than its status,     *)
(* and what news they bring is queued or about to be.                      *)
LEMMA DoneOthers ==
  ASSUME TypeOK, DoneInv, UNCHANGED <<pc, snap, doomed, history>>,
         queued => queued', wsLag => wsLag' \/ queued',
         UNCHANGED ws \/ wsLag', UNCHANGED wsCache \/ queued',
         ~wsLag' => wsCache' = ws',
         pc # "idle" /\ ws' # Absent => ws # Absent,
         ws # Absent /\ ws' # Absent => \A k \in Keys : Alike(store[k], store'[k]),
         \A k \in Keys : cache'[k] = cache[k] \/ cache'[k] = store'[k]
  PROVE  DoneInv'
<1>0. Clean' <=> Clean
  BY DEF Clean, history
<1>1. ASSUME ws' # Absent, Clean PROVE Established'
  <2>1. CASE pc = "idle"
    BY <2>1 DEF Established, Reading, Checked
  <2>2. CASE pc # "idle"
    <3>1. Established /\ \A k \in Keys : Alike(store[k], store'[k])
      BY <1>1, <2>2 DEF DoneInv
    <3>2. snap \in WebServers /\ Desired(snap) \in Keys
      BY <2>2, DesiredIsKey DEF TypeOK
    <3>3. Desired(snap)' = Desired(snap)
      BY DEF Desired
    <3>4. pc \in Reading => \A k \in Keys : Alike(cache'[k], store'[k])
      <4>1. SUFFICES ASSUME pc \in Reading, NEW k \in Keys
                     PROVE  Alike(cache'[k], store'[k])
        OBVIOUS
      <4>2. Alike(cache[k], store[k]) /\ Alike(store[k], store'[k])
        BY <3>1, <4>1 DEF Established
      <4>3. Alike(cache[k], store'[k]) /\ Alike(store'[k], store'[k])
        BY <4>2, AlikeFacts
      <4> QED
        BY <4>3
    <3>5. pc \in Checked => Satisfies(store'[Desired(snap)], snap)
      BY <3>1, <3>2, AlikeFacts DEF Established
    <3>6. \A k \in Keys : store'[k] # Absent <=> store[k] # Absent
      BY <3>1 DEF Alike
    <3>8. /\ pc = "listStatefulSets" =>
               {k \in KeysOf("Deployment") \ {Desired(snap)} : store'[k] # Absent}
                  \subseteq doomed
          /\ pc \in {"delete", "replicas", "status"} =>
               {k \in Keys \ {Desired(snap)} : store'[k] # Absent} \subseteq doomed
      BY <3>1, <3>6 DEF Established, KeysOf
    <3> QED
      BY <3>3, <3>4, <3>5, <3>8 DEF Established
  <2> QED
    BY <2>1, <2>2
<1>2. ASSUME pc = "idle", ~queued', ~wsLag', ws' # Absent, Clean PROVE Converged'
  <2>1. ~queued /\ ~wsLag /\ ws' = ws
    BY <1>2
  <2>2. Converged
    BY <1>2, <2>1 DEF DoneInv
  <2> QED
    BY <1>2, <2>1, <2>2, ConvergedAlike
<1> QED
  BY <1>0, <1>1, <1>2 DEF DoneInv

(* A reconcile that ends queued, or with the workload as it is asked for.  *)
LEMMA DoneEnd ==
  ASSUME Forget, ~wsLag' => wsCache' = ws',
         ~queued' /\ ~wsLag' /\ ws' # Absent /\ Clean' => Converged'
  PROVE  DoneInv'
  BY DEF Forget, DoneInv, Established, Reading, Checked

(* A reconcile that passes over an error has nothing to show.              *)
LEMMA DonePassOver ==
  ASSUME DoneInv, NEW e, PassOver(e), e # "none", pc \in {"workload", "replace"},
         UNCHANGED <<ws, wsCache, wsLag>>
  PROVE  DoneInv'
  BY DEF PassOver, DoneInv, Clean, locals

LEMMA DoneReconcile ==
  ASSUME UnwatchedSetting, TypeOK, LastInv, DoneInv, Reconcile
  PROVE  DoneInv'
<1> USE DEF api, informers, locals, history
<1> DEFINE D == Desired(snap)
<1>0. /\ UNCHANGED <<ws, wsCache>> /\ (wsLag => wsLag')
      /\ ~wsLag' => wsCache' = ws'
  BY DEF Reconcile, Start, ReadWorkload, PanicOnStream, CreateWorkload,
         ReplaceWorkload, UpdateWorkload, ListDeployments, ListStatefulSets,
         DeleteOwned, ReadPods, ReadReplicas, WriteStatus, DoneInv
<1>1. CASE Start
  <2>1. behind' = (lag # {}) /\ UNCHANGED <<store, cache, wsLag>>
    BY <1>1 DEF Start
  <2>2. CASE wsCache = Absent
    <3>1. pc' = "idle" /\ (~wsLag => ws = Absent)
      BY <1>1, <2>2 DEF Start, DoneInv
    <3> QED
      BY <1>0, <2>1, <3>1 DEF DoneInv, Established, Reading, Checked
  <2>3. CASE wsCache # Absent
    <3>1. pc' = "workload" /\ snap' = wsCache
      BY <1>1, <2>3 DEF Start
    <3>2. Clean' => \A k \in Keys : Alike(cache'[k], store'[k])
      BY <2>1, AlikeFacts DEF LastInv, Clean
    <3>3. Clean' => Established'
      BY <3>1, <3>2 DEF Established, Checked
    <3> QED
      BY <1>0, <3>1, <3>3 DEF DoneInv
  <2> QED
    BY <2>2, <2>3
<1>2. CASE ReadWorkload
  <2>1. /\ UNCHANGED <<ws, wsCache, wsLag, store, cache, queued, snap, history>>
        /\ pc = "workload" /\ (Clean' <=> Clean)
        /\ pc' \in {"create", "replace", "update", "listDeployments"}
    BY <1>2 DEF ReadWorkload, Clean
  <2>2. snap \in WebServers /\ D \in Keys
    BY <2>1, DesiredIsKey DEF TypeOK
  <2>4. pc' = "listDeployments" => Satisfies(cache[D], snap)
    <3>1. pc' = "listDeployments"
            => cache[D] # Absent /\ cache[D] = Amended(cache[D], snap)
      BY <1>2 DEF ReadWorkload
    <3> QED
      BY <2>2, <3>1, AmendedSatisfies DEF TypeOK
  <2>5. ws # Absent /\ Clean => \A k \in Keys : Alike(cache[k], store[k])
    BY <2>1 DEF DoneInv, Established, Reading
  <2>6. ws # Absent /\ Clean
          => (Satisfies(cache[D], snap) => Satisfies(store[D], snap))
    BY <2>2, <2>5, AlikeFacts
  <2>7. ws # Absent /\ Clean => Established'
    BY <2>1, <2>4, <2>5, <2>6 DEF Established, Checked, Desired
  <2> QED
    BY <2>1, <2>7 DEF DoneInv
<1>3. CASE PanicOnStream \/ CreateWorkload \/ UpdateWorkload
  BY <1>0, <1>3, DoneEnd DEF PanicOnStream, CreateWorkload, UpdateWorkload, Return
<1>4. CASE ReplaceWorkload
  <2>1. CASE Accepts(D, snap)
    BY <1>0, <1>4, <2>1, DoneEnd DEF ReplaceWorkload, Return
  <2>2. CASE ~Accepts(D, snap)
    BY <1>4, <2>2, DonePassOver DEF ReplaceWorkload
  <2> QED
    BY <2>1, <2>2
<1>5. CASE ListDeployments
  <2>1. /\ UNCHANGED <<ws, wsCache, wsLag, store, cache, queued, snap, history>>
        /\ Clean' <=> Clean
        /\ pc = "listDeployments" /\ pc' = "listStatefulSets"
        /\ doomed' = OwnedOthers("Deployment")
    BY <1>5 DEF ListDeployments, Clean
  <2>2. ASSUME ws # Absent, Clean, NEW k \in KeysOf("Deployment") \ {D}, store[k] # Absent
        PROVE  k \in doomed'
    <3>1. k \in Keys /\ snap \in WebServers
      BY <2>1 DEF KeysOf, TypeOK
    <3>2. cache[k] # Absent
      BY <2>1, <2>2, <3>1 DEF DoneInv, Established, Reading, Alike
    <3>3. cache[k].owner \in Uids /\ snap.uid \in Uids
      BY <3>1, <3>2 DEF TypeOK, Workloads, WebServers
    <3>4. cache[k].owner = snap.uid
      BY <3>3 DEF UnwatchedSetting, SteadySetting
    <3> QED
      BY <2>1, <2>2, <3>2, <3>4 DEF OwnedOthers
  <2>3. ws # Absent /\ Clean => Established'
    BY <2>1, <2>2 DEF DoneInv, Established, Reading, Checked, Desired, KeysOf
  <2> QED
    BY <2>1, <2>3 DEF DoneInv
<1>6. CASE ListStatefulSets
  <2>1. /\ UNCHANGED <<ws, wsCache, wsLag, store, cache, queued, snap, history>>
        /\ Clean' <=> Clean
        /\ pc = "listStatefulSets" /\ pc' = "delete"
        /\ doomed' = doomed \cup OwnedOthers("StatefulSet")
    BY <1>6 DEF ListStatefulSets, Clean
  <2>2. ASSUME ws # Absent, Clean, NEW k \in Keys \ {D}, store[k] # Absent
        PROVE  k \in doomed'
    <3>1. k \in KeysOf("Deployment") \/ k \in KeysOf("StatefulSet")
      BY DEF Keys, KeysOf
    <3>2. CASE k \in KeysOf("Deployment")
      BY <2>1, <2>2, <3>2 DEF DoneInv, Established
    <3>3. CASE k \in KeysOf("StatefulSet")
      <4>1. cache[k] # Absent /\ snap \in WebServers
        BY <2>1, <2>2 DEF DoneInv, Established, Reading, Alike, TypeOK
      <4>2. cache[k].owner \in Uids /\ snap.uid \in Uids
        BY <4>1 DEF TypeOK, Workloads, WebServers
      <4>3. cache[k].owner = snap.uid
        BY <4>2 DEF UnwatchedSetting, SteadySetting
      <4> QED
        BY <2>1, <2>2, <3>3, <4>1, <4>3 DEF OwnedOthers
    <3> QED
      BY <3>1, <3>2, <3>3
  <2>3. ws # Absent /\ Clean => Established'
    BY <2>1, <2>2 DEF DoneInv, Established, Reading, Checked, Desired
  <2> QED
    BY <2>1, <2>3 DEF DoneInv
<1>7. CASE \E k \in Keys : DeleteOwned(k)
  <2>1. PICK k \in Keys : DeleteOwned(k)
    BY <1>7
  <2>2. CASE store[k] = Absent
    BY <1>0, <2>1, <2>2, DoneEnd DEF DeleteOwned, Return
  <2>3. CASE store[k] # Absent
    <3>1. /\ Write(k, Absent) /\ UNCHANGED <<ws, wsCache, wsLag, queued, pc, snap>>
          /\ (Clean' <=> Clean) /\ pc = "delete" /\ doomed' = doomed \ {k} /\ k \in doomed
      BY <2>1, <2>3 DEF DeleteOwned, Clean
    <3>2. k # D
      BY <3>1 DEF LastInv
    <3>3. D \in Keys
      BY <3>1, DesiredIsKey DEF TypeOK
    <3>4. store'[D] = store[D]
      BY <3>1, <3>2, <3>3 DEF Write, TypeOK
    <3>5. \A j \in Keys : store'[j] # Absent => j # k /\ store[j] # Absent
      BY <3>1 DEF Write, TypeOK
    <3>6. ws # Absent /\ Clean => Established'
      BY <3>1, <3>4, <3>5 DEF DoneInv, Established, Reading, Checked, Desired
    <3> QED
      BY <3>1, <3>6 DEF DoneInv
  <2> QED
    BY <2>2, <2>3
<1>8. CASE ReadPods \/ (ReadReplicas /\ pc' # "idle")
  <2>1. /\ UNCHANGED <<ws, wsCache, wsLag, store, cache, queued, snap, doomed>>
        /\ (Clean' <=> Clean) /\ pc \in {"delete", "replicas"} /\ doomed = {}
        /\ pc' \in {"replicas", "status"}
    BY <1>8 DEF ReadPods, ReadReplicas, Return, Forget, DoneInv, Clean
  <2>2. ws # Absent /\ Clean => Established'
    BY <2>1 DEF DoneInv, Established, Reading, Checked, Desired
  <2> QED
    BY <2>1, <2>2 DEF DoneInv
<1>9. CASE (ReadReplicas /\ pc' = "idle") \/ WriteStatus
  <2>1. /\ Forget /\ UNCHANGED <<ws, wsCache, store>> /\ (queued => queued')
        /\ pc \in {"replicas", "status"} /\ (Clean' <=> Clean)
    BY <1>9 DEF ReadReplicas, WriteStatus, Return, Clean
  <2>2. ASSUME ~queued', ~wsLag', ws # Absent, Clean PROVE Converged
    <3>1. snap = ws /\ Established /\ doomed = {}
      BY <1>0, <2>1, <2>2 DEF DoneInv
    <3>2. Satisfies(store[Desired(ws)], ws)
      BY <2>1, <3>1 DEF Established, Checked
    <3>3. \A k \in Keys \ {Desired(ws)} : store[k] = Absent
      BY <2>1, <3>1 DEF Established
    <3> QED
      BY <2>2, <3>2, <3>3 DEF Converged
  <2>3. ~queued' /\ ~wsLag' /\ ws' # Absent /\ Clean' => Converged'
    BY <2>1, <2>2 DEF Converged, Desired
  <2> QED
    BY <1>0, <2>1, <2>3, DoneEnd
<1> QED
  BY <1>1, <1>2, <1>3, <1>4, <1>5, <1>6, <1>7, <1>8, <1>9 DEF Reconcile

LEMMA DoneNext ==
  ASSUME UnwatchedSetting, TypeOK, LastInv, DoneInv, [Next]_vars
  PROVE  DoneInv'
<1> USE DEF api, informers, locals, history
<1>0. \A o : Alike(o, o)
  BY AlikeFacts
<1>1. CASE Reconcile
  BY <1>1, DoneReconcile
<1>2. CASE Failures
  <2>1. CASE CallFails
    <3>1. Forget /\ queued' /\ UNCHANGED <<ws, wsCache, wsLag>>
      BY <2>1 DEF CallFails, Return
    <3> QED
      BY <3>1, DoneEnd DEF DoneInv
  <2>2. CASE NoImage
    BY <2>2, DonePassOver DEF NoImage
  <2>3. CASE ReplaceFails
    BY <2>3, DonePassOver DEF ReplaceFails
  <2> QED
    BY <1>2, <2>1, <2>2, <2>3 DEF Failures
<1>3. CASE Crash
  <2>1. Forget /\ wsCache' = ws' /\ (ws' # Absent => queued')
    BY <1>3 DEF Crash
  <2> QED
    BY <2>1, DoneEnd
<1>4. CASE Informers
  <2>1. CASE SyncWebServer
    BY <1>0, <2>1, DoneOthers DEF SyncWebServer
  <2>2. CASE SyncPods
    BY <1>0, <2>2, DoneOthers DEF SyncPods, DoneInv
  <2>3. CASE \E kind \in Kinds : SyncWorkloads(kind)
    <3>1. PICK kind \in Kinds : SyncWorkloads(kind)
      BY <2>3
    <3>2. /\ UNCHANGED <<ws, store, wsCache, wsLag, pc, snap, doomed, history>>
          /\ queued => queued'
          /\ \A k \in Keys : cache'[k] = cache[k] \/ cache'[k] = store'[k]
      BY <3>1 DEF SyncWorkloads
    <3>3. \A k \in Keys : Alike(store[k], store'[k])
      BY <1>0, <3>2
    <3>4. ~wsLag => wsCache = ws
      BY DEF DoneInv
    <3> QED
      BY <3>2, <3>3, <3>4, DoneOthers
  <2> QED
    BY <1>4, <2>1, <2>2, <2>3 DEF Informers
<1>5. CASE Cluster \/ \E k \in Keys : Drift(k)
  <2>1. PICK k \in Keys : RunPods(k) \/ CollectGarbage(k) \/ Drift(k)
    BY <1>5 DEF Cluster
  <2>2. RestUnchanged /\ UNCHANGED <<cache, wsLag>> /\ store[k] # Absent
    BY <2>1 DEF RunPods, CollectGarbage, Drift, RestUnchanged
  <2>3. ws # Absent => \A j \in Keys : Alike(store[j], store'[j])
    <3>1. store[k] \in Workloads
      BY <2>2 DEF TypeOK
    <3>2. CASE RunPods(k)
      <4>1. Alike(store[k], [store[k] EXCEPT !.ready = store[k].replicas])
        <5>1. [store[k] EXCEPT !.ready = store[k].replicas] \in Workloads
          BY <3>1 DEF Workloads
        <5> QED
          BY <3>1, <5>1, AbsentAssumption DEF Alike, Workloads
      <4> QED
        BY <1>0, <3>2, <4>1 DEF RunPods, OtherWrites, Write, TypeOK
    <3>3. CASE CollectGarbage(k)
      BY <3>1, <3>3 DEF CollectGarbage, UnwatchedSetting, SteadySetting, TypeOK,
                        WebServers, Workloads
    <3>4. ~Drift(k)
      BY DEF Drift, Drifted, UnwatchedSetting
    <3> QED
      BY <2>1, <3>2, <3>3, <3>4
  <2>4. /\ UNCHANGED <<ws, wsCache, wsLag, cache, queued, pc, snap, doomed, history>>
        /\ ~wsLag => wsCache = ws
    BY <2>2 DEF RestUnchanged, DoneInv
  <2> QED
    BY <2>3, <2>4, DoneOthers
<1>6. CASE EditSpec \/ DeleteWebServer \/ CreateWebServer
  <2>1. /\ UNCHANGED <<store, cache, wsCache, queued, pc, snap, doomed, history>>
        /\ wsLag'
    BY <1>6 DEF EditSpec, DeleteWebServer, CreateWebServer, ChangeWebServer
  <2>2. pc # "idle" /\ ws' # Absent => ws # Absent
    BY <1>6, NoneAppears DEF UnwatchedSetting
  <2> QED
    BY <1>0, <2>1, <2>2, DoneOthers
<1>7. CASE UNCHANGED vars
  BY <1>0, <1>7, DoneOthers DEF vars, DoneInv
<1> QED
  BY <1>1, <1>2, <1>3, <1>4, <1>5, <1>6, <1>7 DEF Next, Users

(* Of the paths through Reconcile, none but the ones that pass over an     *)
(* error drops the key while work remains, even if no event of the         *)
(* workload ever wakes the operator: what it leaves to its own requeues is *)
(* done when it stops requeueing, where it has read current copies.  This  *)
(* is what StatefulSets, and on Kubernetes Deployments too, depend on.     *)
THEOREM UnwatchedCorrect ==
  ASSUME UnwatchedSetting
  PROVE  Spec => []QuietMeansConverged
<1> DEFINE All == LastInv /\ DoneInv
<1>1. Init => All
  BY DEF Init, LastInv, DoneInv, Established, Reading, Checked
<1>2. TypeOK /\ All /\ [Next]_vars => All'
  <2> SUFFICES ASSUME TypeOK, All, [Next]_vars PROVE All'
    OBVIOUS
  <2>1. SteadySetting
    BY DEF UnwatchedSetting
  <2>2. LastInv'
    BY <2>1, LastReconcile, LastNotReconcile DEF Next
  <2> QED
    BY <2>2, DoneNext
<1>3. All => QuietMeansConverged
  BY DEF UnwatchedSetting, DoneInv, Clean, QuietMeansConverged, Quiet
<1> QED
  BY <1>1, <1>2, <1>3, TypeCorrect, PTL DEF Spec
=============================================================================
