----------------------- MODULE WorkloadRefinement_proofs -----------------------
(***************************************************************************)
(* The proof that WorkloadReconciler implements WorkloadContract, for any  *)
(* number of applications, configurations and successive WebServers.       *)
(***************************************************************************)
EXTENDS WorkloadRefinement, WorkloadReconciler_proofs

-----------------------------------------------------------------------------
(* What the contract sees of an object and of a write.                     *)

LEMMA LookFacts ==
  ASSUME NEW o \in Workloads
  PROVE  /\ o # Absent /\ Look(o) # Absent
         /\ Look(o) = [owner |-> o.owner, cfg |-> o.hash, replicas |-> o.replicas]
         /\ Look(o).owner = o.owner
<1>1. o # Absent
  BY AbsentAssumption
<1>2. Look(o) \in [owner : Uids, cfg : Cfgs \cup {NoHash}, replicas : Nat]
  BY <1>1 DEF Look, Workloads
<1> QED
  BY <1>1, <1>2, LookAssumption DEF Look

LEMMA WorldFacts ==
  ASSUME TypeOK, NEW k \in Keys
  PROVE  /\ World[k] = Look(store[k])
         /\ store[k] = Absent <=> World[k] = Absent
         /\ store[k] # Absent => store[k] \in Workloads
                                 /\ World[k].owner = store[k].owner
  BY LookFacts DEF World, TypeOK, Look

LEMMA WriteWorld ==
  ASSUME TypeOK, NEW k \in Keys, NEW o, store' = [store EXCEPT ![k] = o]
  PROVE  World' = [World EXCEPT ![k] = Look(o)]
  BY DEF World, TypeOK

-----------------------------------------------------------------------------
(* What the reconcile knows.                                               *)

(* w is the UID of the WebServer x.                                        *)
Is(w, x) == x # Absent /\ x.uid = w

(* A UID the operator works for or has made a workload for.                *)
Used(w) ==
    \/ Is(w, snap)
    \/ \E k \in Keys : \/ store[k] # Absent /\ store[k].owner = w
                       \/ cache[k] # Absent /\ cache[k].owner = w

(* News travels from ws to wsCache to snap: what the operator has worked   *)
(* for and does not work for now is gone.                                  *)
Chain ==
    \A w \in Uids : Used(w) =>
      /\ snap # Absent => Is(w, snap) \/ (~Is(w, wsCache) /\ ~Is(w, ws))
      /\ Is(w, wsCache) \/ ~Is(w, ws)

(* A cached workload that is another WebServer's by now belonged to one    *)
(* that nobody will hear of again.                                         *)
StaleOwner ==
    \A k \in Keys :
      cache[k] # Absent /\ store[k] # Absent /\ cache[k].owner # store[k].owner =>
        /\ ~Is(cache[k].owner, snap) /\ ~Is(cache[k].owner, wsCache)
        /\ ~Is(cache[k].owner, ws)

Fresh == \A k \in Keys \ lag : cache[k] = store[k]

(* A current copy is the stored workload, amended.                         *)
CopyRight ==
    pc = "update" /\ objCurrent =>
      /\ store[Desired(snap)] # Absent
      /\ obj = Amended(store[Desired(snap)], snap)

(* What is to be deleted is not the wanted workload, and its WebServer's.  *)
DoomedRight ==
    \A k \in doomed :
      k # Desired(snap) /\ (store[k] # Absent => store[k].owner = snap.uid)

Idle == pc = "idle" => snap = Absent /\ doomed = {}

Owners == Chain /\ StaleOwner
RefInv == Owners /\ Fresh /\ CopyRight /\ DoomedRight /\ Idle

LEMMA RefInit == Init => RefInv
  BY DEF Init, RefInv, Owners, Chain, Used, Is, StaleOwner, Fresh, CopyRight,
         DoomedRight, Idle

-----------------------------------------------------------------------------
(* Owners.  Each kind of step adds nothing to what is used, or only what   *)
(* the reconcile works for.                                                *)

(* The reconcile writes a workload that its WebServer, or the same one as  *)
(* before, owns, or takes one away; it may be over then.                   *)
LEMMA OwnersWrite ==
  ASSUME TypeOK, Owners, NEW k \in Keys, NEW o,
         store' = [store EXCEPT ![k] = o],
         \/ o = Absent
         \/ o.owner \in Uids /\ store[k] # Absent /\ o.owner = store[k].owner
         \/ o.owner \in Uids /\ snap # Absent /\ o.owner = snap.uid,
         snap' \in {snap, Absent}, UNCHANGED <<ws, wsCache, cache>>
  PROVE  Owners'
<1>1. \A w \in Uids : Used(w)' => Used(w)
  BY DEF Used, Is, TypeOK
<1>2. Chain'
  BY <1>1, AbsentAssumption DEF Owners, Chain, Is
<1>3. StaleOwner'
  <2> SUFFICES ASSUME NEW j \in Keys, cache[j] # Absent, store'[j] # Absent,
                      cache[j].owner # store'[j].owner
               PROVE  /\ ~Is(cache[j].owner, snap') /\ ~Is(cache[j].owner, wsCache)
                      /\ ~Is(cache[j].owner, ws)
    BY DEF StaleOwner
  <2>1. cache[j].owner \in Uids /\ Used(cache[j].owner)
    BY DEF TypeOK, Workloads, Used
  <2>2. CASE store[j] # Absent /\ store'[j].owner = store[j].owner
    BY <2>2 DEF Owners, StaleOwner, Is
  <2>3. CASE snap # Absent /\ store'[j].owner = snap.uid
    BY <2>1, <2>3 DEF Owners, Chain, Is
  <2> QED
    BY <2>2, <2>3 DEF TypeOK
<1> QED
  BY <1>2, <1>3 DEF Owners

(* The reconcile may end, or only look.                                    *)
LEMMA OwnersEnd ==
  ASSUME Owners, UNCHANGED <<ws, store, wsCache, cache>>,
         snap' \in {snap, Absent}
  PROVE  Owners'
  BY DEF Owners, Chain, StaleOwner, Used, Is

LEMMA OwnersReconcile ==
  ASSUME TypeOK, RefInv, Reconcile PROVE Owners'
<1> USE DEF RefInv, api, informers, locals, Return, Forget
<1>1. CASE Start
  <2>1. CASE wsCache = Absent
    BY <1>1, <2>1, OwnersEnd DEF Start
  <2>2. CASE wsCache # Absent
    BY <1>1, <2>2 DEF Start, Owners, Chain, StaleOwner, Used, Is
  <2> QED
    BY <2>1, <2>2
<1>2. CASE ReadWorkload \/ PanicOnStream \/ ListDeployments \/ ListStatefulSets
           \/ ReadPods \/ ReadReplicas \/ WriteStatus
  <2>1. snap' \in {snap, Absent} /\ UNCHANGED <<ws, store, wsCache, cache>>
    BY <1>2 DEF ReadWorkload, PanicOnStream, ListDeployments, ListStatefulSets,
                ReadPods, ReadReplicas, WriteStatus
  <2> QED
    BY <2>1, OwnersEnd
<1>3. CASE CreateWorkload \/ ReplaceWorkload \/ UpdateWorkload
  <2> DEFINE D == Desired(snap)
  <2>1. snap \in WebServers /\ snap # Absent
    BY <1>3, AbsentAssumption
       DEF CreateWorkload, ReplaceWorkload, UpdateWorkload, TypeOK
  <2>2. D \in Keys
    BY <2>1, DesiredIsKey
  <2>3. snap' \in {snap, Absent} /\ UNCHANGED <<ws, wsCache, cache>>
    BY <1>3 DEF CreateWorkload, ReplaceWorkload, UpdateWorkload, PassOver
  <2>4. CASE UNCHANGED store
    BY <2>3, <2>4, OwnersEnd
  <2>5. ASSUME store' # store
        PROVE  \E o \in Workloads :
                 /\ store' = [store EXCEPT ![D] = o]
                 /\ \/ o.owner = store[D].owner /\ store[D] # Absent
                    \/ o.owner = snap.uid
    <3>1. CASE CreateWorkload
      BY <2>1, <2>5, <3>1, WrittenIsWorkload
         DEF CreateWorkload, Write, NewWorkload
    <3>2. CASE ReplaceWorkload
      <4>1. store' = [store EXCEPT ![D] = Regenerated(store[D], snap)]
            /\ store[D] # Absent
        BY <2>5, <3>2 DEF ReplaceWorkload, Write, Accepts
      <4>2. Regenerated(store[D], snap) \in Workloads
        BY <2>1, <2>2, <4>1, WrittenIsWorkload DEF TypeOK
      <4>3. Regenerated(store[D], snap).owner = snap.uid
        BY DEF Regenerated, NewWorkload
      <4> QED
        BY <4>1, <4>2, <4>3
    <3>3. CASE UpdateWorkload
      <4>1. store' = [store EXCEPT ![D] = obj] /\ store[D] # Absent
            /\ obj = Amended(store[D], snap)
        BY <2>5, <3>3 DEF UpdateWorkload, Write, CopyRight
      <4>2. obj \in Workloads /\ obj.owner = store[D].owner
        BY <2>1, <2>2, <4>1, WrittenIsWorkload DEF TypeOK, Amended, Workloads
      <4> QED
        BY <4>1, <4>2
    <3> QED
      BY <1>3, <3>1, <3>2, <3>3
  <2>6. CASE store' # store
    <3> HIDE DEF D
    <3>1. PICK o \in Workloads :
                 /\ store' = [store EXCEPT ![D] = o]
                 /\ \/ o.owner = store[D].owner /\ store[D] # Absent
                    \/ o.owner = snap.uid
      BY <2>5, <2>6
    <3>2. o.owner \in Uids
      BY DEF Workloads
    <3> QED
      BY ONLY TypeOK, Owners, <2>1, <2>2, <2>3, <3>1, <3>2, OwnersWrite
  <2> QED
    BY <2>4, <2>6
<1>4. CASE \E k \in Keys : DeleteOwned(k)
  <2>1. PICK k \in Keys : DeleteOwned(k)
    BY <1>4
  <2>2. snap' \in {snap, Absent} /\ UNCHANGED <<ws, wsCache, cache>>
        /\ (store' = store \/ store' = [store EXCEPT ![k] = Absent])
    BY <2>1 DEF DeleteOwned, Write
  <2>3. CASE store' = store
    BY <2>2, <2>3, OwnersEnd
  <2>4. CASE store' = [store EXCEPT ![k] = Absent]
    BY ONLY TypeOK, Owners, <2>2, <2>4, OwnersWrite
  <2> QED
    BY <2>2, <2>3, <2>4
<1> QED
  BY <1>1, <1>2, <1>3, <1>4 DEF Reconcile

LEMMA OwnersOthers ==
  ASSUME TypeOK, RefInv, Failures \/ Crash \/ Informers \/ Cluster \/ Users
  PROVE  Owners'
<1> USE DEF RefInv, api, informers, locals, Return, Forget
<1>1. CASE Failures \/ SyncPods
  BY <1>1, OwnersEnd DEF Failures, CallFails, NoImage, ReplaceFails, PassOver,
                         SyncPods
<1>2. CASE Crash
  BY <1>2 DEF Crash, Owners, Chain, StaleOwner, Used, Is
<1>3. CASE SyncWebServer
  BY <1>3 DEF SyncWebServer, Owners, Chain, StaleOwner, Used, Is
<1>4. CASE \E kind \in Kinds : SyncWorkloads(kind)
  <2>1. /\ UNCHANGED <<ws, wsCache, store, snap>>
        /\ \A k \in Keys : cache'[k] \in {cache[k], store[k]}
    BY <1>4 DEF SyncWorkloads
  <2> QED
    BY <2>1 DEF Owners, Chain, StaleOwner, Used, Is
<1>5. CASE Cluster \/ \E k \in Keys : Drift(k)
  <2>1. PICK k \in Keys : RunPods(k) \/ CollectGarbage(k) \/ Drift(k)
    BY <1>5 DEF Cluster
  <2>2. UNCHANGED <<ws, wsCache, cache, snap>> /\ store[k] # Absent
    BY <2>1 DEF RunPods, CollectGarbage, Drift, RestUnchanged
  <2>3. PICK o : /\ store' = [store EXCEPT ![k] = o]
                 /\ o = Absent \/ o.owner = store[k].owner
    <3>1. store[k] \in Workloads
      BY <2>2 DEF TypeOK
    <3>2. CASE RunPods(k)
      <4> DEFINE o == [store[k] EXCEPT !.ready = store[k].replicas]
      <4>1. store' = [store EXCEPT ![k] = o]
        BY <3>2 DEF RunPods, OtherWrites, Write
      <4>2. o.owner = store[k].owner
        BY <3>1 DEF Workloads
      <4> QED
        BY <4>1, <4>2
    <3>3. CASE CollectGarbage(k)
      BY <3>3 DEF CollectGarbage, OtherWrites, Write
    <3>4. CASE Drift(k)
      <4>1. \A o \in Drifted(store[k]) : o = Absent \/ o.owner = store[k].owner
        BY <3>1 DEF Drifted, Workloads
      <4> QED
        BY <3>4, <4>1 DEF Drift, OtherWrites, Write
    <3> QED
      BY <2>1, <3>2, <3>3, <3>4
  <2>4. store[k].owner \in Uids
    BY <2>2 DEF TypeOK, Workloads
  <2> QED
    BY ONLY TypeOK, Owners, <2>2, <2>3, <2>4, OwnersWrite
<1>6. CASE EditSpec \/ DeleteWebServer
  <2>1. UNCHANGED <<wsCache, store, cache, snap>>
        /\ (ws' = Absent \/ (ws # Absent /\ ws'.uid = ws.uid))
    BY <1>6 DEF EditSpec, DeleteWebServer, ChangeWebServer
  <2> QED
    BY <2>1 DEF Owners, Chain, StaleOwner, Used, Is
<1>7. CASE CreateWebServer
  <2>1. UNCHANGED <<wsCache, store, cache, snap>> /\ ws' \in WebServers
        /\ ws'.uid \notin UsedUids
    BY <1>7 DEF CreateWebServer, ChangeWebServer
  <2>2. \A w \in Uids : Used(w) => w # ws'.uid
    BY <2>1 DEF Used, Is, UsedUids
  <2>3. \A w \in Uids : Used(w)' <=> Used(w)
    BY <2>1 DEF Used, Is
  <2>4. \A k \in Keys : cache[k] # Absent => cache[k].owner \in Uids /\ Used(cache[k].owner)
    BY DEF TypeOK, Workloads, Used
  <2>5. Chain'
    BY <2>1, <2>2, <2>3 DEF Owners, Chain, Is
  <2>6. StaleOwner'
    BY <2>1, <2>2, <2>4 DEF Owners, StaleOwner, Is
  <2> QED
    BY <2>5, <2>6 DEF Owners
<1> QED
  BY <1>1, <1>2, <1>3, <1>4, <1>5, <1>6, <1>7 DEF Informers, Cluster, Users

-----------------------------------------------------------------------------
(* Copies.                                                                 *)
Copies == Fresh /\ CopyRight /\ DoomedRight /\ Idle

LEMMA WriteFresh ==
  ASSUME TypeOK, Fresh, NEW k \in Keys, NEW o, Write(k, o), UNCHANGED cache
  PROVE  Fresh'
  BY DEF Fresh, Write, TypeOK

(* The end of a reconcile leaves nothing to be right about.                *)
LEMMA EndCopies ==
  ASSUME Forget PROVE CopyRight' /\ DoomedRight' /\ Idle'
  BY DEF Forget, CopyRight, DoomedRight, Idle

(* Nor is anything to be deleted yet when an error is passed over.         *)
LEMMA PassOverCopies ==
  ASSUME Copies, NEW e, PassOver(e), UNCHANGED <<store, cache, lag>>
  PROVE  Copies'
  BY DEF PassOver, Copies, Fresh, CopyRight, DoomedRight, Idle, Desired, locals

LEMMA CopiesReconcile ==
  ASSUME TypeOK, RefInv, Reconcile PROVE Copies'
<1> USE DEF RefInv, Copies, api, informers, locals, Return
<1> DEFINE D == Desired(snap)
<1>1. CASE Start
  BY <1>1 DEF Start, Fresh, CopyRight, DoomedRight, Idle
<1>2. CASE ReadWorkload
  <2>1. D \in Keys
    BY <1>2, DesiredIsKey DEF ReadWorkload, TypeOK
  <2>2. pc' = "update" /\ objCurrent' =>
          cache[D] # Absent /\ obj' = Amended(cache[D], snap) /\ D \notin lag
    BY <1>2 DEF ReadWorkload
  <2>3. CopyRight'
    BY <1>2, <2>1, <2>2 DEF ReadWorkload, Fresh, CopyRight
  <2> QED
    BY <1>2, <2>3 DEF ReadWorkload, Fresh, DoomedRight, Idle
<1>3. CASE PanicOnStream
  BY <1>3, EndCopies DEF PanicOnStream, Fresh
<1>9. CASE ReplaceWorkload /\ ~Accepts(D, snap)
  BY <1>9, PassOverCopies DEF ReplaceWorkload
<1>4. CASE CreateWorkload \/ (ReplaceWorkload /\ Accepts(D, snap)) \/ UpdateWorkload
  <2>1. D \in Keys
    BY <1>4, DesiredIsKey DEF CreateWorkload, ReplaceWorkload, UpdateWorkload, TypeOK
  <2>2. Forget /\ UNCHANGED cache /\ (UNCHANGED <<store, lag>> \/ \E o : Write(D, o))
    BY <1>4 DEF CreateWorkload, ReplaceWorkload, UpdateWorkload
  <2> HIDE DEF D
  <2>3. Fresh'
    BY <2>1, <2>2, WriteFresh DEF Fresh
  <2> QED
    BY <2>2, <2>3, EndCopies
<1>5. CASE ListDeployments \/ ListStatefulSets
  <2>1. PICK kind \in Kinds : doomed' \subseteq doomed \cup OwnedOthers(kind)
    <3>1. CASE ListDeployments
      <4>1. doomed' \subseteq doomed \cup OwnedOthers("Deployment")
        BY <3>1 DEF ListDeployments
      <4> QED
        BY <4>1 DEF Kinds
    <3>2. CASE ListStatefulSets
      <4>1. doomed' \subseteq doomed \cup OwnedOthers("StatefulSet")
        BY <3>2 DEF ListStatefulSets
      <4> QED
        BY <4>1 DEF Kinds
    <3> QED
      BY <1>5, <3>1, <3>2
  <2>2. \A k \in OwnedOthers(kind) :
          k # Desired(snap) /\ (store[k] # Absent => store[k].owner = snap.uid)
    <3>1. snap \in WebServers /\ snap # Absent
      BY <1>5, AbsentAssumption DEF ListDeployments, ListStatefulSets, TypeOK
    <3> QED
      BY <3>1 DEF OwnedOthers, KeysOf, Owners, StaleOwner, Is
  <2>3. UNCHANGED <<store, snap, cache, lag>> /\ pc' \notin {"update", "idle"}
    BY <1>5 DEF ListDeployments, ListStatefulSets
  <2>4. DoomedRight'
    BY <2>1, <2>2, <2>3 DEF DoomedRight, Desired
  <2> QED
    BY <2>3, <2>4 DEF Fresh, CopyRight, Idle
<1>6. CASE \E k \in Keys : DeleteOwned(k)
  <2>1. PICK k \in Keys : DeleteOwned(k)
    BY <1>6
  <2>2. CASE store[k] = Absent
    BY <2>1, <2>2, EndCopies DEF DeleteOwned, Fresh
  <2>3. CASE store[k] # Absent
    <3>1. Write(k, Absent) /\ UNCHANGED <<cache, pc, snap>> /\ pc = "delete"
          /\ doomed' \subseteq doomed
      BY <2>1, <2>3 DEF DeleteOwned
    <3>2. Fresh'
      BY <3>1, WriteFresh
    <3>3. \A j \in Keys : store'[j] # Absent => store'[j] = store[j]
      BY <3>1 DEF Write, TypeOK
    <3>4. DoomedRight'
      BY <3>1, <3>3 DEF DoomedRight, Desired, TypeOK
    <3> QED
      BY <3>1, <3>2, <3>4 DEF CopyRight, Idle
  <2> QED
    BY <2>2, <2>3
<1>7. CASE ReadPods
  BY <1>7 DEF ReadPods, Fresh, CopyRight, DoomedRight, Idle, Desired
<1>8. CASE ReadReplicas \/ WriteStatus
  <2>1. UNCHANGED <<store, cache, lag>>
        /\ (Forget \/ (pc' = "status" /\ UNCHANGED <<snap, doomed>>))
    BY <1>8 DEF ReadReplicas, WriteStatus
  <2> QED
    BY <2>1, EndCopies DEF Fresh, CopyRight, DoomedRight, Idle, Desired
<1> QED
  BY <1>1, <1>2, <1>3, <1>4, <1>5, <1>6, <1>7, <1>8, <1>9 DEF Reconcile

LEMMA CopiesOthers ==
  ASSUME TypeOK, RefInv, Failures \/ Crash \/ Informers \/ Cluster \/ Users
  PROVE  Copies'
<1> USE DEF RefInv, Copies, api, informers, locals, Return
<1>1. CASE Failures
  <2>1. CASE CallFails
    BY <2>1, EndCopies DEF CallFails, Fresh
  <2>2. CASE NoImage
    BY <2>2, PassOverCopies DEF NoImage
  <2>3. CASE ReplaceFails
    BY <2>3, PassOverCopies DEF ReplaceFails
  <2> QED
    BY <1>1, <2>1, <2>2, <2>3 DEF Failures
<1>2. CASE Crash
  BY <1>2, EndCopies DEF Crash, Fresh
<1>3. CASE SyncWebServer \/ SyncPods \/ EditSpec \/ DeleteWebServer \/ CreateWebServer
  <2>1. UNCHANGED <<store, cache, lag, pc, snap, obj, objCurrent, doomed>>
    BY <1>3 DEF SyncWebServer, SyncPods, EditSpec, DeleteWebServer,
                CreateWebServer, ChangeWebServer
  <2> QED
    BY <2>1 DEF Fresh, CopyRight, DoomedRight, Idle, Desired
<1>4. CASE \E kind \in Kinds : SyncWorkloads(kind)
  BY <1>4 DEF SyncWorkloads, KeysOf, Fresh, CopyRight, DoomedRight, Idle, Desired
<1>5. CASE Cluster \/ \E k \in Keys : Drift(k)
  <2>1. PICK k \in Keys : RunPods(k) \/ CollectGarbage(k) \/ Drift(k)
    BY <1>5 DEF Cluster
  <2>2. RestUnchanged
    BY <2>1 DEF RunPods, CollectGarbage, Drift
  <2>3. PICK o : OtherWrites(k, o) /\ (o = Absent \/ o.owner = store[k].owner)
    <3>1. store[k] \in Workloads
      BY <2>1 DEF RunPods, CollectGarbage, Drift, TypeOK
    <3>2. [store[k] EXCEPT !.ready = store[k].replicas].owner = store[k].owner
      BY <3>1 DEF Workloads
    <3>3. \A o \in Drifted(store[k]) : o = Absent \/ o.owner = store[k].owner
      BY <3>1 DEF Drifted, Workloads
    <3> QED
      BY <2>1, <3>2, <3>3 DEF RunPods, CollectGarbage, Drift
  <2>4. Fresh'
    BY <2>2, <2>3, WriteFresh DEF OtherWrites, RestUnchanged
  <2>5. CopyRight'
    <3>1. CASE k = Desired(snap)
      BY <2>3, <3>1 DEF OtherWrites, CopyRight
    <3>2. CASE k # Desired(snap)
      <4>1. store'[Desired(snap)] = store[Desired(snap)]
        BY <2>3, <3>2 DEF OtherWrites, Write, TypeOK
      <4> QED
        BY <2>2, <2>3, <3>2, <4>1
           DEF OtherWrites, RestUnchanged, CopyRight, Desired, Amended
    <3> QED
      BY <3>1, <3>2
  <2>6. store[k] # Absent
    BY <2>1 DEF RunPods, CollectGarbage, Drift
  <2>7. DoomedRight'
    BY <2>2, <2>3, <2>6
       DEF OtherWrites, Write, RestUnchanged, DoomedRight, Desired, TypeOK
  <2> QED
    BY <2>2, <2>4, <2>5, <2>7 DEF RestUnchanged, Idle
<1> QED
  BY <1>1, <1>2, <1>3, <1>4, <1>5 DEF Informers, Cluster, Users

LEMMA RefNext ==
  ASSUME TypeOK, RefInv, [Next]_vars PROVE RefInv'
<1>1. CASE Next
  <2>1. Owners' /\ Copies'
    BY <1>1, OwnersReconcile, OwnersOthers, CopiesReconcile, CopiesOthers DEF Next
  <2> QED
    BY <2>1 DEF RefInv, Copies
<1>2. CASE UNCHANGED vars
  BY <1>2 DEF vars, api, informers, locals, RefInv, Owners, Chain, Used, Is,
              StaleOwner, Fresh, CopyRight, DoomedRight, Idle, Desired
<1> QED
  BY <1>1, <1>2
-----------------------------------------------------------------------------
(* Each step is a step of the contract, or nothing it sees.                *)
CNext == [Contract!Next]_(Contract!vars)

LEMMA SimInit == Init => Contract!Init
  BY ConstantsAssumption
     DEF Init, Contract!Init, World, Look

LEMMA Stutters ==
  ASSUME UNCHANGED <<ws, wsCache, snap, store, budget>> PROVE CNext
  BY DEF CNext, Contract!vars, World, Look

LEMMA Takes ==
  ASSUME snap' \in {wsCache, Absent}, UNCHANGED <<ws, wsCache, store, budget>>
  PROVE  CNext
<1>1. Contract!Take
  BY DEF Contract!Take, World, Look
<1> QED
  BY <1>1 DEF CNext, Contract!Next

LEMMA Applies ==
  ASSUME TypeOK, snap \in WebServers, NEW o \in Workloads,
         store' = [store EXCEPT ![Desired(snap)] = o],
         o.hash = snap.cfg, o.replicas = snap.replicas,
         \/ o.owner = snap.uid
         \/ store[Desired(snap)] # Absent /\ o.owner = store[Desired(snap)].owner,
         snap' \in {snap, Absent}, UNCHANGED <<ws, wsCache, budget>>
  PROVE  CNext
<1> DEFINE D == Desired(snap)
<1>1. D \in Keys /\ snap # Absent
  BY DesiredIsKey, AbsentAssumption
<1> HIDE DEF D
<1>2. World' = [World EXCEPT ![D] = Look(o)]
  BY <1>1, WriteWorld DEF D
<1>3. Look(o) = [owner |-> o.owner, cfg |-> snap.cfg, replicas |-> snap.replicas]
  BY LookFacts
<1>4. o.owner \in {snap.uid} \cup (IF World[D] # Absent THEN {World[D].owner} ELSE {})
  BY <1>1, WorldFacts DEF D
<1>5. Contract!Apply
  BY <1>1, <1>2, <1>3, <1>4 DEF Contract!Apply, Contract!There, D
<1> QED
  BY <1>5 DEF CNext, Contract!Next

LEMMA Removes ==
  ASSUME TypeOK, NEW k \in Keys, snap # Absent, k # Desired(snap),
         store[k] # Absent, store[k].owner = snap.uid,
         store' = [store EXCEPT ![k] = Absent],
         UNCHANGED <<ws, wsCache, snap, budget>>
  PROVE  CNext
<1>1. World' = [World EXCEPT ![k] = Absent]
  BY WriteWorld DEF Look
<1>2. World[k] # Absent /\ World[k].owner = snap.uid
  BY WorldFacts
<1>3. Contract!Remove
  BY <1>1, <1>2 DEF Contract!Remove, Contract!There
<1> QED
  BY <1>3 DEF CNext, Contract!Next

LEMMA SimReconcile == ASSUME TypeOK, RefInv, Reconcile PROVE CNext
<1> USE DEF RefInv, api, informers, locals, Return, Forget
<1>1. CASE Start \/ ReadWorkload \/ PanicOnStream \/ ListDeployments
           \/ ListStatefulSets \/ ReadPods \/ ReadReplicas \/ WriteStatus
  <2>1. UNCHANGED <<ws, wsCache, store, budget>>
        /\ snap' \in {snap, wsCache, Absent}
    BY <1>1 DEF Start, ReadWorkload, PanicOnStream, ListDeployments,
                ListStatefulSets, ReadPods, ReadReplicas, WriteStatus
  <2> QED
    BY <2>1, Stutters, Takes
<1>2. CASE CreateWorkload \/ ReplaceWorkload \/ UpdateWorkload
  <2> DEFINE D == Desired(snap)
  <2>1. snap \in WebServers
    BY <1>2 DEF CreateWorkload, ReplaceWorkload, UpdateWorkload, TypeOK
  <2>2. D \in Keys
    BY <2>1, DesiredIsKey
  <2>3. snap' \in {snap, Absent} /\ UNCHANGED <<ws, wsCache, budget>>
    BY <1>2 DEF CreateWorkload, ReplaceWorkload, UpdateWorkload, PassOver
  <2>4. CASE UNCHANGED store
    BY <2>3, <2>4, Takes, Stutters
  <2>5. CASE store' # store
    <3>1. PICK o \in Workloads :
            /\ store' = [store EXCEPT ![D] = o]
            /\ o.hash = snap.cfg /\ o.replicas = snap.replicas
            /\ \/ o.owner = snap.uid
               \/ store[D] # Absent /\ o.owner = store[D].owner
      <4>1. CASE CreateWorkload
        BY <2>1, <2>5, <4>1, WrittenIsWorkload
           DEF CreateWorkload, Write, NewWorkload, HashOf
      <4>2. CASE ReplaceWorkload
        <5>1. store' = [store EXCEPT ![D] = Regenerated(store[D], snap)]
              /\ store[D] # Absent
          BY <2>5, <4>2 DEF ReplaceWorkload, Write, Accepts
        <5>2. Regenerated(store[D], snap) \in Workloads
          BY <2>1, <2>2, <5>1, WrittenIsWorkload DEF TypeOK
        <5>3. Regenerated(store[D], snap)
                = [NewWorkload(snap) EXCEPT !.ready = store[D].ready]
          BY DEF Regenerated
        <5> QED
          BY <5>1, <5>2, <5>3 DEF NewWorkload, HashOf
      <4>3. CASE UpdateWorkload
        <5>1. store' = [store EXCEPT ![D] = obj] /\ store[D] # Absent
              /\ obj = Amended(store[D], snap)
          BY <2>5, <4>3 DEF UpdateWorkload, Write, CopyRight
        <5>2. obj \in Workloads /\ store[D] \in Workloads
          BY <2>1, <2>2, <5>1, WrittenIsWorkload DEF TypeOK
        <5>3. obj.owner = store[D].owner /\ obj.hash = snap.cfg
              /\ obj.replicas = snap.replicas
          BY <5>1, <5>2 DEF Amended, Workloads, HashOf
        <5> QED
          BY <5>1, <5>2, <5>3
      <4> QED
        BY <1>2, <4>1, <4>2, <4>3
    <3> HIDE DEF D
    <3> QED
      BY ONLY TypeOK, <2>1, <2>3, <3>1, Applies DEF D
  <2> QED
    BY <2>4, <2>5
<1>3. CASE \E k \in Keys : DeleteOwned(k)
  <2>1. PICK k \in Keys : DeleteOwned(k)
    BY <1>3
  <2>2. CASE store[k] = Absent
    BY <2>1, <2>2, Takes DEF DeleteOwned
  <2>3. CASE store[k] # Absent
    <3>1. k # Desired(snap) /\ store[k].owner = snap.uid /\ snap # Absent
      BY <2>1, <2>3, AbsentAssumption DEF DeleteOwned, DoomedRight, TypeOK
    <3>2. store' = [store EXCEPT ![k] = Absent]
          /\ UNCHANGED <<ws, wsCache, snap, budget>>
      BY <2>1, <2>3 DEF DeleteOwned, Write
    <3> QED
      BY ONLY TypeOK, <2>3, <3>1, <3>2, Removes
  <2> QED
    BY <2>2, <2>3
<1> QED
  BY <1>1, <1>2, <1>3 DEF Reconcile

(* Any other write to a workload spends patience, or is the collector's.   *)
LEMMA Tampers ==
  ASSUME TypeOK, NEW k \in Keys, store[k] # Absent, NEW o \in Workloads,
         o.owner = store[k].owner, store' = [store EXCEPT ![k] = o],
         Disturb, UNCHANGED <<ws, wsCache, snap>>
  PROVE  CNext
<1>1. World' = [World EXCEPT ![k] = Look(o)] /\ World'[k] = Look(o)
  <2>1. World' = [World EXCEPT ![k] = Look(o)]
    BY WriteWorld
  <2>2. DOMAIN World = Keys
    BY DEF World
  <2> QED
    BY <2>1, <2>2
<1>2. World[k] # Absent /\ Look(o).owner = World[k].owner
  BY WorldFacts, LookFacts
<1>3. budget' < budget
  BY DEF Disturb, TypeOK
<1>4. Contract!Tamper
  BY <1>1, <1>2, <1>3 DEF Contract!Tamper, Contract!There, Contract!Spends
<1> QED
  BY <1>4 DEF CNext, Contract!Next

LEMMA Goes ==
  ASSUME TypeOK, NEW k \in Keys, store[k] # Absent,
         store' = [store EXCEPT ![k] = Absent], UNCHANGED <<ws, wsCache, snap>>,
         \/ Disturb
         \/ UNCHANGED budget /\ (ws # Absent => store[k].owner # ws.uid)
  PROVE  CNext
<1>1. World' = [World EXCEPT ![k] = Absent]
  BY WriteWorld DEF Look
<1>2. World[k] # Absent /\ World[k].owner = store[k].owner
  BY WorldFacts
<1>3. CASE Disturb
  <2>1. budget' < budget
    BY <1>3 DEF Disturb, TypeOK
  <2>2. Contract!Tamper
    BY <1>1, <1>2, <2>1 DEF Contract!Tamper, Contract!There, Contract!Spends
  <2> QED
    BY <2>2 DEF CNext, Contract!Next
<1>4. CASE UNCHANGED budget /\ (ws # Absent => store[k].owner # ws.uid)
  <2>1. Contract!Collect
    BY <1>1, <1>2, <1>4 DEF Contract!Collect, Contract!There
  <2> QED
    BY <2>1 DEF CNext, Contract!Next
<1> QED
  BY <1>3, <1>4

LEMMA SimOthers ==
  ASSUME TypeOK, RefInv, Failures \/ Crash \/ Informers \/ Cluster \/ Users
  PROVE  CNext
<1> USE DEF RefInv, api, informers, locals, Return, Forget
<1>1. CASE Failures \/ Crash
  <2>1. Disturb /\ snap' \in {snap, Absent} /\ wsCache' \in {wsCache, ws}
        /\ UNCHANGED <<ws, store>>
    BY <1>1 DEF Failures, CallFails, NoImage, ReplaceFails, PassOver, Crash
  <2>2. budget' < budget /\ World' = World
    BY <2>1 DEF Disturb, TypeOK, World, Look
  <2>3. Contract!Interrupt
    BY <2>1, <2>2 DEF Contract!Interrupt, Contract!Spends
  <2> QED
    BY <2>3 DEF CNext, Contract!Next
<1>2. CASE SyncWebServer
  <2>1. wsCache' = ws /\ UNCHANGED <<ws, snap, budget>> /\ World' = World
    BY <1>2 DEF SyncWebServer, World, Look
  <2>2. Contract!Hear
    BY <2>1 DEF Contract!Hear
  <2> QED
    BY <2>2 DEF CNext, Contract!Next
<1>3. CASE SyncPods \/ \E kind \in Kinds : SyncWorkloads(kind)
  BY <1>3, Stutters DEF SyncPods, SyncWorkloads
<1>4. CASE Cluster \/ \E k \in Keys : Drift(k)
  <2>1. PICK k \in Keys : RunPods(k) \/ CollectGarbage(k) \/ Drift(k)
    BY <1>4 DEF Cluster
  <2>2. UNCHANGED <<ws, wsCache, snap>> /\ store[k] # Absent
    BY <2>1 DEF RunPods, CollectGarbage, Drift, RestUnchanged
  <2>3. store[k] \in Workloads
    BY <2>2 DEF TypeOK
  <2>4. CASE RunPods(k)
    <3>1. store' = [store EXCEPT ![k] = [store[k] EXCEPT !.ready = store[k].replicas]]
          /\ UNCHANGED budget
      BY <2>4 DEF RunPods, OtherWrites, Write
    <3>2. Look([store[k] EXCEPT !.ready = store[k].replicas]) = Look(store[k])
      <4>1. [store[k] EXCEPT !.ready = store[k].replicas] \in Workloads
        BY <2>3 DEF Workloads
      <4>2. /\ [store[k] EXCEPT !.ready = store[k].replicas].owner = store[k].owner
            /\ [store[k] EXCEPT !.ready = store[k].replicas].hash = store[k].hash
            /\ [store[k] EXCEPT !.ready = store[k].replicas].replicas = store[k].replicas
        BY <2>3 DEF Workloads
      <4> QED
        BY <2>3, <4>1, <4>2, LookFacts
    <3>3. World' = [World EXCEPT ![k] = Look(store[k])]
      BY <3>1, <3>2, WriteWorld
    <3>4. World' = World
      BY <3>3, WorldFacts DEF World
    <3> QED
      BY <2>2, <3>1, <3>4 DEF CNext, Contract!vars
  <2>5. CASE CollectGarbage(k)
    <3>1. store' = [store EXCEPT ![k] = Absent] /\ UNCHANGED budget
          /\ (ws # Absent => store[k].owner # ws.uid)
      BY <2>5 DEF CollectGarbage, OtherWrites, Write
    <3> QED
      BY ONLY TypeOK, <2>2, <3>1, Goes
  <2>6. CASE Drift(k)
    <3>1. PICK o \in Drifted(store[k]) : store' = [store EXCEPT ![k] = o] /\ Disturb
      BY <2>6 DEF Drift, OtherWrites, Write
    <3>2. o = Absent \/ (o \in Workloads /\ o.owner = store[k].owner)
      BY <2>3, ConstantsAssumption DEF Drifted, Workloads
    <3> QED
      BY ONLY TypeOK, <2>2, <3>1, <3>2, Goes, Tampers
  <2> QED
    BY <2>1, <2>4, <2>5, <2>6
<1>5. CASE EditSpec \/ DeleteWebServer \/ CreateWebServer
  <2>1. Disturb /\ UNCHANGED <<store, wsCache, snap>>
    BY <1>5 DEF EditSpec, DeleteWebServer, CreateWebServer, ChangeWebServer
  <2>2. budget' < budget /\ World' = World
    BY <2>1 DEF Disturb, TypeOK, World, Look
  <2>3. /\ ws' \in WebServers \cup {Absent}
        /\ ws' # Absent =>
             IF ws # Absent THEN ws'.uid = ws.uid
             ELSE \A k \in Keys : World[k] # Absent => World[k].owner # ws'.uid
    <3>1. CASE EditSpec
      BY <3>1, AbsentAssumption DEF EditSpec, ChangeWebServer
    <3>2. CASE DeleteWebServer
      BY <3>2 DEF DeleteWebServer, ChangeWebServer
    <3>3. CASE CreateWebServer
      <4>1. ws = Absent /\ ws' \in WebServers /\ ws'.uid \notin UsedUids
        BY <3>3 DEF CreateWebServer, ChangeWebServer
      <4>2. \A k \in Keys : store[k] # Absent => store[k].owner # ws'.uid
        BY <4>1 DEF UsedUids
      <4> QED
        BY <4>1, <4>2, WorldFacts
    <3> QED
      BY <1>5, <3>1, <3>2, <3>3
  <2>4. Contract!Demand
    BY <2>1, <2>2, <2>3 DEF Contract!Demand, Contract!Spends, Contract!There
  <2> QED
    BY <2>4 DEF CNext, Contract!Next
<1> QED
  BY <1>1, <1>2, <1>3, <1>4, <1>5 DEF Informers, Cluster, Users

LEMMA SimNext == ASSUME TypeOK, RefInv, [Next]_vars PROVE CNext
<1>1. CASE Next
  BY <1>1, SimReconcile, SimOthers DEF Next
<1>2. CASE UNCHANGED vars
  BY <1>2, Stutters DEF vars, api, informers, locals
<1> QED
  BY <1>1, <1>2

(* Every behaviour of the reconciler is one the contract allows: whatever  *)
(* the caches say, and through conflicts, failed calls, crashes and a new  *)
(* WebServer of the same name, createDeployment, the Updates and           *)
(* checkOwnedObjects do to workloads only what Apply and Remove say.       *)
THEOREM Refines == Spec => Implements
<1>1. Init => Contract!Init /\ RefInv
  BY SimInit, RefInit
<1>2. TypeOK /\ RefInv /\ [Next]_vars => RefInv'
  BY RefNext
<1>3. TypeOK /\ RefInv /\ [Next]_vars => [Contract!Next]_(Contract!vars)
  BY SimNext DEF CNext
<1> QED
  BY <1>1, <1>2, <1>3, TypeCorrect, PTL DEF Spec, Implements, Contract!Spec
=============================================================================
