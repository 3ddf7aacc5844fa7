---------------------------- MODULE Provisioning ----------------------------
(***************************************************************************)
(* What Reconcile (webserver_controller.go) sets up before the workload:   *)
(* monitor, services, session clustering, config maps, log claim, route or *)
(* load balancer, for the WebServers of one namespace.                     *)
(*                                                                         *)
(* controller-runtime's single worker reconciles one WebServer at a time.  *)
(* Services, claims, routes and role bindings are looked up in informer    *)
(* caches and created when missing; config maps are written over.  Nothing *)
(* here is watched: only the WebServers themselves wake the operator.      *)
(*                                                                         *)
(* A lookup and the create that follows it are one step: what the cache    *)
(* learns between the two changes neither call.  Renames of applications   *)
(* are left out; they are the subject of WorkloadReconciler.               *)
(***************************************************************************)
EXTENDS Integers, FiniteSets

CONSTANTS
    Names,            \* the WebServers of the namespace
    Uids,             \* object UIDs of successive WebServers
    SpecsOf,          \* SpecsOf[w]: what the users of w may ask for
    IsOpenShift,      \* routes exist; FALSE: a load balancer service instead
    HasServiceMonitor,
    FailingCalls,     \* steps whose calls may answer with an error
    Busy,             \* the WebServers whose users do anything
    Adopts,           \* TRUE: a WebServer may be created anew at any time,
                      \*   FALSE: only once its predecessor is cleaned up
    MaxDisturbances,  \* bound on edits, grants, failed calls and crashes
    Absent, NoOwner

Steps == {"monitor", "admin", "image", "routing", "clustering", "dns",
          "serverxml", "liveness", "readiness", "start", "logging", "claim",
          "route", "lb", "rest"}

(* The order of the steps in Reconcile.                                    *)
Pos == [monitor |-> 1, admin |-> 2, image |-> 3, routing |-> 4,
        clustering |-> 5, dns |-> 6, serverxml |-> 7, liveness |-> 8,
        readiness |-> 9, start |-> 10, logging |-> 11, claim |-> 12,
        route |-> 13, lb |-> 14, rest |-> 15]

(* The ServiceMonitor and the service it monitors.                         *)
Monitoring == {"monitor", "admin"}

(* Created when missing, and never compared with the spec again.           *)
LookedUp == Monitoring \cup {"routing", "dns", "claim", "route", "lb"}
ConfigMaps == {"serverxml", "liveness", "readiness", "start", "logging"}
Kinds == LookedUp \cup ConfigMaps \cup {"binding"}

(* WebServerSpec as far as this part of Reconcile reads it.  host: the     *)
(* route's host name, which starts with "tls", is "NONE" or anything else. *)
Specs == [images : SUBSET {"webImage", "webImageStream"},
          host : {"tls", "NONE", "plain"},
          cluster : BOOLEAN, logs : BOOLEAN, keepLogs : BOOLEAN,
          liveness : BOOLEAN, readiness : BOOLEAN, notJWS : BOOLEAN]

(* The annotation UseKUBEPing.                                             *)
Pings == {"unset", "true", "false"}

(* A WebServer: its spec and the annotation the operator writes on it.     *)
WebServers == [uid : Uids, spec : Specs, ping : Pings]

NewWebServer(u, s) == [uid |-> u, spec |-> s, ping |-> "unset"]

(* The membership provider that test.sh puts into server.xml.              *)
Providers == {"none", "KubernetesMembershipProvider", "DNSMembershipProvider"}

Objects == [owner : Uids \cup {NoOwner}, provider : Providers]

Namespace == "namespace"

ASSUME ConstantsAssumption ==
    /\ SpecsOf \in [Names -> SUBSET Specs]
    /\ IsOpenShift \in BOOLEAN /\ HasServiceMonitor \in BOOLEAN
    /\ FailingCalls \subseteq Steps \cup {"annotate"}
    /\ Busy \subseteq Names
    /\ Adopts \in BOOLEAN
    /\ MaxDisturbances \in Nat
    /\ Namespace \notin Names
    /\ Absent \notin WebServers \cup Objects
    /\ Absent \notin Names
    /\ NoOwner \notin Uids

ASSUME UidsAssumption ==
    \E uid \in [Names -> Uids] : \A v, w \in Names : uid[v] = uid[w] => v = w

(* Wrong names: the DNS service of every WebServer is called the same.     *)
KeySharingDNS(kind, w) ==
    IF kind \in {"logging", "dns"} THEN <<kind, Namespace>> ELSE <<kind, w>>

(* The objects carry the WebServer's or its application's name, but for    *)
(* the logging properties: config-volume is one for the namespace.         *)
Key(kind, w) == IF kind = "logging" THEN <<kind, Namespace>> ELSE <<kind, w>>

Keys == {Key(kind, w) : kind \in Kinds, w \in Names}

VARIABLES
    ws,               \* the WebServers in the API server
    store,            \* the objects in the API server
    rights,           \* "bind": the operator may create role bindings,
                      \*   "view": an administrator's binding grants view
    wsCache, wsLag,   \* WebServer informer; wsLag: names not the latest
    known,            \* keys the informers' caches hold
    addressed,        \* load balancers whose cached status has an address
    queued,           \* names in the work queue, or to be added
    pc, at, snap,     \* the step, the name and the WebServer of the reconcile
    snapCurrent,      \* snap carries the current resourceVersion
    ping,             \* what createRoleBinding answered
    budget            \* disturbances left

cluster == <<ws, store, rights>>
caches  == <<wsCache, wsLag, known, addressed>>
locals  == <<pc, at, snap, snapCurrent, ping>>
vars    == <<cluster, caches, queued, locals, budget>>

Disturb == budget > 0 /\ budget' = budget - 1

Forget == /\ pc' = "idle" /\ at' = Absent /\ snap' = Absent
          /\ snapCurrent' = FALSE /\ ping' = "unset"

(* Reconcile returns: the key is added to the queue again or dropped.      *)
Return(again) ==
    /\ Forget
    /\ queued' = IF again THEN queued \cup {at} ELSE queued

-----------------------------------------------------------------------------
(* Which steps a WebServer needs, and what they leave behind.              *)

(* One source of the image, and image streams on OpenShift only.           *)
Accepted(s) ==
    /\ s.images \in {{"webImage"}, {"webImageStream"}}
    /\ s.images = {"webImageStream"} => IsOpenShift

(* Wrong: KUBEPing whatever the annotation says.                           *)
UsesKUBEPingAlways(p) == TRUE

(* getUseKUBEPing: only an explicit "false" turns KUBEPing off.            *)
UsesKUBEPing(p) == p # "false"

(* A wrong condition, which forgets the logs when it comes to test.sh.     *)
NeedsWithoutLogs(step, s, p) ==
    CASE step = "monitor"    -> HasServiceMonitor
      [] step = "admin"      -> HasServiceMonitor
      [] step = "clustering" -> s.cluster /\ p = "unset"
      [] step = "dns"        -> s.cluster /\ ~UsesKUBEPing(p)
      [] step = "serverxml"  -> s.host = "tls" \/ s.cluster
      [] step = "liveness"   -> s.liveness
      [] step = "readiness"  -> s.readiness
      [] step = "start"      -> s.notJWS
      [] step = "logging"    -> s.logs
      [] step = "claim"      -> s.logs
      [] step = "route"      -> IsOpenShift /\ s.host # "NONE"
      [] step = "lb"         -> ~IsOpenShift
      [] OTHER               -> TRUE

(* The conditions around the steps of Reconcile.                           *)
Needs(step, s, p) ==
    CASE step = "monitor"    -> HasServiceMonitor
      [] step = "admin"      -> HasServiceMonitor
      [] step = "clustering" -> s.cluster /\ p = "unset"
      [] step = "dns"        -> s.cluster /\ ~UsesKUBEPing(p)
      [] step = "serverxml"  -> s.host = "tls" \/ s.cluster \/ s.logs
      [] step = "liveness"   -> s.liveness
      [] step = "readiness"  -> s.readiness
      [] step = "start"      -> s.notJWS
      [] step = "logging"    -> s.logs
      [] step = "claim"      -> s.logs
      [] step = "route"      -> IsOpenShift /\ s.host # "NONE"
      [] step = "lb"         -> ~IsOpenShift
      [] OTHER               -> TRUE

(* Wrong ownership: the services carry no controller reference.            *)
OwnerButServices(kind, w) ==
    IF kind \in {"routing", "dns", "lb"} THEN NoOwner ELSE w.uid

(* SetControllerReference on everything but a log claim that is to stay.   *)
OwnerOf(kind, w) ==
    IF kind = "claim" /\ w.spec.keepLogs THEN NoOwner ELSE w.uid

(* A wrong choice, which writes the annotation where the class name goes.  *)
ProviderVerbatim(kind, w) ==
    IF kind # "serverxml" \/ ~w.spec.cluster THEN "none" ELSE w.ping

(* The provider generateCommandForServerXml chooses.                       *)
ProviderOf(kind, w) ==
    IF kind # "serverxml" \/ ~w.spec.cluster THEN "none"
    ELSE IF UsesKUBEPing(w.ping) THEN "KubernetesMembershipProvider"
                                 ELSE "DNSMembershipProvider"

Generated(kind, w) ==
    [owner |-> OwnerOf(kind, w), provider |-> ProviderOf(kind, w)]

(* On to the next step that snap needs.                                    *)
AdvanceFrom(step) ==
    \E next \in Steps :
      /\ Pos[next] > Pos[step] /\ Needs(next, snap.spec, snap.ping)
      /\ \A mid \in Steps :
           Pos[step] < Pos[mid] /\ Pos[mid] < Pos[next] =>
             ~Needs(mid, snap.spec, snap.ping)
      /\ pc' = next

-----------------------------------------------------------------------------
(* The reconcile.                                                          *)

(* The worker takes a name; getWebServer reads the cache.                  *)
Start(w) ==
    /\ pc = "idle" /\ w \in queued
    /\ queued' = queued \ {w}
    /\ IF wsCache[w] = Absent
       THEN UNCHANGED locals
       ELSE /\ at' = w /\ snap' = wsCache[w]
            /\ snapCurrent' = (w \notin wsLag)
            /\ pc' = IF HasServiceMonitor THEN "monitor" ELSE "image"
            /\ UNCHANGED ping
    /\ UNCHANGED <<cluster, caches, budget>>

Continue(step) ==
    AdvanceFrom(step) /\ UNCHANGED <<queued, at, snap, snapCurrent, ping>>

(* Both images or none, or an image stream on Kubernetes: the reconcile    *)
(* ends, without an error.                                                 *)
CheckImage ==
    /\ pc = "image"
    /\ IF Accepted(snap.spec) THEN Continue("image") ELSE Return(FALSE)
    /\ UNCHANGED <<cluster, caches, budget>>

(* A wrong lookup, which takes what it has just created for done.          *)
CreateOnly(key) ==
    /\ key \notin known
    /\ store' = [store EXCEPT ![key] = IF @ = Absent THEN Generated(pc, snap)
                                                     ELSE @]
    /\ IF pc = "dns" THEN Continue(pc) ELSE Return(FALSE)

(* Not found: Create, for which AlreadyExists is as good; then requeue.    *)
(* That of the DNS service is dropped: Reconcile looks at nothing but the  *)
(* error of useSessionClusteringConfig.                                    *)
Create(key) ==
    /\ key \notin known
    /\ store' = [store EXCEPT ![key] = IF @ = Absent THEN Generated(pc, snap)
                                                     ELSE @]
    /\ IF pc = "dns" THEN Continue(pc) ELSE Return(TRUE)

(* Found: whoever owns it, and whatever it was generated from.             *)
Found(key) ==
    /\ key \in known
    /\ IF pc = "lb" /\ key \notin addressed THEN Return(TRUE) ELSE Continue(pc)
    /\ UNCHANGED store

(* createService, createPersistentVolumeClaim, createRoute and the two     *)
(* GetOrCreateNew functions.                                               *)
GetOrCreate ==
    /\ pc \in LookedUp
    /\ Create(Key(pc, at)) \/ Found(Key(pc, at))
    /\ UNCHANGED <<ws, rights, caches, budget>>

(* createConfigMap: an unconditional Update, owner included; NotFound      *)
(* leads to Create and a requeue.                                          *)
PutConfigMap ==
    /\ pc \in ConfigMaps
    /\ LET key == Key(pc, at)
       IN  /\ store' = [store EXCEPT ![key] = Generated(pc, snap)]
           /\ IF store[key] = Absent THEN Return(TRUE) ELSE Continue(pc)
    /\ UNCHANGED <<ws, rights, caches, budget>>

(* Wrong: the binding of any WebServer will do.                            *)
GrantedByAny(w) ==
    "view" \in rights \/ \E v \in Names : <<"binding", v>> \in known

(* checkRoleBinding: the WebServer's own binding, or one whose name does   *)
(* not start like the operator's; another WebServer's does not count.      *)
Granted(w) == "view" \in rights \/ <<"binding", w>> \in known

(* createRoleBinding when no binding was listed: Get, then Create, for     *)
(* which AlreadyExists is as good; Forbidden means no KUBEPing.            *)
Bind ==
    LET key == <<"binding", at>>
    IN  /\ ping' = IF key \in known \/ "bind" \in rights THEN "true" ELSE "false"
        /\ store' = [store EXCEPT ![key] =
                       IF key \notin known /\ "bind" \in rights /\ @ = Absent
                       THEN Generated("binding", snap) ELSE @]

Decide ==
    /\ pc = "clustering"
    /\ IF Granted(at) THEN ping' = "true" /\ UNCHANGED store
       ELSE Bind
    /\ pc' = "annotate"
    /\ UNCHANGED <<ws, rights, caches, queued, at, snap, snapCurrent, budget>>

(* The List of the role bindings fails and counts as "nothing found".      *)
ListFails ==
    /\ pc = "clustering" /\ "clustering" \in FailingCalls
    /\ Disturb
    /\ Bind
    /\ pc' = "annotate"
    /\ UNCHANGED <<ws, rights, caches, queued, at, snap, snapCurrent>>

(* Wrong: the annotation is forced onto whatever is there by now.          *)
AnnotateAnyway ==
    /\ pc = "annotate"
    /\ IF ws[at] # Absent
       THEN /\ snap' = [snap EXCEPT !.ping = ping]
            /\ ws' = [ws EXCEPT ![at] = snap'] /\ wsLag' = wsLag \cup {at}
            /\ pc' = "serverxml"
            /\ UNCHANGED <<queued, at, snapCurrent, ping>>
       ELSE Return(TRUE) /\ UNCHANGED <<ws, wsLag>>
    /\ UNCHANGED <<store, rights, wsCache, known, addressed, budget>>

(* setUseKUBEPing: Update with the resource version of snap.  The requeue  *)
(* it asks for is dropped, on a conflict too: the reconcile goes on after  *)
(* the DNS service, with the annotation in memory.                         *)
Annotate ==
    /\ pc = "annotate"
    /\ IF ws[at] # Absent
       THEN /\ snap' = [snap EXCEPT !.ping = ping]
            /\ IF snapCurrent
               THEN ws' = [ws EXCEPT ![at] = snap'] /\ wsLag' = wsLag \cup {at}
               ELSE UNCHANGED <<ws, wsLag>>
            /\ pc' = "serverxml"
            /\ UNCHANGED <<queued, at, snapCurrent, ping>>
       ELSE Return(TRUE) /\ UNCHANGED <<ws, wsLag>>
    /\ UNCHANGED <<store, rights, wsCache, known, addressed, budget>>

(* The workload and the status; what they requeue is WorkloadReconciler's. *)
Rest ==
    /\ pc = "rest"
    /\ Return(FALSE)
    /\ UNCHANGED <<cluster, caches, budget>>

(* An error is returned, and the key put back.                             *)
CallFails ==
    /\ pc \in FailingCalls
    /\ Disturb /\ Return(TRUE)
    /\ UNCHANGED <<cluster, caches>>

(* The Get of a monitor or its service fails: the error is lost, and the   *)
(* empty object passes for the one looked for.                             *)
GetFails ==
    /\ pc \in FailingCalls \cap Monitoring
    /\ Disturb /\ Continue(pc)
    /\ UNCHANGED <<cluster, caches>>

Reconcile ==
    \/ \E w \in Names : Start(w)
    \/ CheckImage \/ GetOrCreate \/ PutConfigMap \/ Decide
    \/ Annotate \/ Rest

(* The operator stops anywhere; on restart the informers list everything.  *)
Crash ==
    /\ Disturb /\ Forget
    /\ queued' = {w \in Names : ws[w] # Absent}
    /\ wsCache' = ws /\ wsLag' = {}
    /\ known' = {k \in Keys : store[k] # Absent /\ k[1] \notin ConfigMaps}
    /\ addressed' = addressed \cap known'
    /\ UNCHANGED cluster

-----------------------------------------------------------------------------
(* Informers, users and the rest of the cluster.                           *)

SyncWebServer(w) ==
    /\ w \in wsLag
    /\ wsCache' = [wsCache EXCEPT ![w] = ws[w]]
    /\ wsLag' = wsLag \ {w}
    /\ queued' = queued \cup {w}
    /\ UNCHANGED <<cluster, known, addressed, locals, budget>>

KeysOf(kinds) == {k \in Keys : k[1] \in kinds}
Existing == {k \in Keys : store[k] # Absent}

(* One informer per API kind; four of the objects are services.            *)
CachedKinds == {{"monitor"}, {"admin", "routing", "dns", "lb"}, {"claim"},
                {"route"}, {"binding"}}

Sync(kinds) ==
    /\ known \cap KeysOf(kinds) # Existing \cap KeysOf(kinds)
    /\ known' = (known \ KeysOf(kinds)) \cup (Existing \cap KeysOf(kinds))
    /\ addressed' = addressed \cap known'
    /\ UNCHANGED <<cluster, wsCache, wsLag, queued, locals, budget>>

(* The cloud gives a load balancer its address.                            *)
Address(k) ==
    /\ k[1] = "lb" /\ k \in known \ addressed /\ store[k] # Absent
    /\ addressed' = addressed \cup {k}
    /\ UNCHANGED <<cluster, wsCache, wsLag, known, queued, locals, budget>>

ChangeWebServer(w, new) ==
    /\ Disturb
    /\ ws' = [ws EXCEPT ![w] = new]
    /\ wsLag' = wsLag \cup {w}
    /\ snapCurrent' = (snapCurrent /\ at # w)
    /\ UNCHANGED <<store, rights, wsCache, known, addressed, queued, pc, at,
                   snap, ping>>

(* A new spec; the annotation stays or is taken off.                       *)
EditSpec(w) ==
    /\ ws[w] # Absent
    /\ \E s \in SpecsOf[w], p \in {ws[w].ping, "unset"} :
         LET new == [ws[w] EXCEPT !.spec = s, !.ping = p]
         IN  new # ws[w] /\ ChangeWebServer(w, new)

DeleteWebServer(w) == ws[w] # Absent /\ ChangeWebServer(w, Absent)

UsedUids == {o.uid : o \in ({ws[w] : w \in Names} \cup {snap} \cup
                            {wsCache[w] : w \in Names}) \ {Absent}} \cup
            {store[k].owner : k \in {j \in Keys : store[j] # Absent}}

Living == {ws[w].uid : w \in {v \in Names : ws[v] # Absent}}

(* UIDs are given once; which one is given makes no difference.            *)
FreshUid == CHOOSE u \in Uids : u \notin UsedUids

(* The operator has seen the deletion and the collector is done.           *)
CleanedUp(w) ==
    /\ wsCache[w] = Absent /\ at # w
    /\ \A kind \in Kinds :
         /\ store[Key(kind, w)] # Absent =>
              store[Key(kind, w)].owner \in Living \cup {NoOwner}
         /\ Key(kind, w) \in known => store[Key(kind, w)] # Absent

CreateWebServer(w) ==
    /\ ws[w] = Absent
    /\ Adopts \/ CleanedUp(w)
    /\ Uids \ UsedUids # {}
    /\ \E s \in SpecsOf[w] : ChangeWebServer(w, NewWebServer(FreshUid, s))

(* The administrator lets the operator bind roles, or binds view himself.  *)
Grant(right) ==
    /\ right \notin rights
    /\ Disturb
    /\ rights' = rights \cup {right}
    /\ UNCHANGED <<ws, store, caches, queued, locals>>

(* The garbage collector: all that an owner which is gone leaves behind.   *)
OwnedBy(u) == {k \in Existing : store[k].owner = u}

CollectGarbage(u) ==
    /\ u \notin Living /\ OwnedBy(u) # {}
    /\ store' = [k \in Keys |-> IF k \in OwnedBy(u) THEN Absent ELSE store[k]]
    /\ UNCHANGED <<ws, rights, caches, queued, locals, budget>>

-----------------------------------------------------------------------------
FirstUids == CHOOSE uid \in [Names -> Uids] :
               \A v, w \in Names : uid[v] = uid[w] => v = w

Init ==
    /\ \E spec \in [Names -> UNION {SpecsOf[w] : w \in Names}] :
         /\ \A w \in Names : spec[w] \in SpecsOf[w]
         /\ ws = [w \in Names |-> NewWebServer(FirstUids[w], spec[w])]
    /\ store = [k \in Keys |-> Absent]
    /\ rights \in {{}, {"bind"}}
    /\ wsCache = ws /\ wsLag = {} /\ known = {} /\ addressed = {}
    /\ queued = Names
    /\ pc = "idle" /\ at = Absent /\ snap = Absent
    /\ snapCurrent = FALSE /\ ping = "unset"
    /\ budget = MaxDisturbances

Faults == CallFails \/ GetFails \/ ListFails \/ Crash
Informers == (\E w \in Names : SyncWebServer(w)) \/ (\E kinds \in CachedKinds : Sync(kinds))
Cluster == (\E k \in Keys : Address(k)) \/ (\E u \in Uids : CollectGarbage(u))
Users == \/ \E w \in Busy : EditSpec(w) \/ DeleteWebServer(w) \/ CreateWebServer(w)
         \/ \E right \in {"bind", "view"} : Grant(right)

Next == Reconcile \/ Faults \/ Informers \/ Cluster \/ Users

Spec == Init /\ [][Next]_vars

(* The worker takes every queued name in its turn; informers, cloud and    *)
(* collector keep going.                                                   *)
FairSpec ==
    /\ Spec
    /\ WF_vars(Reconcile) /\ \A w \in Names : SF_vars(Start(w))
    /\ \A w \in Names : WF_vars(SyncWebServer(w))
    /\ \A kinds \in CachedKinds : WF_vars(Sync(kinds))
    /\ \A k \in Keys : WF_vars(Address(k))
    /\ \A u \in Uids : WF_vars(CollectGarbage(u))

-----------------------------------------------------------------------------
(* Every variable has its type, and a reconcile in progress has a name and *)
(* a WebServer; only clustering WebServers are annotated.                  *)
TypeOK ==
    /\ ws \in [Names -> WebServers \cup {Absent}]
    /\ store \in [Keys -> Objects \cup {Absent}]
    /\ rights \subseteq {"bind", "view"}
    /\ wsCache \in [Names -> WebServers \cup {Absent}]
    /\ wsLag \subseteq Names /\ known \subseteq Keys
    /\ addressed \subseteq known
    /\ queued \subseteq Names
    /\ pc \in Steps \cup {"idle", "annotate"}
    /\ at \in Names \cup {Absent} /\ snap \in WebServers \cup {Absent}
    /\ snapCurrent \in BOOLEAN /\ ping \in Pings
    /\ budget \in Nat
    /\ IF pc = "idle" THEN at = Absent /\ snap = Absent
                      ELSE at \in Names /\ snap \in WebServers
    /\ pc \in {"clustering", "annotate"} => snap.spec.cluster
    /\ pc = "annotate" => ping # "unset"

(* Nothing is left that could wake the operator for w.                     *)
Quiet(w) == w \notin queued /\ w \notin wsLag /\ at # w

Present(kind, w) == store[Key(kind, w)] # Absent

(* The config maps and claims generateVolumes puts into the pod template:  *)
(* a pod does not start without any of them.                               *)
Mounts(s) ==
    (IF s.logs THEN {"logging", "claim"} ELSE {}) \cup
    (IF s.host = "tls" \/ s.cluster \/ s.logs THEN {"serverxml"} ELSE {}) \cup
    (IF s.notJWS THEN {"start"} ELSE {}) \cup
    (IF s.readiness THEN {"readiness"} ELSE {}) \cup
    (IF s.liveness THEN {"liveness"} ELSE {})

(* What leads requests to the pods.                                        *)
Serves(s) ==
    {"routing"} \cup (IF ~IsOpenShift THEN {"lb"}
                      ELSE IF s.host = "NONE" THEN {} ELSE {"route"})

Provisioned(w) ==
    \A kind \in Mounts(ws[w].spec) \cup Serves(ws[w].spec) : Present(kind, w)

(* When the operator has nothing left to do for a WebServer, everything    *)
(* its pods mount and everything that routes requests to them exists: no   *)
(* early return, failed call, crash, late cache or other WebServer's end   *)
(* leaves a hole that nobody will fill.                                    *)
QuietMeansProvisioned ==
    \A w \in Names :
      Quiet(w) /\ ws[w] # Absent /\ Accepted(ws[w].spec) => Provisioned(w)

(* A WebServer annotated to use KUBEPing has the permission for it as long *)
(* as it lives: its own role binding or an administrator's, never one that *)
(* goes away with another WebServer.                                       *)
KubepingBacked ==
    \A w \in Names : ws[w] # Absent /\ ws[w].ping = "true" =>
                       "view" \in rights \/ Present("binding", w)

(* When the operator is done with a clustering WebServer its pods can find *)
(* each other: server.xml asks Kubernetes and they may, or it asks DNS and *)
(* the service is there.                                                   *)
QuietMeansClustered ==
    \A w \in Names :
      Quiet(w) /\ ws[w] # Absent /\ Accepted(ws[w].spec) /\ ws[w].spec.cluster =>
        LET xml == store[Key("serverxml", w)]
        IN  /\ xml # Absent
            /\ \/ /\ xml.provider = "KubernetesMembershipProvider"
                  /\ "view" \in rights \/ Present("binding", w)
               \/ /\ xml.provider = "DNSMembershipProvider"
                  /\ Present("dns", w)

(* What the pods of a living WebServer mount, are reached by or find each  *)
(* other with is never taken away from them: no object of theirs goes when *)
(* another WebServer does.                                                 *)
Uses(w) ==
    LET s == ws[w].spec
    IN  {Key(kind, w) : kind \in Mounts(s) \cup Serves(s) \cup
                                IF s.cluster THEN {"dns", "binding"} ELSE {}}

NeverTakenAway ==
    [][\A w \in Names :
         ws[w] # Absent /\ ws'[w] # Absent =>
           \A k \in Uses(w) : store[k] # Absent => store'[k] # Absent]_vars

(* Once users and faults come to rest every WebServer is provisioned for   *)
(* good, ...                                                               *)
EventuallyProvisioned ==
    <>[](\A w \in Names :
           ws[w] # Absent /\ Accepted(ws[w].spec) => Provisioned(w))

(* ... and of a WebServer that is gone only a log claim it was to keep     *)
(* stays.                                                                  *)
EventuallyCollected ==
    <>[](\A w \in Names, kind \in Kinds \ {"claim", "logging"} :
           ws[w] = Absent => ~Present(kind, w))
=============================================================================
