------------------------- MODULE Provisioning_proofs -------------------------
(***************************************************************************)
(* Proofs about Provisioning, for any number of WebServers, whatever they  *)
(* ask for: each object is its own WebServer's (OwnInv), the annotation    *)
(* tells the truth (BindInv), and what a reconcile has passed is there, or *)
(* another reconcile follows (Progress).                                   *)
(***************************************************************************)
EXTENDS Provisioning, TLAPS

-----------------------------------------------------------------------------
(* Keys, generated objects, steps and UIDs.                                *)

LEMMA KeyIsKey ==
  ASSUME NEW kind \in Kinds, NEW w \in Names PROVE Key(kind, w) \in Keys
  BY DEF Keys

LEMMA BindingKey ==
  ASSUME NEW w \in Names
  PROVE  Key("binding", w) = <<"binding", w>> /\ <<"binding", w>> \in Keys
<1>1. Key("binding", w) = <<"binding", w>> /\ "binding" \in Kinds
  BY DEF Key, Kinds
<1> QED
  BY <1>1, KeyIsKey

LEMMA GeneratedTyped ==
  ASSUME NEW kind, NEW w \in WebServers PROVE Generated(kind, w) \in Objects
<1>1. OwnerOf(kind, w) \in Uids \cup {NoOwner}
  BY DEF OwnerOf, WebServers
<1>2. ProviderOf(kind, w) \in Providers
  BY DEF ProviderOf, Providers
<1> QED
  BY <1>1, <1>2 DEF Generated, Objects

LEMMA AdvanceTyped ==
  ASSUME NEW step, AdvanceFrom(step)
  PROVE  pc' \in Steps /\ (pc' = "clustering" => snap.spec.cluster)
<1>1. pc' \in Steps /\ Needs(pc', snap.spec, snap.ping)
  BY DEF AdvanceFrom
<1>2. Needs("clustering", snap.spec, snap.ping) => snap.spec.cluster
  BY DEF Needs
<1> QED
  BY <1>1, <1>2

LEMMA FreshUidFacts ==
  ASSUME Uids \ UsedUids # {} PROVE FreshUid \in Uids /\ FreshUid \notin UsedUids
  BY DEF FreshUid

LEMMA FirstUidsFacts ==
  FirstUids \in [Names -> Uids]
  /\ \A v, w \in Names : FirstUids[v] = FirstUids[w] => v = w
  BY UidsAssumption DEF FirstUids

-----------------------------------------------------------------------------
(* Types.                                                                  *)

LEMMA InitTypes == Init => TypeOK
<1> SUFFICES ASSUME Init PROVE TypeOK
  OBVIOUS
<1>1. ws \in [Names -> WebServers \cup {Absent}]
  BY ConstantsAssumption, FirstUidsFacts
     DEF Init, NewWebServer, WebServers, Pings
<1> QED
  BY <1>1, ConstantsAssumption DEF Init, TypeOK, Pings

LEMMA ReturnTyped ==
  ASSUME TypeOK, NEW again \in BOOLEAN, Return(again), again => at \in Names
  PROVE  /\ pc' = "idle" /\ at' = Absent /\ snap' = Absent
         /\ snapCurrent' \in BOOLEAN /\ ping' \in Pings /\ queued' \subseteq Names
  BY DEF Return, Forget, TypeOK, Pings

LEMMA BindTyped ==
  ASSUME TypeOK, pc = "clustering", Bind
  PROVE  /\ ping' \in {"true", "false"}
         /\ store' \in [Keys -> Objects \cup {Absent}]
<1>1. at \in Names /\ snap \in WebServers
  BY DEF TypeOK
<1>2. <<"binding", at>> \in Keys /\ Generated("binding", snap) \in Objects
  BY <1>1, BindingKey, GeneratedTyped
<1> QED
  BY <1>2 DEF Bind, TypeOK

LEMMA ContinueTyped ==
  ASSUME TypeOK, NEW step, Continue(step)
  PROVE  /\ pc' \in Steps /\ (pc' = "clustering" => snap.spec.cluster)
         /\ UNCHANGED <<queued, at, snap, snapCurrent, ping>>
  BY AdvanceTyped DEF Continue

LEMMA ReconcileTypes == ASSUME TypeOK, Reconcile PROVE TypeOK'
<1> USE DEF cluster, caches, locals
<1>1. CASE \E w \in Names : Start(w)
  <2>1. PICK w \in Names : Start(w)
    BY <1>1
  <2>2. CASE wsCache[w] = Absent
    BY <2>1, <2>2 DEF Start, TypeOK
  <2>3. CASE wsCache[w] # Absent
    <3>1. /\ at' = w /\ snap' = wsCache[w] /\ pc' \in {"monitor", "image"}
          /\ snapCurrent' \in BOOLEAN /\ queued' = queued \ {w}
          /\ UNCHANGED <<cluster, caches, ping, budget>>
      BY <2>1, <2>3 DEF Start
    <3>2. snap' \in WebServers /\ pc' \in Steps
      BY <2>3, <3>1 DEF TypeOK, Steps
    <3> QED
      BY <3>1, <3>2 DEF TypeOK
  <2> QED
    BY <2>2, <2>3
<1>2. CASE CheckImage
  <2>1. CASE Continue("image")
    BY <1>2, <2>1, ContinueTyped DEF CheckImage, TypeOK, Steps
  <2>2. CASE Return(FALSE)
    BY <1>2, <2>2, ReturnTyped DEF CheckImage, TypeOK
  <2> QED
    BY <1>2, <2>1, <2>2 DEF CheckImage
<1>3. CASE GetOrCreate \/ PutConfigMap
  <2> DEFINE key == Key(pc, at)
  <2>1. at \in Names /\ snap \in WebServers /\ key \in Keys /\ pc \in Steps
    BY <1>3, KeyIsKey DEF GetOrCreate, PutConfigMap, TypeOK, Kinds, LookedUp,
                          ConfigMaps, Monitoring, Steps
  <2>2. Generated(pc, snap) \in Objects
    BY <2>1, GeneratedTyped
  <2>3. /\ store' = store \/ store' = [store EXCEPT ![key] = Generated(pc, snap)]
                          \/ store' = [store EXCEPT ![key] =
                                        IF @ = Absent THEN Generated(pc, snap) ELSE @]
        /\ Return(TRUE) \/ Continue(pc)
        /\ UNCHANGED <<ws, rights, caches, budget>>
    BY <1>3 DEF GetOrCreate, PutConfigMap, Create, Found
  <2>4. store' \in [Keys -> Objects \cup {Absent}]
    BY <2>1, <2>2, <2>3 DEF TypeOK
  <2>5. CASE Return(TRUE)
    BY <2>1, <2>3, <2>4, <2>5, ReturnTyped DEF TypeOK
  <2>6. CASE Continue(pc)
    BY <2>1, <2>3, <2>4, <2>6, ContinueTyped DEF TypeOK, Steps
  <2> QED
    BY <2>3, <2>5, <2>6
<1>4. CASE Decide
  BY <1>4, BindTyped DEF Decide, TypeOK, Pings
<1>5. CASE Annotate
  <2>1. at \in Names /\ snap \in WebServers /\ ping \in Pings
    BY <1>5 DEF Annotate, TypeOK
  <2>2. CASE ws[at] # Absent
    <3>1. [snap EXCEPT !.ping = ping] \in WebServers
      BY <2>1 DEF WebServers
    <3> QED
      BY <1>5, <2>1, <2>2, <3>1 DEF Annotate, TypeOK, Steps
  <2>3. CASE ws[at] = Absent
    BY <1>5, <2>1, <2>3, ReturnTyped DEF Annotate, TypeOK
  <2> QED
    BY <2>2, <2>3
<1>6. CASE Rest
  BY <1>6, ReturnTyped DEF Rest, TypeOK
<1> QED
  BY <1>1, <1>2, <1>3, <1>4, <1>5, <1>6 DEF Reconcile

LEMMA OthersTypes ==
  ASSUME TypeOK, Faults \/ Informers \/ Cluster \/ Users PROVE TypeOK'
<1> USE DEF cluster, caches, locals
<1>1. ASSUME Disturb PROVE budget' \in Nat
  BY <1>1 DEF Disturb, TypeOK
<1>2. CASE CallFails
  <2>1. pc # "idle" /\ at \in Names
    BY <1>2, ConstantsAssumption DEF CallFails, TypeOK, Steps
  <2> QED
    BY <1>1, <1>2, <2>1, ReturnTyped DEF CallFails, TypeOK
<1>3. CASE GetFails
  <2>1. pc # "idle" /\ pc # "annotate"
    BY <1>3 DEF GetFails, Monitoring
  <2> QED
    BY <1>1, <1>3, <2>1, ContinueTyped DEF GetFails, TypeOK, Steps
<1>4. CASE ListFails
  BY <1>1, <1>4, BindTyped DEF ListFails, TypeOK, Pings
<1>5. CASE Crash
  <2>1. known' \subseteq Keys /\ addressed' \subseteq known' /\ queued' \subseteq Names
    BY <1>5 DEF Crash, TypeOK
  <2> QED
    BY <1>1, <1>5, <2>1 DEF Crash, Forget, TypeOK, Pings
<1>6. CASE \E w \in Names : SyncWebServer(w)
  BY <1>6 DEF SyncWebServer, TypeOK
<1>7. CASE \E kinds \in CachedKinds : Sync(kinds)
  <2>1. PICK kinds \in CachedKinds : Sync(kinds)
    BY <1>7
  <2>2. known' \subseteq Keys /\ addressed' \subseteq known'
    BY <2>1 DEF Sync, Existing, TypeOK
  <2> QED
    BY <2>1, <2>2 DEF Sync, TypeOK
<1>8. CASE \E k \in Keys : Address(k)
  BY <1>8 DEF Address, TypeOK
<1>9. CASE \E u \in Uids : CollectGarbage(u)
  BY <1>9 DEF CollectGarbage, TypeOK
<1>10. ASSUME NEW w \in Names, NEW new \in WebServers \cup {Absent},
              ChangeWebServer(w, new)
       PROVE  TypeOK'
  BY <1>1, <1>10 DEF ChangeWebServer, TypeOK
<1>11. CASE \E w \in Busy : EditSpec(w) \/ DeleteWebServer(w) \/ CreateWebServer(w)
  <2>1. PICK w \in Names : EditSpec(w) \/ DeleteWebServer(w) \/ CreateWebServer(w)
    BY <1>11, ConstantsAssumption
  <2>2. CASE EditSpec(w)
    <3>1. PICK s \in SpecsOf[w], q \in {ws[w].ping, "unset"} :
            ChangeWebServer(w, [ws[w] EXCEPT !.spec = s, !.ping = q])
      BY <2>2 DEF EditSpec
    <3>2. ws[w] \in WebServers /\ s \in Specs
      BY <2>2, ConstantsAssumption DEF EditSpec, TypeOK
    <3>3. [ws[w] EXCEPT !.spec = s, !.ping = q] \in WebServers
      BY <3>2 DEF WebServers, Pings
    <3> QED
      BY <1>10, <3>1, <3>3
  <2>3. CASE DeleteWebServer(w)
    BY <1>10, <2>3 DEF DeleteWebServer
  <2>4. CASE CreateWebServer(w)
    <3>1. PICK s \in SpecsOf[w] : ChangeWebServer(w, NewWebServer(FreshUid, s))
      BY <2>4 DEF CreateWebServer
    <3>2. s \in Specs /\ FreshUid \in Uids
      BY <2>4, FreshUidFacts, ConstantsAssumption DEF CreateWebServer
    <3>3. NewWebServer(FreshUid, s) \in WebServers
      BY <3>2 DEF NewWebServer, WebServers, Pings
    <3> QED
      BY <1>10, <3>1, <3>3
  <2> QED
    BY <2>1, <2>2, <2>3, <2>4
<1>12. CASE \E right \in {"bind", "view"} : Grant(right)
  BY <1>1, <1>12 DEF Grant, TypeOK
<1> QED
  BY <1>2, <1>3, <1>4, <1>5, <1>6, <1>7, <1>8, <1>9, <1>11, <1>12
     DEF Faults, Informers, Cluster, Users

LEMMA StepTypes == TypeOK /\ [Next]_vars => TypeOK'
<1>1. TypeOK /\ UNCHANGED vars => TypeOK'
  BY DEF TypeOK, vars, cluster, caches, locals
<1> QED
  BY <1>1, ReconcileTypes, OthersTypes DEF Next

(* Every reachable state has its types: a reconcile in progress has a name *)
(* and a WebServer, and only a clustering one is asked about KUBEPing.     *)
THEOREM TypeCorrect == Spec => []TypeOK
  BY InitTypes, StepTypes, PTL DEF Spec

-----------------------------------------------------------------------------
(* Which objects are whose, and that each is only its WebServer's.         *)

CanLog(w) == \E s \in SpecsOf[w] : s.logs

(* At most one WebServer uses the config map they all share.               *)
OneLogs == \A v, w \in Names : CanLog(v) /\ CanLog(w) => v = w

Mine(w) ==
    {Key(kind, w) : kind \in {k \in Kinds : k = "logging" => OneLogs /\ CanLog(w)}}

(* What is known of one WebServer is never another's.                      *)
Apart ==
    \A w \in Names, v \in Names : w # v /\ ws[v] # Absent =>
      /\ ws[w] # Absent => ws[w].uid # ws[v].uid
      /\ wsCache[w] # Absent => wsCache[w].uid # ws[v].uid
      /\ at = w => snap.uid # ws[v].uid
      /\ \A k \in Mine(w) : store[k] # Absent => store[k].owner # ws[v].uid

(* Nor is it of a predecessor's, once the predecessor is cleaned up.       *)
Its(w) ==
    ws[w] # Absent =>
      /\ wsCache[w] # Absent => wsCache[w].uid = ws[w].uid
      /\ at = w => snap.uid = ws[w].uid
      /\ \A k \in Mine(w) :
           /\ store[k] # Absent => store[k].owner \in {ws[w].uid, NoOwner}
           /\ k \in known => store[k] # Absent

Own == \A w \in Names : Its(w)

(* The specs are among those that may be asked for, and the step is one    *)
(* that the WebServer needs.                                               *)
Asked ==
    /\ \A w \in Names : /\ ws[w] # Absent => ws[w].spec \in SpecsOf[w]
                        /\ wsCache[w] # Absent => wsCache[w].spec \in SpecsOf[w]
    /\ at \in Names => snap.spec \in SpecsOf[at]
    /\ pc \in Steps => Needs(pc, snap.spec, snap.ping)

OwnInv == Apart /\ Own /\ Asked

LEMMA MineKeys ==
  ASSUME NEW w \in Names
  PROVE  /\ Mine(w) \subseteq Keys /\ <<"binding", w>> \in Mine(w)
         /\ \A kind \in Kinds \ {"logging"} : Key(kind, w) \in Mine(w)
         /\ OneLogs /\ CanLog(w) => \A kind \in Kinds : Key(kind, w) \in Mine(w)
<1>1. Mine(w) \subseteq Keys
  BY KeyIsKey DEF Mine
<1>2. "binding" \in Kinds \ {"logging"}
  BY DEF Kinds
<1> QED
  BY <1>1, <1>2, BindingKey DEF Mine

LEMMA KeyOfOne ==
  ASSUME NEW v \in Names, NEW w \in Names, NEW kind \in Kinds,
         Key(kind, v) \in Mine(w),
         kind = "logging" => CanLog(v)
  PROVE  v = w
<1>1. PICK other \in Kinds : /\ other = "logging" => OneLogs /\ CanLog(w)
                             /\ Key(kind, v) = Key(other, w)
  BY DEF Mine
<1>2. CASE kind = "logging"
  <2>1. other = "logging"
    BY <1>1, <1>2 DEF Key
  <2> QED
    BY <1>1, <1>2, <2>1 DEF OneLogs
<1>3. CASE kind # "logging"
  <2>1. other # "logging"
    BY <1>1, <1>3 DEF Key
  <2> QED
    BY <1>1, <1>3, <2>1 DEF Key
<1> QED
  BY <1>2, <1>3

-----------------------------------------------------------------------------
(* The steps, by what they touch.                                          *)

Looks == CheckImage \/ Rest \/ CallFails \/ GetFails
Puts == GetOrCreate \/ PutConfigMap
Answers == Decide \/ ListFails
Elsewhere == \/ \E kinds \in CachedKinds : Sync(kinds)
             \/ \E k \in Keys : Address(k)
             \/ \E right \in {"bind", "view"} : Grant(right)
Edits == \E w \in Names : EditSpec(w) \/ DeleteWebServer(w) \/ CreateWebServer(w)

LEMMA NextSteps ==
  ASSUME Next
  PROVE  \/ \E w \in Names : Start(w) \/ SyncWebServer(w)
         \/ Looks \/ Puts \/ Answers \/ Annotate \/ Crash \/ Elsewhere \/ Edits
         \/ \E u \in Uids : CollectGarbage(u)
<1>1. (\E w \in Busy : EditSpec(w) \/ DeleteWebServer(w) \/ CreateWebServer(w)) => Edits
  BY ConstantsAssumption DEF Edits
<1> QED
  BY <1>1 DEF Next, Reconcile, Faults, Informers, Cluster, Users, Looks, Puts,
              Answers, Elsewhere

LEMMA NeedsFacts ==
  ASSUME NEW s, NEW p
  PROVE  /\ Needs("image", s, p) /\ Needs("rest", s, p)
         /\ Needs("monitor", s, p) <=> HasServiceMonitor
         /\ Needs("routing", s, p)
         /\ Needs("clustering", s, p) <=> s.cluster /\ p = "unset"
         /\ Needs("dns", s, p) <=> s.cluster /\ p = "false"
         /\ Needs("serverxml", s, p) <=> s.host = "tls" \/ s.cluster \/ s.logs
         /\ Needs("liveness", s, p) <=> s.liveness
         /\ Needs("readiness", s, p) <=> s.readiness
         /\ Needs("start", s, p) <=> s.notJWS
         /\ Needs("logging", s, p) <=> s.logs
         /\ Needs("claim", s, p) <=> s.logs
         /\ Needs("route", s, p) <=> IsOpenShift /\ s.host # "NONE"
         /\ Needs("lb", s, p) <=> ~IsOpenShift
  BY DEF Needs, UsesKUBEPing

LEMMA LooksFacts ==
  ASSUME TypeOK, Looks
  PROVE  /\ UNCHANGED <<cluster, caches>> /\ at \in Names
         /\ \/ Return(TRUE)
            \/ Continue(pc) /\ pc \in Monitoring \cup {"image"}
            \/ Return(FALSE) /\ (pc = "rest" \/ (pc = "image" /\ ~Accepted(snap.spec)))
<1>1. pc # "idle"
  BY ConstantsAssumption
     DEF Looks, CheckImage, Rest, CallFails, GetFails, Steps, Monitoring
<1> QED
  BY <1>1 DEF Looks, CheckImage, Rest, CallFails, GetFails, TypeOK

(* The store once Create has been called for a key.                        *)
WithMissing(key) ==
    [store EXCEPT ![key] = IF @ = Absent THEN Generated(pc, snap) ELSE @]

(* What is written is the WebServer's the reconcile is for.                *)
LEMMA PutsFacts ==
  ASSUME TypeOK, Asked, Puts
  PROVE  /\ UNCHANGED <<ws, rights, caches>> /\ at \in Names /\ snap \in WebServers
         /\ pc \in LookedUp \cup ConfigMaps
         /\ \/ Return(TRUE)
            \/ Continue(pc) /\ pc \in LookedUp /\ Key(pc, at) \in known
                            /\ UNCHANGED store
            \/ Continue(pc) /\ pc = "dns" /\ store' = WithMissing(Key(pc, at))
            \/ Continue(pc) /\ pc \in ConfigMaps /\ store[Key(pc, at)] # Absent
                            /\ store' = [store EXCEPT ![Key(pc, at)] = Generated(pc, snap)]
         /\ \A w \in Names : \A k \in Mine(w) :
              /\ w # at => store'[k] = store[k]
              /\ store[k] # Absent => store'[k] # Absent
              /\ \/ store'[k] = store[k]
                 \/ store'[k].owner \in {snap.uid, NoOwner}
<1> DEFINE key == Key(pc, at)
<1> DEFINE new == Generated(pc, snap)
<1>1. /\ UNCHANGED <<ws, rights, caches>> /\ pc \in LookedUp \cup ConfigMaps
      /\ \/ Return(TRUE)
         \/ Continue(pc) /\ pc \in LookedUp /\ Key(pc, at) \in known
                         /\ UNCHANGED store
         \/ Continue(pc) /\ pc = "dns" /\ store' = WithMissing(Key(pc, at))
         \/ Continue(pc) /\ pc \in ConfigMaps /\ store[Key(pc, at)] # Absent
                         /\ store' = [store EXCEPT ![Key(pc, at)] = Generated(pc, snap)]
  BY DEF Puts, GetOrCreate, PutConfigMap, Create, Found, WithMissing, LookedUp
<1>2. at \in Names /\ snap \in WebServers /\ pc \in Kinds /\ pc \in Steps
      /\ pc # "binding"
  BY <1>1 DEF TypeOK, Kinds, LookedUp, ConfigMaps, Monitoring, Steps
<1>3. new \in Objects /\ new # Absent /\ new.owner \in {snap.uid, NoOwner}
  BY <1>2, GeneratedTyped, ConstantsAssumption DEF Generated, OwnerOf
<1>4. \A k \in Keys : k # key => store'[k] = store[k]
  BY DEF Puts, GetOrCreate, PutConfigMap, Create, Found, TypeOK
<1>5. store'[key] \in {store[key], new} /\ (store[key] # Absent => store'[key] # Absent)
  <2>1. key \in Keys
    BY <1>2, KeyIsKey
  <2> HIDE DEF key, new
  <2> QED
    BY <1>3, <2>1 DEF Puts, GetOrCreate, PutConfigMap, Create, Found, TypeOK, key, new
<1>6. ASSUME NEW w \in Names, key \in Mine(w) PROVE w = at
  <2>1. pc = "logging" => CanLog(at)
    BY <1>2, NeedsFacts DEF Asked, CanLog
  <2> QED
    BY <1>2, <1>6, <2>1, KeyOfOne
<1>7. \A w \in Names : \A k \in Mine(w) :
        /\ w # at => store'[k] = store[k]
        /\ store[k] # Absent => store'[k] # Absent
        /\ \/ store'[k] = store[k]
           \/ store'[k].owner \in {snap.uid, NoOwner}
  <2> HIDE DEF key, new
  <2> QED
    BY <1>3, <1>4, <1>5, <1>6, MineKeys
<1> QED
  BY <1>1, <1>2, <1>7

(* createRoleBinding finds a binding, makes one or may not.                *)
LEMMA AnswersFacts ==
  ASSUME TypeOK, Answers
  PROVE  /\ UNCHANGED <<ws, rights, caches, queued, at, snap, snapCurrent>>
         /\ at \in Names /\ snap \in WebServers
         /\ pc = "clustering" /\ pc' = "annotate"
         /\ ping' = "true" => \/ "view" \in rights \/ <<"binding", at>> \in known
                              \/ store'[<<"binding", at>>] # Absent
         /\ \A w \in Names : \A k \in Mine(w) :
              /\ w # at => store'[k] = store[k]
              /\ store[k] # Absent => store'[k] = store[k]
              /\ \/ store'[k] = store[k]
                 \/ store'[k].owner \in {snap.uid, NoOwner}
<1> DEFINE key == <<"binding", at>>
<1> DEFINE new == Generated("binding", snap)
<1>1. /\ UNCHANGED <<ws, rights, caches, queued, at, snap, snapCurrent>>
      /\ pc = "clustering" /\ pc' = "annotate"
      /\ Bind \/ (Granted(at) /\ ping' = "true" /\ UNCHANGED store)
  BY DEF Answers, Decide, ListFails
<1>2. at \in Names /\ snap \in WebServers
  BY <1>1 DEF TypeOK
<1>3. new # Absent /\ new.owner \in {snap.uid, NoOwner}
  BY <1>2, GeneratedTyped, ConstantsAssumption DEF Generated, OwnerOf
<1>4. key \in Keys /\ key \in Mine(at) /\ key = Key("binding", at) /\ "binding" \in Kinds
  BY <1>2, BindingKey, MineKeys DEF Kinds
<1>5. /\ \A k \in Keys : k # key => store'[k] = store[k]
      /\ store'[key] \in {store[key], new}
      /\ store[key] # Absent => store'[key] = store[key]
  <2> HIDE DEF new
  <2>1. CASE Bind
    BY <1>4, <2>1 DEF Bind, TypeOK, new
  <2> QED
    BY <1>1, <2>1
<1>6. ping' = "true" => \/ "view" \in rights \/ key \in known
                        \/ store'[key] # Absent
  <2>1. CASE Bind
    <3> HIDE DEF new
    <3> QED
      BY <1>3, <1>4, <2>1 DEF Bind, TypeOK, new
  <2>2. CASE Granted(at)
    BY <2>2 DEF Granted
  <2> QED
    BY <1>1, <2>1, <2>2
<1>7. \A w \in Names : key \in Mine(w) => w = at
  BY <1>2, <1>4, KeyOfOne
<1>8. \A w \in Names : \A k \in Mine(w) :
        /\ w # at => store'[k] = store[k]
        /\ store[k] # Absent => store'[k] = store[k]
        /\ \/ store'[k] = store[k]
           \/ store'[k].owner \in {snap.uid, NoOwner}
  <2> HIDE DEF new, key
  <2> QED
    BY <1>3, <1>5, <1>7, MineKeys
<1> QED
  BY <1>1, <1>2, <1>6, <1>8

LEMMA ElsewhereFacts ==
  ASSUME TypeOK, Elsewhere
  PROVE  /\ UNCHANGED <<ws, store, wsCache, wsLag, queued, locals>>
         /\ rights \subseteq rights'
         /\ \A k \in known' : k \in known \/ store[k] # Absent
<1>1. CASE \E kinds \in CachedKinds : Sync(kinds)
  BY <1>1 DEF Sync, Existing, cluster
<1>2. CASE \E k \in Keys : Address(k)
  BY <1>2 DEF Address, cluster
<1>3. CASE \E right \in {"bind", "view"} : Grant(right)
  BY <1>3 DEF Grant, caches
<1> QED
  BY <1>1, <1>2, <1>3 DEF Elsewhere

(* A WebServer keeps its UID as long as it lives, and its annotation as    *)
(* long as nobody takes it off.                                            *)
LEMMA EditsFacts ==
  ASSUME TypeOK, Edits
  PROVE  \E w \in Names, new \in WebServers \cup {Absent} :
           /\ ChangeWebServer(w, new)
           /\ new # Absent => new.spec \in SpecsOf[w]
           /\ \/ /\ ws[w] # Absent
                 /\ new # Absent =>
                      new.uid = ws[w].uid /\ new.ping \in {ws[w].ping, "unset"}
              \/ /\ CreateWebServer(w)
                 /\ new # Absent /\ new.uid = FreshUid /\ new.ping = "unset"
<1>1. PICK w \in Names : EditSpec(w) \/ DeleteWebServer(w) \/ CreateWebServer(w)
  BY DEF Edits
<1>2. CASE EditSpec(w)
  <2>1. PICK s \in SpecsOf[w], q \in {ws[w].ping, "unset"} :
          ChangeWebServer(w, [ws[w] EXCEPT !.spec = s, !.ping = q])
    BY <1>2 DEF EditSpec
  <2> DEFINE new == [ws[w] EXCEPT !.spec = s, !.ping = q]
  <2>2. ws[w] # Absent /\ ws[w] \in WebServers /\ s \in Specs
    BY <1>2, ConstantsAssumption DEF EditSpec, TypeOK
  <2>3. /\ new \in WebServers /\ new.spec = s /\ new.uid = ws[w].uid
        /\ new.ping \in {ws[w].ping, "unset"}
    BY <2>2 DEF WebServers, Pings
  <2> HIDE DEF new
  <2> QED
    BY <2>1, <2>2, <2>3 DEF new
<1>3. CASE DeleteWebServer(w)
  BY <1>3 DEF DeleteWebServer
<1>4. CASE CreateWebServer(w)
  <2>1. PICK s \in SpecsOf[w] : ChangeWebServer(w, NewWebServer(FreshUid, s))
    BY <1>4 DEF CreateWebServer
  <2> DEFINE new == NewWebServer(FreshUid, s)
  <2>2. s \in Specs /\ FreshUid \in Uids
    BY <1>4, FreshUidFacts, ConstantsAssumption DEF CreateWebServer
  <2>3. /\ new \in WebServers /\ new # Absent /\ new.spec = s
        /\ new.uid = FreshUid /\ new.ping = "unset"
    BY <2>2, ConstantsAssumption DEF NewWebServer, WebServers, Pings
  <2> HIDE DEF new
  <2> QED
    BY <1>4, <2>1, <2>3 DEF new
<1> QED
  BY <1>1, <1>2, <1>3, <1>4

-----------------------------------------------------------------------------
(* Ownership.                                                              *)

LEMMA OwnInit == Init => OwnInv
<1> SUFFICES ASSUME Init PROVE OwnInv
  OBVIOUS
<1>1. \A w \in Names : \A k \in Mine(w) : store[k] = Absent
  BY MineKeys DEF Init
<1>2. PICK spec \in [Names -> UNION {SpecsOf[w] : w \in Names}] :
        /\ \A w \in Names : spec[w] \in SpecsOf[w]
        /\ ws = [w \in Names |-> NewWebServer(FirstUids[w], spec[w])]
  BY DEF Init
<1>3. \A w \in Names : /\ ws[w].uid = FirstUids[w] /\ ws[w].spec \in SpecsOf[w]
                       /\ wsCache[w] = ws[w]
  BY <1>2 DEF Init, NewWebServer
<1>4. at \notin Names /\ known = {}
  BY ConstantsAssumption DEF Init
<1>5. Apart
  BY <1>1, <1>3, <1>4, FirstUidsFacts DEF Apart
<1>6. Own
  BY <1>1, <1>3, <1>4 DEF Own, Its
<1>7. Asked
  BY <1>3, ConstantsAssumption DEF Asked, Init, Steps
<1> QED
  BY <1>5, <1>6, <1>7 DEF OwnInv

(* The WebServer that is reconciled, if it is the same after a step.       *)
LEMMA AskedLocals ==
  ASSUME TypeOK, Asked, UNCHANGED <<ws, wsCache>>,
         Return(TRUE) \/ Return(FALSE) \/ Continue(pc)
  PROVE  Asked'
<1>1. CASE Return(TRUE) \/ Return(FALSE)
  BY <1>1, ConstantsAssumption DEF Asked, Return, Forget, Steps
<1>2. CASE Continue(pc)
  BY <1>2 DEF Asked, Continue, AdvanceFrom
<1> QED
  BY <1>1, <1>2

LEMMA AskedStep == ASSUME TypeOK, Asked, Next PROVE Asked'
<1> USE DEF cluster, caches, locals
<1>2. CASE \E w \in Names : Start(w)
  <2>1. PICK w \in Names : Start(w)
    BY <1>2
  <2>2. CASE wsCache[w] = Absent
    BY <2>1, <2>2 DEF Asked, Start
  <2>3. CASE wsCache[w] # Absent
    <3>1. Needs(pc', snap'.spec, snap'.ping)
      BY <2>1, <2>3, NeedsFacts DEF Start
    <3> QED
      BY <2>1, <2>3, <3>1 DEF Asked, Start
  <2> QED
    BY <2>2, <2>3
<1>3. CASE \E w \in Names : SyncWebServer(w)
  BY <1>3 DEF Asked, SyncWebServer, TypeOK
<1>4. CASE Looks
  BY <1>4, LooksFacts, AskedLocals
<1>5. CASE Puts
  BY <1>5, PutsFacts, AskedLocals
<1>6. CASE Answers
  BY <1>6, AnswersFacts DEF Asked, Steps
<1>7. CASE Annotate
  <2>1. at \in Names /\ snap \in WebServers /\ pc = "annotate" /\ snap.spec.cluster
        /\ UNCHANGED wsCache
    BY <1>7 DEF Annotate, TypeOK
  <2>2. CASE ws[at] = Absent
    BY <1>7, <2>1, <2>2, AskedLocals DEF Annotate
  <2>3. CASE ws[at] # Absent
    <3>1. /\ snap' = [snap EXCEPT !.ping = ping] /\ pc' = "serverxml" /\ at' = at
          /\ ws' = ws \/ ws' = [ws EXCEPT ![at] = snap']
      BY <1>7, <2>3 DEF Annotate
    <3>2. snap'.spec = snap.spec
      BY <2>1, <3>1 DEF WebServers
    <3>3. Needs("serverxml", snap'.spec, snap'.ping)
      BY <2>1, <3>2, NeedsFacts
    <3> QED
      BY <2>1, <3>1, <3>2, <3>3 DEF Asked, TypeOK
  <2> QED
    BY <2>2, <2>3
<1>8. CASE Crash
  BY <1>8, ConstantsAssumption DEF Asked, Crash, Forget, Steps
<1>9. CASE Elsewhere
  BY <1>9, ElsewhereFacts DEF Asked
<1>10. CASE Edits
  <2>1. PICK w \in Names, new \in WebServers \cup {Absent} :
          /\ ChangeWebServer(w, new)
          /\ new # Absent => new.spec \in SpecsOf[w]
    BY <1>10, EditsFacts
  <2> QED
    BY <2>1 DEF Asked, ChangeWebServer, TypeOK
<1>11. CASE \E u \in Uids : CollectGarbage(u)
  BY <1>11 DEF Asked, CollectGarbage
<1> QED
  BY <1>2, <1>3, <1>4, <1>5, <1>6, <1>7, <1>8, <1>9, <1>10, <1>11, NextSteps

(* Steps that change nobody's WebServer, and write what is snap's at most. *)
LEMMA ApartFrame ==
  ASSUME TypeOK, Apart, UNCHANGED <<ws, wsCache>>,
         at' = Absent \/ (UNCHANGED at /\ snap'.uid = snap.uid),
         \A w \in Names : \A k \in Mine(w) :
           store'[k] # store[k] => at = w /\ store'[k].owner \in {snap.uid, NoOwner}
  PROVE  Apart'
<1>1. Absent \notin Names /\ \A w \in Names : ws[w] # Absent => ws[w].uid # NoOwner
  BY ConstantsAssumption DEF TypeOK, WebServers
<1>2. ASSUME NEW w \in Names, NEW v \in Names, w # v, ws[v] # Absent,
             NEW k \in Mine(w), store'[k] # Absent
      PROVE  store'[k].owner # ws[v].uid
  <2>1. CASE store'[k] = store[k]
    BY <1>2, <2>1 DEF Apart
  <2>2. CASE store'[k] # store[k]
    BY <1>1, <1>2, <2>2 DEF Apart
  <2> QED
    BY <2>1, <2>2
<1> QED
  BY <1>1, <1>2 DEF Apart

LEMMA OwnFrame ==
  ASSUME TypeOK, Own, UNCHANGED <<ws, wsCache>>,
         at' = Absent \/ (UNCHANGED at /\ snap'.uid = snap.uid),
         \A w \in Names : \A k \in Mine(w) :
           /\ store'[k] # store[k] =>
                at = w /\ store'[k].owner \in {snap.uid, NoOwner}
           /\ store[k] # Absent => store'[k] # Absent
           /\ k \in known' => k \in known \/ store[k] # Absent
  PROVE  Own'
<1>1. Absent \notin Names
  BY ConstantsAssumption
<1>2. ASSUME NEW w \in Names, ws[w] # Absent, NEW k \in Mine(w)
      PROVE  /\ store'[k] # Absent => store'[k].owner \in {ws[w].uid, NoOwner}
             /\ k \in known' => store'[k] # Absent
  <2>1. Its(w)
    BY DEF Own
  <2> QED
    BY <1>2, <2>1 DEF Its
<1> QED
  BY <1>1, <1>2 DEF Own, Its

(* The collector takes nothing that is a living WebServer's.               *)
LEMMA CollectKeeps ==
  ASSUME TypeOK, OwnInv, NEW u \in Uids, CollectGarbage(u),
         NEW w \in Names, ws[w] # Absent, NEW k \in Mine(w)
  PROVE  store'[k] = store[k]
<1>1. ws[w].uid \in Living
  BY DEF Living
<1>2. store[k] # Absent => store[k].owner \in {ws[w].uid, NoOwner}
  BY DEF OwnInv, Own, Its
<1>3. k \notin OwnedBy(u)
  BY <1>1, <1>2, ConstantsAssumption DEF CollectGarbage, OwnedBy, Existing
<1> QED
  BY <1>3, MineKeys DEF CollectGarbage

(* A new WebServer's UID is nobody's, ...                                  *)
LEMMA ApartCreated ==
  ASSUME TypeOK, Apart, NEW w \in Names, CreateWebServer(w),
         NEW new \in WebServers, new.uid = FreshUid, ChangeWebServer(w, new)
  PROVE  Apart'
<1> USE DEF caches, locals
<1> DEFINE u == FreshUid
<1>1. UNCHANGED <<store, wsCache, at, snap>> /\ ws' = [ws EXCEPT ![w] = new]
  BY DEF ChangeWebServer
<1>2. u \in Uids /\ u \notin UsedUids
  BY FreshUidFacts DEF CreateWebServer
<1>3. \A v \in Names : /\ ws[v] # Absent => ws[v].uid # u
                       /\ wsCache[v] # Absent => wsCache[v].uid # u
                       /\ at = v => snap.uid # u
  <2>1. at \in Names => snap # Absent
    BY ConstantsAssumption DEF TypeOK
  <2> QED
    BY <1>2, <2>1 DEF UsedUids
<1>4. \A k \in Keys : store[k] # Absent => store[k].owner # u
  BY <1>2 DEF UsedUids
<1>5. ws'[w].uid = u /\ \A v \in Names \ {w} : ws'[v] = ws[v]
  BY <1>1 DEF TypeOK
<1> HIDE DEF u
<1>6. ASSUME NEW x \in Names, NEW v \in Names, x # v, ws'[v] # Absent
      PROVE  /\ ws'[x] # Absent => ws'[x].uid # ws'[v].uid
             /\ wsCache[x] # Absent => wsCache[x].uid # ws'[v].uid
             /\ at = x => snap.uid # ws'[v].uid
             /\ \A k \in Mine(x) :
                  store[k] # Absent => store[k].owner # ws'[v].uid
  <2>1. CASE v = w
    BY <1>3, <1>4, <1>5, <1>6, <2>1, MineKeys
  <2>2. CASE v # w
    <3>1. ws'[v] = ws[v] /\ ws[v].uid # u
      BY <1>3, <1>5, <1>6, <2>2
    <3>2. ws'[x] = ws[x] \/ ws'[x].uid = u
      BY <1>5
    <3> QED
      BY <1>6, <3>1, <3>2 DEF Apart
  <2> QED
    BY <2>1, <2>2
<1> QED
  BY <1>1, <1>6 DEF Apart

(* ... and where nothing of its predecessor's is left, all there is is its *)
(* own.                                                                    *)
LEMMA OwnCreated ==
  ASSUME TypeOK, OwnInv, ~Adopts, NEW w \in Names, CreateWebServer(w),
         NEW new \in WebServers, ChangeWebServer(w, new)
  PROVE  Own'
<1> USE DEF caches, locals
<1>1. UNCHANGED <<store, wsCache, known, at, snap>> /\ ws' = [ws EXCEPT ![w] = new]
  BY DEF ChangeWebServer
<1>2. ws[w] = Absent /\ CleanedUp(w)
  BY DEF CreateWebServer
<1>3. ASSUME NEW k \in Mine(w)
      PROVE  /\ store[k] # Absent => store[k].owner = NoOwner
             /\ k \in known => store[k] # Absent
  <2>1. /\ store[k] # Absent => store[k].owner \in Living \cup {NoOwner}
        /\ k \in known => store[k] # Absent
    BY <1>2, <1>3 DEF CleanedUp, Mine
  <2>2. ASSUME store[k] # Absent PROVE store[k].owner \notin Living
    BY <1>2, <1>3, <2>2 DEF OwnInv, Apart, Living
  <2> QED
    BY <2>1, <2>2
<1>4. (\A v \in Names \ {w} : ws'[v] = ws[v]) /\ wsCache[w] = Absent /\ at # w
  BY <1>1, <1>2 DEF TypeOK, CleanedUp
<1> QED
  BY <1>1, <1>3, <1>4 DEF OwnInv, Own, Its

(* What others own stays apart however soon a WebServer is created anew,   *)
(* if the annotation is written on none but the WebServer it is for.       *)
LEMMA ApartStep ==
  ASSUME TypeOK, Apart, Asked, Next,
         at \in Names /\ ws[at] # Absent /\ snapCurrent => snap.uid = ws[at].uid
  PROVE  Apart'
<1> USE DEF cluster, caches, locals
<1>1. CASE \E w \in Names : Start(w)
  <2>1. PICK w \in Names : Start(w)
    BY <1>1
  <2>2. /\ \/ UNCHANGED <<at, snap>>
           \/ at' = w /\ snap' = wsCache[w] /\ wsCache[w] # Absent
        /\ UNCHANGED <<ws, store, wsCache>>
    BY <2>1 DEF Start
  <2> QED
    BY <2>2 DEF Apart
<1>2. CASE \E w \in Names : SyncWebServer(w)
  <2>1. /\ UNCHANGED <<ws, store, at, snap>>
        /\ \A v \in Names : wsCache'[v] \in {ws[v], wsCache[v]}
    BY <1>2 DEF SyncWebServer, TypeOK
  <2> QED
    BY <2>1 DEF Apart
<1>3. CASE Looks
  BY <1>3, LooksFacts, ApartFrame DEF Return, Continue, Forget
<1>4. CASE Puts
  BY <1>4, PutsFacts, ApartFrame DEF Return, Continue, Forget
<1>5. CASE Answers
  BY <1>5, AnswersFacts, ApartFrame
<1>6. CASE Annotate
  <2>1. at \in Names /\ snap \in WebServers /\ UNCHANGED <<store, wsCache>>
    BY <1>6 DEF Annotate, TypeOK
  <2>2. CASE UNCHANGED ws
    <3>1. at' = Absent \/ (UNCHANGED at /\ snap'.uid = snap.uid)
      BY <1>6, <2>1 DEF Annotate, WebServers, Return, Forget
    <3> QED
      BY <2>1, <2>2, <3>1, ApartFrame
  <2>3. CASE ws' # ws
    <3>1. /\ ws[at] # Absent /\ snapCurrent /\ snap' = [snap EXCEPT !.ping = ping]
          /\ ws' = [ws EXCEPT ![at] = snap'] /\ at' = at
      BY <1>6, <2>3 DEF Annotate
    <3>2. snap'.uid = snap.uid /\ snap.uid = ws[at].uid
      BY <2>1, <3>1 DEF WebServers
    <3>3. \A w \in Names : /\ ws'[w] # Absent => ws[w] # Absent
                           /\ ws[w] # Absent => ws'[w].uid = ws[w].uid
      BY <2>1, <3>1, <3>2 DEF TypeOK
    <3> QED
      BY <2>1, <3>1, <3>2, <3>3 DEF Apart
  <2> QED
    BY <2>2, <2>3
<1>7. CASE Crash
  <2>1. at' = Absent /\ wsCache' = ws /\ UNCHANGED <<ws, store>>
    BY <1>7 DEF Crash, Forget
  <2> QED
    BY <2>1, ConstantsAssumption DEF Apart
<1>8. CASE Elsewhere
  BY <1>8, ElsewhereFacts, ApartFrame
<1>9. CASE Edits
  <2>1. PICK w \in Names, new \in WebServers \cup {Absent} :
          /\ ChangeWebServer(w, new)
          /\ \/ /\ ws[w] # Absent
                /\ new # Absent => new.uid = ws[w].uid
             \/ CreateWebServer(w) /\ new # Absent /\ new.uid = FreshUid
    BY <1>9, EditsFacts
  <2>2. CASE CreateWebServer(w) /\ new # Absent /\ new.uid = FreshUid
    BY <2>1, <2>2, ApartCreated
  <2>3. CASE ws[w] # Absent /\ (new # Absent => new.uid = ws[w].uid)
    <3>1. \A v \in Names : ws'[v] # Absent => ws[v] # Absent /\ ws'[v].uid = ws[v].uid
      BY <2>1, <2>3 DEF ChangeWebServer, TypeOK
    <3>2. UNCHANGED <<store, wsCache, at, snap>>
      BY <2>1 DEF ChangeWebServer
    <3> QED
      BY <3>1, <3>2 DEF Apart
  <2> QED
    BY <2>1, <2>2, <2>3
<1>10. CASE \E u \in Uids : CollectGarbage(u)
  <2>1. UNCHANGED <<ws, wsCache, at, snap>>
    BY <1>10 DEF CollectGarbage
  <2>2. \A k \in Keys : store'[k] \in {store[k], Absent}
    BY <1>10 DEF CollectGarbage
  <2>3. \A w \in Names : \A k \in Mine(w) : store'[k] \in {store[k], Absent}
    BY <2>2, MineKeys
  <2> QED
    BY <2>1, <2>3 DEF Apart
<1> QED
  BY <1>1, <1>2, <1>3, <1>4, <1>5, <1>6, <1>7, <1>8, <1>9, <1>10, NextSteps

LEMMA OwnStep == ASSUME TypeOK, OwnInv, ~Adopts, Next PROVE Own'
<1> USE DEF cluster, caches, locals
<1>1. Own /\ Asked
  BY DEF OwnInv
<1>2. CASE \E w \in Names : Start(w)
  <2>1. PICK w \in Names : Start(w)
    BY <1>2
  <2>2. \/ UNCHANGED <<at, snap>>
        \/ at' = w /\ snap' = wsCache[w] /\ wsCache[w] # Absent
    BY <2>1 DEF Start
  <2>3. UNCHANGED <<ws, store, wsCache, known>>
    BY <2>1 DEF Start
  <2> QED
    BY <1>1, <2>2, <2>3 DEF Own, Its
<1>3. CASE \E w \in Names : SyncWebServer(w)
  <2>1. /\ UNCHANGED <<ws, store, known, at, snap>>
        /\ \A v \in Names : wsCache'[v] \in {ws[v], wsCache[v]}
    BY <1>3 DEF SyncWebServer, TypeOK
  <2> QED
    BY <1>1, <2>1 DEF Own, Its
<1>4. CASE Looks
  BY <1>1, <1>4, LooksFacts, OwnFrame DEF Return, Continue, Forget
<1>5. CASE Puts
  BY <1>1, <1>5, PutsFacts, OwnFrame DEF Return, Continue, Forget
<1>6. CASE Answers
  BY <1>1, <1>6, AnswersFacts, OwnFrame
<1>7. CASE Annotate
  <2>1. at \in Names /\ snap \in WebServers /\ UNCHANGED <<store, wsCache, known>>
    BY <1>7 DEF Annotate, TypeOK
  <2>2. CASE UNCHANGED ws
    <3>1. at' = Absent \/ (UNCHANGED at /\ snap'.uid = snap.uid)
      BY <1>7, <2>1 DEF Annotate, WebServers, Return, Forget
    <3> QED
      BY <1>1, <2>1, <2>2, <3>1, OwnFrame
  <2>3. CASE ws' # ws
    <3>1. /\ ws[at] # Absent /\ snap' = [snap EXCEPT !.ping = ping]
          /\ ws' = [ws EXCEPT ![at] = snap'] /\ at' = at
      BY <1>7, <2>3 DEF Annotate
    <3>2. snap'.uid = snap.uid /\ snap.uid = ws[at].uid
      BY <1>1, <2>1, <3>1 DEF WebServers, Own, Its
    <3>3. \A w \in Names : /\ ws'[w] # Absent => ws[w] # Absent
                           /\ ws[w] # Absent => ws'[w].uid = ws[w].uid
      BY <2>1, <3>1, <3>2 DEF TypeOK
    <3> QED
      BY <1>1, <2>1, <3>1, <3>2, <3>3 DEF Own, Its
  <2> QED
    BY <2>2, <2>3
<1>8. CASE Crash
  <2>1. /\ at' = Absent /\ wsCache' = ws /\ UNCHANGED <<ws, store>>
        /\ \A k \in known' : store[k] # Absent
    BY <1>8 DEF Crash, Forget
  <2> QED
    BY <1>1, <2>1, ConstantsAssumption DEF Own, Its
<1>9. CASE Elsewhere
  BY <1>1, <1>9, ElsewhereFacts, OwnFrame
<1>10. CASE Edits
  <2>1. PICK w \in Names, new \in WebServers \cup {Absent} :
          /\ ChangeWebServer(w, new)
          /\ \/ /\ ws[w] # Absent
                /\ new # Absent => new.uid = ws[w].uid
             \/ CreateWebServer(w) /\ new # Absent
    BY <1>10, EditsFacts
  <2>2. CASE CreateWebServer(w) /\ new # Absent
    BY <2>1, <2>2, OwnCreated
  <2>3. CASE ws[w] # Absent /\ (new # Absent => new.uid = ws[w].uid)
    <3>1. \A v \in Names : ws'[v] # Absent => ws[v] # Absent /\ ws'[v].uid = ws[v].uid
      BY <2>1, <2>3 DEF ChangeWebServer, TypeOK
    <3>2. UNCHANGED <<store, wsCache, known, at, snap>>
      BY <2>1 DEF ChangeWebServer
    <3> QED
      BY <1>1, <3>1, <3>2 DEF Own, Its
  <2> QED
    BY <2>1, <2>2, <2>3
<1>11. CASE \E u \in Uids : CollectGarbage(u)
  <2>1. PICK u \in Uids : CollectGarbage(u)
    BY <1>11
  <2>2. UNCHANGED <<ws, wsCache, known, at, snap>>
    BY <2>1 DEF CollectGarbage
  <2>3. \A w \in Names : ws[w] # Absent => \A k \in Mine(w) : store'[k] = store[k]
    BY <2>1, CollectKeeps
  <2> QED
    BY <1>1, <2>2, <2>3 DEF Own, Its
<1> QED
  BY <1>2, <1>3, <1>4, <1>5, <1>6, <1>7, <1>8, <1>9, <1>10, <1>11, NextSteps

LEMMA OwnNext == TypeOK /\ OwnInv /\ ~Adopts /\ [Next]_vars => OwnInv'
<1>1. OwnInv /\ UNCHANGED vars => OwnInv'
  BY DEF vars, cluster, caches, locals, OwnInv, Apart, Own, Its, Asked
<1>2. ASSUME TypeOK, OwnInv, ~Adopts, Next PROVE OwnInv'
  <2>1. Apart /\ Own /\ Asked
    BY <1>2 DEF OwnInv
  <2>2. at \in Names /\ ws[at] # Absent => snap.uid = ws[at].uid
    BY <2>1 DEF Own, Its
  <2>3. Apart' /\ Own' /\ Asked'
    BY <1>2, <2>1, <2>2, ApartStep, OwnStep, AskedStep
  <2> QED
    BY <2>3 DEF OwnInv
<1> QED
  BY <1>1, <1>2

(* What is a living WebServer's stays.                                     *)
LEMMA Kept ==
  ASSUME TypeOK, OwnInv, Next, NEW w \in Names, ws[w] # Absent, NEW k \in Mine(w),
         store[k] # Absent
  PROVE  store'[k] # Absent
<1> Asked
  BY DEF OwnInv
<1> USE DEF cluster, caches, locals
<1>1. CASE Puts
  BY <1>1, PutsFacts
<1>2. CASE Answers
  BY <1>2, AnswersFacts
<1>3. CASE \E u \in Uids : CollectGarbage(u)
  BY <1>3, CollectKeeps
<1>4. CASE Looks \/ Elsewhere
  BY <1>4, LooksFacts, ElsewhereFacts
<1>5. CASE \/ \E v \in Names : Start(v) \/ SyncWebServer(v)
           \/ Annotate \/ Crash
  BY <1>5 DEF Start, SyncWebServer, Annotate, Crash
<1>6. CASE Edits
  BY <1>6, EditsFacts DEF ChangeWebServer
<1> QED
  BY <1>1, <1>2, <1>3, <1>4, <1>5, <1>6, NextSteps


(* What the pods of a WebServer use, its own keys name.                    *)
LEMMA UsesMine ==
  ASSUME OneLogs, Asked, NEW w \in Names, ws[w] # Absent
  PROVE  /\ Uses(w) \subseteq Mine(w)
         /\ \A kind \in Mounts(ws[w].spec) \cup Serves(ws[w].spec) :
              Key(kind, w) \in Mine(w)
<1> DEFINE s == ws[w].spec
<1> DEFINE kinds == Mounts(s) \cup Serves(s) \cup
                    IF s.cluster THEN {"dns", "binding"} ELSE {}
<1>1. kinds \subseteq Kinds /\ ("logging" \in kinds => s.logs)
  BY DEF Mounts, Serves, Kinds, LookedUp, ConfigMaps, Monitoring
<1>2. s.logs => CanLog(w)
  BY DEF Asked, CanLog
<1>3. \A kind \in kinds : Key(kind, w) \in Mine(w)
  <2> HIDE DEF kinds
  <2> QED
    BY <1>1, <1>2, MineKeys
<1> QED
  BY <1>3 DEF Uses

(* What the pods of a living WebServer use is taken from them by nobody's  *)
(* end, as long as at most one WebServer logs and one is only created anew *)
(* when its predecessor is cleaned up.                                     *)
THEOREM TakenCorrect == ASSUME ~Adopts, OneLogs PROVE Spec => NeverTakenAway
<1> DEFINE Stays(w) == ws[w] # Absent /\ ws'[w] # Absent =>
                         \A k \in Uses(w) : store[k] # Absent => store'[k] # Absent
<1>1. TypeOK /\ OwnInv /\ [Next]_vars => [\A w \in Names : Stays(w)]_vars
  <2>1. ASSUME TypeOK, OwnInv, Next PROVE \A w \in Names : Stays(w)
    BY <2>1, Kept, UsesMine DEF OwnInv
  <2> QED
    BY <2>1
<1>2. TypeOK /\ OwnInv /\ [Next]_vars => OwnInv'
  BY OwnNext
<1> QED
  BY <1>1, <1>2, OwnInit, TypeCorrect, PTL DEF Spec, NeverTakenAway

-----------------------------------------------------------------------------
(* KUBEPing.                                                               *)

(* The answer of createRoleBinding is still right when it is written down. *)
AnswerRight ==
    pc = "annotate" /\ ping = "true" /\ ws[at] # Absent =>
      "view" \in rights \/ store[<<"binding", at>>] # Absent

BindInv == AnswerRight /\ KubepingBacked

LEMMA BindInit == Init => BindInv
  BY DEF Init, BindInv, AnswerRight, KubepingBacked, NewWebServer

LEMMA BindStep ==
  ASSUME TypeOK, OwnInv, BindInv, ~Adopts, Next PROVE BindInv'
<1> Asked
  BY DEF OwnInv
<1> USE DEF cluster, caches, locals
<1>1. \A w \in Names : /\ <<"binding", w>> \in Mine(w)
                       /\ Key("binding", w) = <<"binding", w>>
  BY MineKeys, BindingKey
<1>2. rights \subseteq rights'
  BY DEF Next, Reconcile, Start, CheckImage, GetOrCreate, PutConfigMap, Decide,
         Annotate, Rest, Faults, CallFails, GetFails, ListFails, Crash, Informers,
         SyncWebServer, Sync, Cluster, Address, CollectGarbage, Users, EditSpec,
         DeleteWebServer, CreateWebServer, ChangeWebServer, Grant
<1>3. \A w \in Names : ws[w] # Absent /\ store[<<"binding", w>>] # Absent =>
                         store'[<<"binding", w>>] # Absent
  BY <1>1, Kept
<1>4. ASSUME NEW w \in Names, ws'[w] # Absent, ws'[w].ping = "true"
      PROVE  (ws[w] # Absent /\ ws[w].ping = "true") \/
             (Annotate /\ at = w /\ ws[w] # Absent /\ ping = "true")
  <2>1. CASE Annotate
    <3>1. CASE ws' = ws
      BY <1>4, <3>1
    <3>2. CASE ws' # ws
      <4>1. at \in Names /\ snap \in WebServers
        BY <2>1 DEF Annotate, TypeOK
      <4>2. /\ ws[at] # Absent /\ snap' = [snap EXCEPT !.ping = ping]
            /\ ws' = [ws EXCEPT ![at] = snap']
        BY <2>1, <3>2 DEF Annotate
      <4>3. snap'.ping = ping /\ \A v \in Names : v # at => ws'[v] = ws[v]
        BY <4>1, <4>2 DEF WebServers, TypeOK
      <4>4. ws'[at] = snap'
        BY <4>1, <4>2 DEF TypeOK
      <4> QED
        BY <1>4, <2>1, <4>2, <4>3, <4>4
    <3> QED
      BY <3>1, <3>2
  <2>2. CASE Edits
    <3>1. PICK v \in Names, new \in WebServers \cup {Absent} :
            /\ ChangeWebServer(v, new)
            /\ \/ /\ ws[v] # Absent
                  /\ new # Absent => new.ping \in {ws[v].ping, "unset"}
               \/ new.ping = "unset"
      BY <2>2, EditsFacts
    <3> QED
      BY <1>4, <3>1 DEF ChangeWebServer, TypeOK
  <2>3. CASE UNCHANGED ws
    BY <1>4, <2>3
  <2>4. Annotate \/ Edits \/ UNCHANGED ws
    BY NextSteps, LooksFacts, PutsFacts, AnswersFacts, ElsewhereFacts
       DEF Start, SyncWebServer, Crash, CollectGarbage
  <2> QED
    BY <2>1, <2>2, <2>3, <2>4
<1>5. KubepingBacked'
  <2>1. ASSUME NEW w \in Names, ws'[w] # Absent, ws'[w].ping = "true"
        PROVE  "view" \in rights' \/ store'[<<"binding", w>>] # Absent
    <3>1. ws[w] # Absent /\ ("view" \in rights \/ store[<<"binding", w>>] # Absent)
      <4>1. CASE ws[w] # Absent /\ ws[w].ping = "true"
        BY <1>1, <4>1 DEF BindInv, KubepingBacked, Present
      <4>2. CASE Annotate /\ at = w /\ ws[w] # Absent /\ ping = "true"
        BY <4>2 DEF BindInv, AnswerRight, Annotate
      <4> QED
        BY <1>4, <2>1, <4>1, <4>2
    <3> QED
      BY <1>2, <1>3, <3>1
  <2> QED
    BY <1>1, <2>1 DEF KubepingBacked, Present
<1>6. AnswerRight'
  <2> SUFFICES ASSUME pc' = "annotate", ping' = "true", ws'[at'] # Absent
               PROVE  "view" \in rights' \/ store'[<<"binding", at'>>] # Absent
    BY DEF AnswerRight
  <2>1. CASE Answers
    <3>1. /\ at \in Names /\ UNCHANGED <<ws, rights, at>>
          /\ \/ "view" \in rights \/ <<"binding", at>> \in known
             \/ store'[<<"binding", at>>] # Absent
      BY <2>1, AnswersFacts
    <3>2. <<"binding", at>> \in known => store[<<"binding", at>>] # Absent
      BY <1>1, <3>1 DEF OwnInv, Own, Its
    <3> QED
      BY <1>3, <3>1, <3>2
  <2>2. CASE UNCHANGED <<pc, ping, at>>
    <3>1. at \in Names /\ pc = "annotate"
      BY <2>2 DEF TypeOK
    <3>2. CASE ws[at] # Absent
      BY <1>2, <1>3, <2>2, <3>1, <3>2 DEF BindInv, AnswerRight
    <3>3. CASE ws[at] = Absent
      <4>1. Edits
        BY <2>2, <3>1, <3>3, NextSteps, LooksFacts, PutsFacts, AnswersFacts,
           ElsewhereFacts DEF Start, SyncWebServer, Crash, CollectGarbage, Annotate
      <4>2. PICK v \in Names, new \in WebServers \cup {Absent} :
              ChangeWebServer(v, new) /\ (ws[v] # Absent \/ CreateWebServer(v))
        BY <4>1, EditsFacts
      <4> QED
        BY <2>2, <3>1, <3>3, <4>2
           DEF ChangeWebServer, CreateWebServer, CleanedUp, TypeOK
    <3> QED
      BY <3>2, <3>3
  <2>3. Looks \/ Puts => pc' # "annotate"
    <3>1. ASSUME Continue(pc) PROVE pc' # "annotate"
      BY <3>1, ContinueTyped DEF Steps
    <3> QED
      BY <3>1, LooksFacts, PutsFacts DEF Return, Forget
  <2>4. Answers \/ UNCHANGED <<pc, ping, at>>
    BY <2>3, NextSteps, ElsewhereFacts
       DEF Start, SyncWebServer, Annotate, Return, Crash, Forget, CollectGarbage, Edits,
           EditSpec, DeleteWebServer, CreateWebServer, ChangeWebServer
  <2> QED
    BY <2>1, <2>2, <2>4
<1> QED
  BY <1>5, <1>6 DEF BindInv

LEMMA BindNext == TypeOK /\ OwnInv /\ BindInv /\ ~Adopts /\ [Next]_vars => BindInv'
<1>1. BindInv /\ UNCHANGED vars => BindInv'
  BY DEF vars, cluster, caches, locals, BindInv, AnswerRight, KubepingBacked, Present
<1> QED
  BY <1>1, BindStep

(* As long as a WebServer is only created anew once its predecessor is     *)
(* cleaned up, one annotated to use KUBEPing keeps its permission: what    *)
(* makes it so is that its role binding is its own.                        *)
THEOREM KubepingCorrect == ASSUME ~Adopts PROVE Spec => []KubepingBacked
<1>1. BindInv => KubepingBacked
  BY DEF BindInv
<1>2. TypeOK /\ OwnInv /\ BindInv /\ [Next]_vars => OwnInv' /\ BindInv'
  BY OwnNext, BindNext
<1> QED
  BY <1>1, <1>2, OwnInit, BindInit, TypeCorrect, PTL DEF Spec


-----------------------------------------------------------------------------
(* Rest.                                                                   *)

(* What the operator has read is the latest, or it will read again.        *)
Current ==
    /\ \A w \in Names \ wsLag : wsCache[w] = ws[w]
    /\ at \in Names => IF snapCurrent THEN snap = ws[at]
                                      ELSE at \in queued \cup wsLag

LEMMA CurrentInit == Init => Current
  BY ConstantsAssumption DEF Init, Current

LEMMA CurrentStep == ASSUME TypeOK, Current, Next PROVE Current'
<1> USE DEF cluster, caches, locals
<1>1. CASE \E w \in Names : Start(w)
  <2>1. PICK w \in Names : Start(w)
    BY <1>1
  <2>2. at = Absent /\ Absent \notin Names
    BY <2>1, ConstantsAssumption DEF Start, TypeOK
  <2> QED
    BY <2>1, <2>2 DEF Start, Current
<1>2. CASE \E w \in Names : SyncWebServer(w)
  BY <1>2 DEF SyncWebServer, Current, TypeOK
<1>3. CASE Looks \/ Puts
  <2>1. UNCHANGED <<ws, wsCache, wsLag>> /\ (Return(TRUE) \/ Return(FALSE) \/ Continue(pc))
    BY <1>3 DEF Looks, CheckImage, Rest, CallFails, GetFails,
                Puts, GetOrCreate, PutConfigMap, Create, Found
  <2> QED
    BY <2>1, ConstantsAssumption DEF Current, Return, Forget, Continue
<1>4. CASE Answers
  BY <1>4, AnswersFacts DEF Current
<1>5. CASE Annotate
  <2>1. at \in Names /\ snap \in WebServers
    BY <1>5 DEF Annotate, TypeOK
  <2> QED
    BY <1>5, <2>1, ConstantsAssumption DEF Annotate, Return, Forget, Current, TypeOK
<1>6. CASE Crash
  BY <1>6, ConstantsAssumption DEF Crash, Forget, Current
<1>7. CASE Elsewhere
  BY <1>7, ElsewhereFacts DEF Current
<1>8. ASSUME NEW w \in Names, NEW new, ChangeWebServer(w, new) PROVE Current'
  BY <1>8 DEF ChangeWebServer, Current, TypeOK
<1>9. CASE Edits
  <2>1. \E w \in Names : \E new : ChangeWebServer(w, new)
    BY <1>9 DEF Edits, EditSpec, DeleteWebServer, CreateWebServer
  <2> QED
    BY <1>8, <2>1
<1>10. CASE \E u \in Uids : CollectGarbage(u)
  BY <1>10 DEF CollectGarbage, Current
<1> QED
  BY <1>1, <1>2, <1>3, <1>4, <1>5, <1>6, <1>7, <1>9, <1>10, NextSteps

LEMMA CurrentNext == TypeOK /\ Current /\ [Next]_vars => Current'
<1>1. Current /\ UNCHANGED vars => Current'
  BY DEF vars, cluster, caches, locals, Current
<1> QED
  BY <1>1, CurrentStep

LEMMA PosFacts ==
  /\ \A s \in Steps : Pos[s] \in Nat
  /\ \A s, t \in Steps : Pos[s] = Pos[t] => s = t
  /\ \A s \in Steps \ {"rest"} : Pos[s] < Pos["rest"]
  /\ \A s \in Steps \ {"monitor", "admin", "image"} : Pos["image"] < Pos[s]
  /\ Pos["monitor"] < Pos["image"]
  /\ Pos["clustering"] < Pos["dns"] /\ Pos["dns"] < Pos["serverxml"]
  BY DEF Pos, Steps

(* How far a WebServer is whose reconcile is not to be repeated.           *)
Place(w) ==
    IF at # w THEN Pos["rest"]
    ELSE IF pc = "annotate" THEN Pos["clustering"] ELSE Pos[pc]

Wanted(o) == Mounts(o.spec) \cup Serves(o.spec)

(* What the steps before the n-th one leave behind in st for o, which has  *)
(* the name w.                                                             *)
Through(st, w, o, n) ==
    /\ \A kind \in Wanted(o) : Pos[kind] < n => st[Key(kind, w)] # Absent
    /\ o.spec.cluster =>
         /\ Pos["clustering"] < n => o.ping # "unset"
         /\ Pos["dns"] < n /\ o.ping = "false" => st[Key("dns", w)] # Absent
         /\ Pos["serverxml"] < n =>
              st[Key("serverxml", w)].provider = ProviderOf("serverxml", o)

Settled(w) == /\ w \notin queued \cup wsLag
              /\ ws[w] # Absent /\ Accepted(ws[w].spec)

Progress == \A w \in Names : Settled(w) => Through(store, w, ws[w], Place(w))

LEMMA WantedNeeded ==
  ASSUME NEW o \in WebServers, NEW kind \in Wanted(o)
  PROVE  /\ kind \in Steps \ {"monitor", "admin", "image", "rest", "clustering"}
         /\ kind \in Kinds /\ Needs(kind, o.spec, o.ping)
<1>1. kind \in Steps \ {"monitor", "admin", "image", "rest", "clustering"}
      /\ kind \in Kinds
  BY DEF Wanted, Mounts, Serves, Kinds, LookedUp, ConfigMaps, Monitoring, Steps
<1>2. Needs(kind, o.spec, o.ping)
  BY NeedsFacts DEF Wanted, Mounts, Serves
<1> QED
  BY <1>1, <1>2

(* From one step to the next: nothing that is needed lies between them.    *)
LEMMA ThroughOn ==
  ASSUME NEW w, NEW st, pc \in Steps, snap \in WebServers, AdvanceFrom(pc),
         Through(st, w, snap, Pos[pc]),
         pc \in Wanted(snap) => st[Key(pc, w)] # Absent,
         pc # "clustering",
         pc = "dns" => st[Key(pc, w)] # Absent,
         pc = "serverxml" =>
           st[Key(pc, w)].provider = ProviderOf("serverxml", snap)
  PROVE  Through(st, w, snap, Pos[pc'])
<1>1. ASSUME NEW mid \in Steps, Pos[mid] < Pos[pc'], Needs(mid, snap.spec, snap.ping)
      PROVE  Pos[mid] < Pos[pc] \/ mid = pc
  <2>1. ~(Pos[pc] < Pos[mid])
    BY <1>1 DEF AdvanceFrom
  <2> QED
    BY <2>1, PosFacts
<1>2. \A kind \in Wanted(snap) : Pos[kind] < Pos[pc'] => st[Key(kind, w)] # Absent
  BY <1>1, WantedNeeded DEF Through
<1>3. ASSUME snap.spec.cluster, Pos["clustering"] < Pos[pc'] PROVE snap.ping # "unset"
  BY <1>1, <1>3, NeedsFacts DEF Through, Steps
<1>4. ASSUME snap.spec.cluster, Pos["dns"] < Pos[pc'], snap.ping = "false"
      PROVE  st[Key("dns", w)] # Absent
  BY <1>1, <1>4, NeedsFacts DEF Through, Steps
<1>5. ASSUME snap.spec.cluster, Pos["serverxml"] < Pos[pc']
      PROVE  st[Key("serverxml", w)].provider = ProviderOf("serverxml", snap)
  BY <1>1, <1>5, NeedsFacts DEF Through, Steps
<1> QED
  BY <1>2, <1>3, <1>4, <1>5 DEF Through

(* A step that is not this WebServer's.                                    *)
LEMMA ThroughKept ==
  ASSUME OneLogs, Asked, NEW w \in Names, ws[w] \in WebServers, ws[w] # Absent,
         NEW st, NEW n \in Nat,
         Through(store, w, ws[w], n),
         \A k \in Mine(w) : store[k] # Absent => st[k] = store[k]
  PROVE  Through(st, w, ws[w], n)
<1>1. \A kind \in Wanted(ws[w]) : Key(kind, w) \in Mine(w)
  BY UsesMine DEF Wanted
<1>2. Key("dns", w) \in Mine(w)
  BY MineKeys DEF Kinds, LookedUp
<1>3. ws[w].spec.cluster => "serverxml" \in Wanted(ws[w])
  BY DEF Wanted, Mounts
<1> QED
  BY <1>1, <1>2, <1>3 DEF Through


LEMMA PlaceNat ==
  ASSUME TypeOK, NEW w \in Names PROVE Place(w) \in Nat
<1>1. at = w => pc \in Steps \cup {"annotate"}
  BY ConstantsAssumption DEF TypeOK
<1> QED
  BY <1>1, PosFacts DEF Place, Steps

(* A reconcile that goes on has done what its step is for.                 *)
LEMMA ProgressOn ==
  ASSUME TypeOK, OwnInv, OneLogs, Current, Progress, Continue(pc),
         NEW w \in Names, w = at, Settled(w), pc # "annotate", pc \in Steps,
         UNCHANGED <<ws, wsLag>>,
         \/ pc \in Monitoring \cup {"image"} /\ UNCHANGED store
         \/ Puts
  PROVE  Through(store', w, ws[w], Place(w)')
<1> Asked
  BY DEF OwnInv
<1>1. /\ at \in Names /\ snap = ws[at] /\ snap \in WebServers /\ snap # Absent
      /\ UNCHANGED <<at, snap>> /\ pc' \in Steps /\ AdvanceFrom(pc)
  BY ContinueTyped DEF Settled, Current, Continue, TypeOK
<1>2. Place(w) = Pos[pc] /\ Place(w)' = Pos[pc']
  BY <1>1 DEF Place, Steps
<1>3. Through(store, at, snap, Pos[pc])
  BY <1>1, <1>2 DEF Progress
<1>4. CASE pc \in Monitoring \cup {"image"} /\ UNCHANGED store
  <2>1. pc \notin Wanted(snap) /\ pc # "clustering" /\ pc # "dns" /\ pc # "serverxml"
    BY <1>1, <1>4, WantedNeeded DEF Monitoring
  <2> QED
    BY <1>1, <1>2, <1>3, <1>4, <2>1, ThroughOn
<1>5. CASE Puts
  <2> DEFINE key == Key(pc, at)
  <2>1. /\ pc \in LookedUp \cup ConfigMaps
        /\ \/ Return(TRUE)
           \/ pc \in LookedUp /\ key \in known /\ UNCHANGED store
           \/ pc = "dns" /\ store' = WithMissing(key)
           \/ /\ pc \in ConfigMaps /\ store[key] # Absent
              /\ store' = [store EXCEPT ![key] = Generated(pc, snap)]
    BY <1>5, PutsFacts
  <2>2. ~Return(TRUE)
    BY <1>1 DEF Return, Forget, Steps
  <2>3. pc = "logging" => CanLog(at)
    BY <1>1, NeedsFacts DEF OwnInv, Asked, CanLog
  <2>4. key \in Mine(at) /\ key \in Keys /\ pc \in Kinds
    BY <2>1, <2>3, MineKeys DEF Kinds
  <2>5. key \in known => store[key] # Absent
    BY <1>1, <2>4 DEF OwnInv, Own, Its
  <2>6. Generated(pc, snap) # Absent
        /\ Generated(pc, snap).provider = ProviderOf(pc, snap)
    BY <1>1, GeneratedTyped, ConstantsAssumption DEF Generated
  <2>7. /\ \A k \in Keys : k # key => store'[k] = store[k]
        /\ store'[key] # Absent
        /\ pc = "serverxml" => store'[key].provider = ProviderOf("serverxml", snap)
        /\ \A k \in Mine(at) : store[k] # Absent => store'[k] # Absent
    <3> HIDE DEF key
    <3>1. CASE UNCHANGED store /\ key \in known /\ pc \in LookedUp
      BY <2>5, <3>1 DEF LookedUp, Monitoring
    <3>2. CASE store' = [store EXCEPT ![key] = Generated(pc, snap)]
      BY <2>4, <2>6, <3>2, MineKeys DEF TypeOK
    <3>3. CASE pc = "dns" /\ store' = WithMissing(key)
      BY <2>4, <2>6, <3>3, MineKeys DEF TypeOK, WithMissing
    <3> QED
      BY <2>1, <2>2, <3>1, <3>2, <3>3
  <2>8. Through(store', at, snap, Pos[pc])
    <3>1. \A kind \in Wanted(snap) : Key(kind, at) \in Mine(at)
      BY <1>1, UsesMine DEF Wanted, OwnInv
    <3>2. Key("dns", at) \in Mine(at) /\ Key("serverxml", at) \in Keys
      BY MineKeys, KeyIsKey DEF Kinds, LookedUp, ConfigMaps
    <3>3. Pos["serverxml"] < Pos[pc] => Key("serverxml", at) # key
      BY <2>4, PosFacts DEF Key
    <3> HIDE DEF key
    <3> QED
      BY <1>3, <2>7, <3>1, <3>2, <3>3 DEF Through
  <2>9. pc # "clustering"
    BY <2>1 DEF LookedUp, Monitoring, ConfigMaps
  <2> QED
    BY <1>1, <1>2, <2>7, <2>8, <2>9, ThroughOn
<1> QED
  BY <1>4, <1>5

LEMMA ProgressReconcile ==
  ASSUME TypeOK, OwnInv, OneLogs, Current, Progress, NEW w \in Names,
         Settled(w), Settled(w)', Looks \/ Puts \/ Answers
  PROVE  Through(store', w, ws'[w], Place(w)')
<1> Asked
  BY DEF OwnInv
<1> USE DEF cluster, caches, locals
<1>1. /\ UNCHANGED <<ws, wsLag>> /\ at \in Names
      /\ \A k \in Mine(w) : w # at /\ store[k] # Absent => store'[k] = store[k]
  BY LooksFacts, PutsFacts, AnswersFacts
<1>2. ws[w] # Absent /\ ws[w] \in WebServers /\ Asked
      /\ Through(store, w, ws[w], Place(w))
  BY DEF Settled, TypeOK, OwnInv, Progress
<1>3. CASE w # at
  <2>1. Place(w)' = Place(w)
    <3>1. at' = at \/ at' = Absent
      BY LooksFacts, PutsFacts, AnswersFacts DEF Return, Forget, Continue
    <3> QED
      BY <1>3, <3>1, ConstantsAssumption DEF Place
  <2> QED
    BY <1>1, <1>2, <1>3, <2>1, ThroughKept, PlaceNat
<1>4. CASE w = at /\ (Looks \/ Puts)
  <2>1. CASE Continue(pc)
    <3>1. pc \in Steps /\ pc # "annotate"
          /\ (Puts \/ (pc \in Monitoring \cup {"image"} /\ UNCHANGED store))
      <4>1. CASE Puts
        BY <4>1, PutsFacts DEF LookedUp, ConfigMaps, Monitoring, Steps
      <4>2. CASE Looks
        <5>1. pc' \in Steps
          BY <2>1, ContinueTyped
        <5> QED
          BY <4>2, <5>1, LooksFacts DEF Monitoring, Steps, Return, Forget
      <4> QED
        BY <1>4, <4>1, <4>2
    <3> QED
      BY <1>1, <1>4, <2>1, <3>1, ProgressOn
  <2>2. CASE Return(TRUE)
    BY <1>1, <1>4, <2>2 DEF Return, Settled
  <2>3. CASE Return(FALSE) /\ (pc = "rest" \/ (pc = "image" /\ ~Accepted(snap.spec)))
    <3>1. snap = ws[w]
      BY <1>4 DEF Settled, Current
    <3>2. pc = "rest" /\ UNCHANGED store
      BY <1>4, <2>3, <3>1, LooksFacts, PutsFacts
         DEF Settled, LookedUp, ConfigMaps, Monitoring
    <3>3. Place(w)' = Place(w)
      BY <1>4, <2>3, <3>2, ConstantsAssumption DEF Place, Return, Forget
    <3> QED
      BY <1>1, <1>2, <3>2, <3>3
  <2> QED
    BY <1>4, <2>1, <2>2, <2>3, LooksFacts, PutsFacts
<1>5. CASE w = at /\ Answers
  <2>1. /\ pc = "clustering" /\ pc' = "annotate" /\ at' = at
        /\ \A k \in Mine(w) : store[k] # Absent => store'[k] = store[k]
    BY <1>5, AnswersFacts
  <2>2. Place(w)' = Place(w)
    BY <1>5, <2>1 DEF Place
  <2> QED
    BY <1>1, <1>2, <2>1, <2>2, ThroughKept, PlaceNat
<1> QED
  BY <1>3, <1>4, <1>5

LEMMA ProgressStart ==
  ASSUME TypeOK, OwnInv, OneLogs, Current, Progress, NEW w \in Names,
         Settled(w)', NEW v \in Names, Start(v)
  PROVE  Through(store', w, ws'[w], Place(w)')
<1> USE DEF cluster, caches, locals
<1>1. UNCHANGED <<ws, store, wsCache, wsLag>> /\ pc = "idle" /\ at = Absent
  BY DEF Start, TypeOK
<1>2. ws[w] # Absent /\ ws[w] \in WebServers /\ w \notin wsLag /\ wsCache[w] = ws[w]
  BY <1>1 DEF Settled, TypeOK, Current
<1>3. CASE w = v
  <2>1. at' = w /\ pc' \in {"monitor", "image"}
    BY <1>2, <1>3 DEF Start
  <2>2. Place(w)' = Pos[pc'] /\ (Pos[pc'] = Pos["image"] \/ Pos[pc'] < Pos["image"])
    BY <2>1, PosFacts DEF Place
  <2>3. \A kind \in Wanted(ws[w]) : ~(Pos[kind] < Pos[pc'])
    <3>1. ASSUME NEW kind \in Wanted(ws[w]) PROVE ~(Pos[kind] < Pos[pc'])
      <4>1. kind \in Steps \ {"monitor", "admin", "image"}
        BY <1>2, <3>1, WantedNeeded
      <4>2. Pos["image"] < Pos[kind] /\ Pos[kind] \in Nat /\ Pos["image"] \in Nat
            /\ Pos[pc'] \in Nat
        BY <2>1, <4>1, PosFacts DEF Steps
      <4> QED
        BY <2>2, <4>2
    <3> QED
      BY <3>1
  <2>4. /\ ~(Pos["clustering"] < Pos[pc']) /\ ~(Pos["dns"] < Pos[pc'])
        /\ ~(Pos["serverxml"] < Pos[pc'])
    BY <2>1 DEF Pos
  <2> QED
    BY <1>1, <2>2, <2>3, <2>4 DEF Through
<1>4. CASE w # v
  <2>1. Settled(w)
    BY <1>1, <1>4 DEF Settled, Start
  <2>2. Place(w)' = Place(w)
    BY <1>1, <1>4, ConstantsAssumption DEF Place, Start
  <2> QED
    BY <1>1, <2>1, <2>2 DEF Progress
<1> QED
  BY <1>3, <1>4

LEMMA ProgressStep ==
  ASSUME TypeOK, OwnInv, OneLogs, Current, Progress, Next PROVE Progress'
<1> Asked
  BY DEF OwnInv
<1> USE DEF cluster, caches, locals
<1> SUFFICES ASSUME NEW w \in Names, Settled(w)'
             PROVE  Through(store', w, ws'[w], Place(w)')
  BY DEF Progress
<1>1. CASE \E v \in Names : Start(v)
  BY <1>1, ProgressStart
<1>2. CASE Looks \/ Puts \/ Answers
  <2>1. Settled(w)
    BY <1>2, LooksFacts, PutsFacts, AnswersFacts
       DEF Settled, Return, Forget, Continue
  <2> QED
    BY <1>2, <2>1, ProgressReconcile
<1>3. ASSUME UNCHANGED ws, Settled(w), Place(w)' = Place(w),
             \A k \in Mine(w) : store[k] # Absent => store'[k] = store[k]
      PROVE  Through(store', w, ws'[w], Place(w)')
  BY <1>3, ThroughKept, PlaceNat DEF Settled, Progress, OwnInv, TypeOK
<1>4. CASE \E v \in Names : SyncWebServer(v)
  BY <1>3, <1>4 DEF SyncWebServer, Settled, Place
<1>5. CASE Annotate
  <2>1. at \in Names
    BY <1>5 DEF Annotate, TypeOK
  <2>2. w # at
    BY <1>5, <2>1 DEF Annotate, Current, Settled, Return
  <2>3. UNCHANGED store /\ ws'[w] = ws[w] /\ Settled(w) /\ Place(w)' = Place(w)
    BY <1>5, <2>1, <2>2, ConstantsAssumption
       DEF Annotate, Settled, Place, Return, Forget, TypeOK
  <2> QED
    BY <2>3 DEF Progress
<1>6. CASE Crash
  BY <1>6 DEF Crash, Settled
<1>7. CASE Elsewhere
  BY <1>3, <1>7, ElsewhereFacts DEF Settled, Place
<1>8. CASE Edits
  <2>1. PICK v \in Names, new \in WebServers \cup {Absent} : ChangeWebServer(v, new)
    BY <1>8, EditsFacts
  <2>2. w # v
    BY <2>1 DEF ChangeWebServer, Settled
  <2>3. UNCHANGED <<store, pc, at>> /\ ws'[w] = ws[w] /\ Settled(w) /\ Place(w)' = Place(w)
    BY <2>1, <2>2 DEF ChangeWebServer, Settled, Place, TypeOK
  <2> QED
    BY <2>3 DEF Progress
<1>9. CASE \E u \in Uids : CollectGarbage(u)
  <2>1. PICK u \in Uids : CollectGarbage(u)
    BY <1>9
  <2>2. UNCHANGED ws /\ Settled(w) /\ Place(w)' = Place(w)
    BY <2>1 DEF CollectGarbage, Settled, Place
  <2>3. \A k \in Mine(w) : store'[k] = store[k]
    BY <2>1, <2>2, CollectKeeps DEF Settled
  <2> QED
    BY <1>3, <2>2, <2>3
<1> QED
  BY <1>1, <1>2, <1>4, <1>5, <1>6, <1>7, <1>8, <1>9, NextSteps

LEMMA ProgressInit == Init => Progress
  BY DEF Init, Progress, Settled

LEMMA ProgressNext ==
  TypeOK /\ OwnInv /\ OneLogs /\ Current /\ Progress /\ [Next]_vars => Progress'
<1>1. Progress /\ UNCHANGED vars => Progress'
  BY DEF vars, cluster, caches, locals, Progress, Settled, Place
<1> QED
  BY <1>1, ProgressStep

LEMMA RestFacts ==
  ASSUME TypeOK, Progress, NEW w \in Names, Quiet(w), ws[w] # Absent,
         Accepted(ws[w].spec)
  PROVE  /\ Provisioned(w)
         /\ ws[w].spec.cluster =>
              /\ ws[w].ping # "unset" /\ Present("serverxml", w)
              /\ ws[w].ping = "false" => Present("dns", w)
              /\ store[Key("serverxml", w)].provider = ProviderOf("serverxml", ws[w])
<1>1. Through(store, w, ws[w], Pos["rest"]) /\ ws[w] \in WebServers
  BY DEF Quiet, Settled, Progress, Place, TypeOK
<1>2. \A kind \in Wanted(ws[w]) : Pos[kind] < Pos["rest"]
  BY <1>1, WantedNeeded, PosFacts
<1>3. \A kind \in Wanted(ws[w]) : Present(kind, w)
  BY <1>1, <1>2 DEF Through, Present
<1>4. ws[w].spec.cluster => "serverxml" \in Wanted(ws[w])
  BY DEF Wanted, Mounts
<1> QED
  BY <1>1, <1>3, <1>4, PosFacts DEF Through, Present, Provisioned, Wanted, Steps

(* When the operator rests, everything that pods mount and that routes to  *)
(* them exists: what the steps of a reconcile before the one it is at are  *)
(* for is there, or there will be another reconcile.                       *)
THEOREM ProvisionedCorrect ==
  ASSUME ~Adopts, OneLogs PROVE Spec => []QuietMeansProvisioned
<1> DEFINE Inv == OwnInv /\ Current /\ Progress
<1>1. Init => Inv
  BY OwnInit, CurrentInit, ProgressInit
<1>2. TypeOK /\ Inv /\ [Next]_vars => Inv'
  BY OwnNext, CurrentNext, ProgressNext
<1>3. TypeOK /\ Inv => QuietMeansProvisioned
  BY RestFacts DEF QuietMeansProvisioned
<1> HIDE DEF Inv
<1> QED
  BY <1>1, <1>2, <1>3, TypeCorrect, PTL DEF Spec

(* When the operator rests, the pods of a clustering WebServer find each   *)
(* other, by the provider that the annotation asks for.                    *)
THEOREM ClusteredCorrect ==
  ASSUME ~Adopts, OneLogs PROVE Spec => []QuietMeansClustered
<1> DEFINE Inv == OwnInv /\ Current /\ Progress
<1>1. Init => Inv
  BY OwnInit, CurrentInit, ProgressInit
<1>2. TypeOK /\ Inv /\ [Next]_vars => Inv'
  BY OwnNext, CurrentNext, ProgressNext
<1>3. ASSUME TypeOK, Inv, KubepingBacked PROVE QuietMeansClustered
  <2> SUFFICES ASSUME NEW w \in Names, Quiet(w), ws[w] # Absent,
                      Accepted(ws[w].spec), ws[w].spec.cluster
               PROVE  LET xml == store[Key("serverxml", w)]
                      IN  /\ xml # Absent
                          /\ \/ /\ xml.provider = "KubernetesMembershipProvider"
                                /\ "view" \in rights \/ Present("binding", w)
                             \/ /\ xml.provider = "DNSMembershipProvider"
                                /\ Present("dns", w)
    BY DEF QuietMeansClustered
  <2>1. /\ ws[w].ping # "unset" /\ Present("serverxml", w)
        /\ ws[w].ping = "false" => Present("dns", w)
        /\ store[Key("serverxml", w)].provider = ProviderOf("serverxml", ws[w])
    BY <1>3, RestFacts
  <2>2. ws[w].ping \in {"true", "false"}
    BY <1>3, <2>1 DEF TypeOK, WebServers, Pings
  <2>3. CASE ws[w].ping = "true"
    BY <1>3, <2>1, <2>3 DEF ProviderOf, UsesKUBEPing, KubepingBacked, Present
  <2>4. CASE ws[w].ping = "false"
    BY <2>1, <2>4 DEF ProviderOf, UsesKUBEPing, Present
  <2> QED
    BY <2>2, <2>3, <2>4
<1> HIDE DEF Inv
<1> QED
  BY <1>1, <1>2, <1>3, TypeCorrect, KubepingCorrect, PTL DEF Spec
=============================================================================
