--------------------- MODULE ProvisioningRefinement_proofs ---------------------
(***************************************************************************)
(* Proof that Provisioning implements ProvisioningContract, for any number *)
(* of WebServers at most one of which may log.                             *)
(***************************************************************************)
EXTENDS ProvisioningRefinement, Provisioning_proofs

(* Nobody is asked about KUBEPing who has chosen already.                  *)
Undecided == pc = "annotate" => snap.ping = "unset"

LEMMA UndecidedStep == ASSUME TypeOK, Asked, Undecided, Next PROVE Undecided'
<1> USE DEF cluster, caches, locals
<1>1. "annotate" \notin Steps
  BY DEF Steps
<1>2. ASSUME Return(TRUE) \/ Return(FALSE) \/ Continue(pc) PROVE Undecided'
  BY <1>1, <1>2 DEF Return, Forget, Continue, AdvanceFrom, Undecided
<1>3. CASE \E w \in Names : Start(w)
  BY <1>3 DEF Start, Undecided
<1>4. CASE Looks
  BY <1>2, <1>4, LooksFacts
<1>5. CASE Puts
  BY <1>2, <1>5, PutsFacts
<1>6. CASE Answers
  <2>1. pc = "clustering" /\ snap' = snap
    BY <1>6, AnswersFacts
  <2>2. Needs("clustering", snap.spec, snap.ping)
    BY <2>1 DEF Asked, Steps
  <2> QED
    BY <2>1, <2>2, NeedsFacts DEF Undecided
<1>7. CASE Annotate
  BY <1>2, <1>7 DEF Annotate, Undecided
<1>8. CASE Crash
  BY <1>8 DEF Crash, Forget, Undecided
<1>9. CASE (\E w \in Names : SyncWebServer(w)) \/ (\E u \in Uids : CollectGarbage(u))
  BY <1>9 DEF SyncWebServer, CollectGarbage, Undecided
<1>10. CASE Elsewhere
  BY <1>10, ElsewhereFacts DEF Undecided
<1>11. CASE Edits
  BY <1>11, EditsFacts DEF ChangeWebServer, Undecided
<1> QED
  BY <1>3, <1>4, <1>5, <1>6, <1>7, <1>8, <1>9, <1>10, <1>11, NextSteps

LEMMA UndecidedNext == TypeOK /\ Asked /\ Undecided /\ [Next]_vars => Undecided'
<1>1. Undecided /\ UNCHANGED vars => Undecided'
  BY DEF vars, locals, Undecided
<1> QED
  BY <1>1, UndecidedStep

-----------------------------------------------------------------------------
(* The steps.                                                              *)

Allowed == [Contract!Next]_(Contract!vars)

(* Steps that write nothing: the reconcile goes on or ends.                *)
LEMMA Onward ==
  ASSUME TypeOK, UNCHANGED <<ws, wsCache, store>>,
         \/ at \in Names /\ (Return(TRUE) \/ Return(FALSE))
         \/ UNCHANGED <<at, snap>>,
         Disturb \/ UNCHANGED budget
  PROVE  Allowed
<1>1. budget' <= budget /\ (budget' < budget \/ budget' = budget)
  BY DEF Disturb, TypeOK
<1>2. CASE UNCHANGED <<at, snap>>
  BY <1>1, <1>2 DEF Allowed, Contract!Next, Contract!Wait, Contract!Spends, Contract!vars
<1>3. CASE at \in Names /\ (Return(TRUE) \/ Return(FALSE))
  <2>1. Contract!Leave
    BY <1>1, <1>3, ConstantsAssumption
       DEF Contract!Leave, Contract!Idles, Return, Forget
  <2> QED
    BY <2>1 DEF Allowed, Contract!Next
<1> QED
  BY <1>2, <1>3

LEMMA PutsAllowed == ASSUME TypeOK, Apart, Asked, OneLogs, Puts PROVE Allowed
<1> DEFINE key == Key(pc, at)
<1>1. /\ UNCHANGED <<ws, rights, caches>> /\ at \in Names /\ snap \in WebServers
      /\ pc \in LookedUp \cup ConfigMaps
      /\ Return(TRUE) \/ Continue(pc)
  BY PutsFacts
<1>2. /\ pc \in Kinds \ {"binding"} /\ pc \in Steps
      /\ key \in Keys /\ at # Absent /\ UNCHANGED budget
  BY <1>1, KeyIsKey, ConstantsAssumption
     DEF Kinds, LookedUp, ConfigMaps, Monitoring, Steps, Puts, GetOrCreate, PutConfigMap
<1>3. Needs(pc, snap.spec, snap.ping)
  BY <1>2 DEF Asked
<1>4. key \in Mine(at)
  <2>1. pc = "logging" => CanLog(at)
    BY <1>1, <1>3, NeedsFacts DEF Asked, CanLog
  <2> QED
    BY <1>1, <1>2, <2>1 DEF Mine
<1>5. (Contract!Idles \/ UNCHANGED <<at, snap>>) /\ UNCHANGED wsCache
  BY <1>1 DEF Return, Forget, Continue, Contract!Idles, caches
<1>6. ASSUME store[key] # Absent => pc \in ConfigMaps,
             store' = [store EXCEPT ![key] = Generated(pc, snap)]
      PROVE  Allowed
  <2>1. store[key] # Absent => Contract!MayTake(key)
    BY <1>1, <1>4 DEF Apart, Contract!MayTake
  <2>2. Required(pc, snap)
    BY <1>2, <1>3 DEF Required
  <2>3. Contract!Provide(pc)
    BY <1>1, <1>2, <1>5, <1>6, <2>1, <2>2 DEF Contract!Provide, TypeOK
  <2> QED
    BY <1>2, <2>3 DEF Allowed, Contract!Next
<1>7. CASE PutConfigMap
  BY <1>6, <1>7 DEF PutConfigMap
<1>8. CASE GetOrCreate
  <2>1. CASE UNCHANGED store
    BY <1>1, <1>2, <1>5, <2>1, Onward DEF Continue
  <2>2. CASE store' # store
    <3>1. store' = [store EXCEPT ![key] = IF @ = Absent THEN Generated(pc, snap) ELSE @]
      BY <1>8, <2>2 DEF GetOrCreate, Create, Found
    <3> HIDE DEF key
    <3>2. store[key] = Absent
      BY <1>2, <2>2, <3>1 DEF TypeOK
    <3>3. store' = [store EXCEPT ![key] = Generated(pc, snap)]
      BY <3>1, <3>2
    <3> QED
      BY <1>6, <3>2, <3>3
  <2> QED
    BY <2>1, <2>2
<1> QED
  BY <1>7, <1>8 DEF Puts

LEMMA AnswersAllowed == ASSUME TypeOK, Asked, Answers PROVE Allowed
<1> DEFINE key == Key("binding", at)
<1>1. /\ UNCHANGED <<ws, rights, caches, queued, at, snap, snapCurrent>>
      /\ at \in Names /\ snap \in WebServers /\ pc = "clustering"
  BY AnswersFacts
<1>2. /\ key = <<"binding", at>> /\ key \in Keys /\ "binding" \in Kinds
      /\ at # Absent /\ UNCHANGED wsCache
  BY <1>1, BindingKey, ConstantsAssumption DEF Kinds, caches
<1>3. Disturb \/ UNCHANGED budget
  BY DEF Answers, Decide, ListFails
<1>4. CASE UNCHANGED store
  BY <1>1, <1>2, <1>3, <1>4, Onward
<1>5. CASE store' # store
  <2>1. store' = [store EXCEPT ![key] =
                    IF key \notin known /\ "bind" \in rights /\ @ = Absent
                    THEN Generated("binding", snap) ELSE @]
    BY <1>2, <1>5 DEF Answers, Decide, ListFails, Bind
  <2> HIDE DEF key
  <2>2. store[key] = Absent /\ store' = [store EXCEPT ![key] = Generated("binding", snap)]
    BY <1>2, <1>5, <2>1 DEF TypeOK
  <2>3. Required("binding", snap)
    BY <1>1 DEF Required, Asked, Steps
  <2>4. budget' <= budget
    BY <1>3 DEF Disturb, TypeOK
  <2>5. Contract!Provide("binding")
    BY <1>1, <1>2, <2>2, <2>3, <2>4 DEF Contract!Provide, key
  <2> QED
    BY <1>2, <2>5 DEF Allowed, Contract!Next
<1> QED
  BY <1>4, <1>5

LEMMA AnnotateAllowed == ASSUME TypeOK, Current, Undecided, Annotate PROVE Allowed
<1>1. /\ pc = "annotate" /\ at \in Names /\ at # Absent /\ snap \in WebServers
      /\ ping \in {"true", "false"} /\ snap.ping = "unset"
      /\ UNCHANGED <<store, wsCache, budget>>
  BY ConstantsAssumption DEF Annotate, TypeOK, Pings, Undecided
<1>2. CASE ws[at] = Absent
  BY <1>1, <1>2, Onward DEF Annotate
<1>3. CASE ws[at] # Absent
  <2>1. at' = at /\ snap' = [snap EXCEPT !.ping = ping]
    BY <1>3 DEF Annotate
  <2>2. CASE snapCurrent
    <3>1. snap = ws[at] /\ ws' = [ws EXCEPT ![at] = snap']
      BY <1>1, <1>3, <2>2 DEF Annotate, Current
    <3>2. ws' = [ws EXCEPT ![at].ping = ping] /\ snap' = ws'[at]
      BY <1>1, <2>1, <3>1 DEF TypeOK
    <3>3. Contract!Note
      BY <1>1, <2>1, <3>1, <3>2 DEF Contract!Note
    <3> QED
      BY <3>3 DEF Allowed, Contract!Next
  <2>3. CASE ~snapCurrent
    <3>1. UNCHANGED ws
      BY <1>3, <2>3 DEF Annotate
    <3>2. Contract!Remember
      BY <1>1, <2>1, <3>1 DEF Contract!Remember
    <3> QED
      BY <3>2 DEF Allowed, Contract!Next
  <2> QED
    BY <2>2, <2>3
<1> QED
  BY <1>2, <1>3

(* A UID in use is among the used ones, so a fresh one is nobody's.        *)
LEMMA EditsAllowed == ASSUME TypeOK, Edits PROVE Allowed
<1>1. PICK w \in Names, new \in WebServers \cup {Absent} :
        /\ ChangeWebServer(w, new)
        /\ \/ /\ ws[w] # Absent
              /\ new # Absent => new.uid = ws[w].uid
           \/ CreateWebServer(w) /\ new.uid = FreshUid
  BY EditsFacts
<1>2. /\ ws' = [ws EXCEPT ![w] = new] /\ ws'[w] = new /\ budget' < budget
      /\ UNCHANGED <<wsCache, at, snap, store>>
  BY <1>1 DEF ChangeWebServer, Disturb, TypeOK
<1>3. ASSUME CreateWebServer(w) PROVE ws[w] = Absent /\ ~Contract!InUse(FreshUid)
  <2>1. FreshUid \notin UsedUids /\ ws[w] = Absent
    BY <1>3, FreshUidFacts DEF CreateWebServer
  <2>2. at # Absent => snap # Absent
    BY ConstantsAssumption DEF TypeOK
  <2> QED
    BY <2>1, <2>2 DEF UsedUids, Contract!InUse
<1>4. Contract!Demand(w)
  BY <1>1, <1>2, <1>3 DEF Contract!Demand, Contract!Spends
<1> QED
  BY <1>4 DEF Allowed, Contract!Next

LEMMA StepAllowed ==
  ASSUME TypeOK, Apart, Asked, Current, Undecided, OneLogs, Next PROVE Allowed
<1> USE DEF cluster, caches, locals
<1>1. CASE \E w \in Names : Start(w)
  <2>1. PICK w \in Names : Start(w)
    BY <1>1
  <2>2. at = Absent
    BY <2>1 DEF Start, TypeOK
  <2>3. CASE wsCache[w] = Absent
    BY <2>1, <2>3, Onward DEF Start
  <2>4. CASE wsCache[w] # Absent
    <3>1. Contract!Take(w)
      BY <2>1, <2>2, <2>4 DEF Start, Contract!Take
    <3> QED
      BY <3>1 DEF Allowed, Contract!Next
  <2> QED
    BY <2>3, <2>4
<1>2. CASE \E w \in Names : SyncWebServer(w)
  <2>1. PICK w \in Names : SyncWebServer(w)
    BY <1>2
  <2>2. Contract!Hear(w)
    BY <2>1 DEF SyncWebServer, Contract!Hear
  <2> QED
    BY <2>2 DEF Allowed, Contract!Next
<1>3. CASE Looks
  <2>1. Disturb \/ UNCHANGED budget
    BY <1>3 DEF Looks, CheckImage, Rest, CallFails, GetFails
  <2> QED
    BY <1>3, <2>1, LooksFacts, Onward DEF Continue
<1>4. CASE Crash
  <2>1. Contract!Interrupt
    BY <1>4 DEF Crash, Disturb, Forget, TypeOK, Contract!Interrupt,
                Contract!Spends, Contract!Idles
  <2> QED
    BY <2>1 DEF Allowed, Contract!Next
<1>5. CASE Elsewhere
  <2>1. Disturb \/ UNCHANGED budget
    BY <1>5 DEF Elsewhere, Sync, Address, Grant
  <2> QED
    BY <1>5, <2>1, ElsewhereFacts, Onward
<1>6. CASE \E u \in Uids : CollectGarbage(u)
  <2>1. PICK u \in Uids : CollectGarbage(u)
    BY <1>6
  <2>2. DOMAIN store = Keys
    BY DEF TypeOK
  <2>3. store' = [k \in DOMAIN store |->
                    IF store[k] # Absent /\ store[k].owner = u
                    THEN Absent ELSE store[k]]
    BY <2>1, <2>2 DEF CollectGarbage, OwnedBy, Existing
  <2>4. Contract!Collect(u)
    BY <2>1, <2>3 DEF CollectGarbage, Living, Contract!Collect, Contract!Living
  <2> QED
    BY <2>4 DEF Allowed, Contract!Next
<1> QED
  BY <1>1, <1>2, <1>3, <1>4, <1>5, <1>6, PutsAllowed, AnswersAllowed,
     AnnotateAllowed, EditsAllowed, NextSteps

-----------------------------------------------------------------------------
LEMMA ContractInit == Init => Contract!Init
<1> SUFFICES ASSUME Init PROVE Contract!Init
  OBVIOUS
<1>1. PICK spec \in [Names -> UNION {SpecsOf[w] : w \in Names}] :
        ws = [w \in Names |-> NewWebServer(FirstUids[w], spec[w])]
  BY DEF Init
<1>2. \A w \in Names : ws[w].uid = FirstUids[w]
  BY <1>1 DEF NewWebServer
<1>3. \A w \in Names : ws[w] \in WebServers
  <2>1. \A w \in Names : ws[w] # Absent
    BY <1>1, <1>2, ConstantsAssumption, FirstUidsFacts
       DEF NewWebServer, WebServers, Pings
  <2> QED
    BY <2>1, InitTypes DEF TypeOK
<1>4. \A v, w \in Names : ws[v].uid = ws[w].uid => v = w
  BY <1>2, FirstUidsFacts
<1>5. \A k \in DOMAIN store : store[k] = Absent
  BY DEF Init
<1>6. wsCache = ws /\ at = Absent /\ snap = Absent /\ budget \in Nat
  BY ConstantsAssumption DEF Init
<1> QED
  BY <1>3, <1>4, <1>5, <1>6 DEF Contract!Init, Contract!Idles

(* Provisioning keeps the contract, however soon WebServers are made anew: *)
(* each of its steps is one that the contract allows, or one it does not   *)
(* see.  An object that is written over is no other living WebServer's     *)
(* because what others own stays apart (Apart), and the annotation goes    *)
(* onto the version that was read because a version that is current is the *)
(* one that is there (Current).                                            *)
THEOREM ProvisioningRefines == ASSUME OneLogs PROVE Spec => KeepsContract
<1> DEFINE Inv == Apart /\ Asked /\ Current /\ Undecided
<1>1. Init => Inv
  BY OwnInit, CurrentInit DEF Init, OwnInv, Undecided
<1>2. TypeOK /\ Inv /\ [Next]_vars => Inv'
  <2>1. ASSUME TypeOK, Inv, Next PROVE Apart' /\ Asked'
    BY <2>1, ApartStep, AskedStep DEF Current
  <2>2. Apart /\ Asked /\ UNCHANGED vars => Apart' /\ Asked'
    BY DEF vars, cluster, caches, locals, Apart, Asked
  <2> QED
    BY <2>1, <2>2, CurrentNext, UndecidedNext
<1>3. TypeOK /\ Inv /\ [Next]_vars => [Contract!Next]_(Contract!vars)
  <2>1. UNCHANGED vars => UNCHANGED Contract!vars
    BY DEF vars, cluster, caches, locals, Contract!vars
  <2> QED
    BY <2>1, StepAllowed DEF Allowed
<1> HIDE DEF Inv
<1> QED
  BY <1>1, <1>2, <1>3, TypeCorrect, ContractInit, PTL
     DEF Spec, KeepsContract, Contract!Spec
=============================================================================
