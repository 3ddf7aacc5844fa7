----------------------- MODULE RegistryRefinement_proofs -----------------------
(***************************************************************************)
(* The proof that AppRegistry implements RegistryContract, for every set   *)
(* of WebServers, names and clients, as long as a delete is in flight on   *)
(* its own.                                                                *)
(***************************************************************************)
EXTENDS RegistryRefinement, AppRegistry_proofs

-----------------------------------------------------------------------------
(* What the contract sees of the list: by RegistryUnique an entry is there *)
(* once, so that to touch it is to touch all the WebServer has.            *)

LEMMA Requested ==
  ASSUME TypeOK, NEW c \in Clients, stage[c] # "idle"
  PROVE  req[c] \in Requests /\ req[c] # None
  BY DEF TypeOK

LEMMA EntryAt ==
  ASSUME TypeOK, NEW i \in 1..len
  PROVE  /\ array[i] \in Registered
         /\ array[i] = [name |-> array[i].name, app |-> array[i].app]
  BY DEF TypeOK, Registered, Entries

(* Steps at which the contract sees nothing.                               *)
LEMMA Unseen ==
  ASSUME TypeOK, NEW c \in Clients,
         UNCHANGED <<live, array, len, req>>, stage[c] # "admitted",
         \E s \in Stages \ {"admitted"} : stage' = [stage EXCEPT ![c] = s]
  PROVE  UNCHANGED Contract!vars
<1>1. Admitted' = Admitted
  BY DEF Admitted, TypeOK
<1>2. Registered' = Registered
  BY DEF Registered
<1> QED
  BY <1>1, <1>2 DEF Contract!vars

(* Steps that admit c's request.                                           *)
LEMMA Admits ==
  ASSUME TypeOK, NEW c \in Clients, stage' = [stage EXCEPT ![c] = "admitted"]
  PROVE  Admitted' = Admitted \cup {c}
  BY DEF Admitted, TypeOK

LEMMA WaitsIn ==
  ASSUME TypeOK, NEW c \in Clients
  PROVE  /\ stage[c] \in {"check", "write"} =>
              Contract!Waits(c, {"create", "update"})
         /\ stage[c] \in {"delete", "find", "remove"} =>
              Contract!Waits(c, {"delete"})
<1>1. stage[c] # "idle" => req[c].op \in {"create", "update", "delete"}
  BY Requested DEF Requests
<1> QED
  BY <1>1, Requested DEF Contract!Waits, Admitted, TypeOK

-----------------------------------------------------------------------------
(* The steps one by one.                                                   *)

LEMMA SubmitAsks ==
  ASSUME TypeOK, NEW c \in Clients, Submit(c) PROVE Contract!Ask(c)
<1>1. PICK r \in Requests : /\ Allowed(r)
                            /\ req' = [req EXCEPT ![c] = r]
                            /\ stage' = [stage EXCEPT ![c] =
                                 IF r.op = "delete" THEN "delete" ELSE "check"]
  BY DEF Submit
<1>2. \E op \in {"create", "update", "delete"}, n \in Names :
        \E a \in IF op = "delete" THEN {None} ELSE Apps :
           r = [op |-> op, name |-> n, app |-> a]
  BY DEF Requests
<1>3. req[c] = None /\ req'[c] = r
  BY <1>1 DEF Submit, TypeOK
<1>4. \A d \in Clients \ {c} : req[d] # None => req[d].name # r.name
  BY <1>1 DEF Allowed, InFlight, TypeOK
<1>5. Admitted' = Admitted
  BY <1>1 DEF Submit, Admitted, TypeOK
<1>6. UNCHANGED <<live, Registered>>
  BY DEF Submit, Registered
<1> QED
  BY <1>1, <1>2, <1>3, <1>4, <1>5, <1>6 DEF Contract!Ask

LEMMA SameIsGranted ==
  ASSUME RegInv, NEW c \in Clients, CheckSame(c) PROVE Contract!Grant(c)
<1> DEFINE r == req[c]
           e == [name |-> r.name, app |-> r.app]
<1>1. stage[c] = "check" /\ stage' = [stage EXCEPT ![c] = "admitted"]
      /\ UNCHANGED <<live, array, len, req>>
  BY DEF CheckSame
<1>2. PICK i \in 1..len : array[i] = e
  BY FirstMatchFound DEF CheckSame, IsSame, RegInv
<1>3. \A j \in 1..len : j # i => array[j].name # r.name /\ array[j].app # r.app
  BY <1>2 DEF RegInv, RegistryUnique
<1>4. ~Contract!InUse(r)
  BY <1>2, <1>3 DEF Contract!InUse, Contract!Others, Registered
<1>5. Registered = Contract!Others(r) \cup {e}
  BY <1>2, <1>3 DEF Contract!Others, Registered
<1>6. Registered' = Registered
  BY <1>1 DEF Registered
<1> QED
  BY <1>1, <1>4, <1>5, <1>6, WaitsIn, Admits
     DEF Contract!Grant, Contract!Entry, RegInv

LEMMA WriteIsGranted ==
  ASSUME RegInv, NEW c \in Clients, CheckWrite(c) PROVE Contract!Grant(c)
<1> DEFINE r == req[c]
           e == NewEntry(c)
<1>1. stage[c] = "write" /\ stage' = [stage EXCEPT ![c] = "admitted"]
      /\ UNCHANGED <<live, req>>
  BY DEF CheckWrite
<1>2. Written(c) /\ len \in Nat
  BY WrittenList DEF RegInv, TypeOK
<1>3. \A i \in 1..len : array[i].app # r.app
  BY <1>2 DEF Written, AppendsEntry, RenamesEntry, Matches, Taken
<1>4. ~Contract!InUse(r)
  BY <1>3 DEF Contract!InUse, Contract!Others, Registered
<1>5. Registered' = Contract!Others(r) \cup {e}
  <2>1. CASE AppendsEntry(c)
    <3>1. \A i \in 1..len : array[i].name # r.name
      BY <2>1 DEF AppendsEntry, Matches
    <3>2. \A i \in 1..len' : i = len' \/ i \in 1..len
      BY <1>2, <2>1 DEF AppendsEntry
    <3>3. len' \in 1..len' /\ 1..len \subseteq 1..len'
      BY <1>2, <2>1 DEF AppendsEntry
    <3> QED
      BY <2>1, <3>1, <3>2, <3>3 DEF AppendsEntry, Contract!Others, Registered
  <2>2. CASE RenamesEntry(c)
    <3>1. \A i \in 1..len : array[i].name = r.name <=> i = plan[c]
      BY <2>2 DEF RenamesEntry, RegInv, RegistryUnique
    <3> QED
      BY <2>2, <3>1 DEF RenamesEntry, Contract!Others, Registered
  <2> QED
    BY <1>2, <2>1, <2>2 DEF Written
<1> QED
  BY <1>1, <1>4, <1>5, WaitsIn, Admits
     DEF Contract!Grant, Contract!Entry, NewEntry, RegInv

LEMMA UsedIsDenied ==
  ASSUME RegInv, NEW c \in Clients, CheckUsed(c) PROVE Contract!Deny(c)
<1>1. /\ stage[c] = "check" /\ stage' = [stage EXCEPT ![c] = "idle"]
      /\ req' = [req EXCEPT ![c] = None] /\ UNCHANGED <<live, array, len>>
  BY DEF CheckUsed, Finish
<1>2. req[c] \in Requests
  BY <1>1, Requested DEF RegInv
<1>3. Contract!InUse(req[c])
  <2>1. PICK i \in 1..len : array[i].app = req[c].app /\ array[i].name # req[c].name
    BY <1>2, UsedByOther DEF CheckUsed
  <2>2. array[i] \in Registered
    BY EntryAt DEF RegInv
  <2> QED
    BY <2>1, <2>2 DEF Contract!InUse, Contract!Others
<1>4. Admitted' = Admitted
  BY <1>1 DEF Admitted, RegInv, TypeOK
<1>5. Registered' = Registered
  BY <1>1 DEF Registered
<1> QED
  BY <1>1, <1>3, <1>4, <1>5, WaitsIn DEF Contract!Deny, RegInv

LEMMA MissIsReleased ==
  ASSUME RegInv, NEW c \in Clients, DeleteFind(c), stage'[c] = "admitted"
  PROVE  Contract!Release(c)
<1>1. /\ stage[c] = "find" /\ stage' = [stage EXCEPT ![c] = "admitted"]
      /\ UNCHANGED <<live, array, len, req>>
      /\ \A i \in 1..seen[c] : array[i].name # req[c].name
  BY DEF DeleteFind, RegInv, TypeOK
<1>2. seen[c] = len
  BY <1>1 DEF RegInv, DeleteInv
<1>3. Registered' = Contract!Others(req[c])
  BY <1>1, <1>2 DEF Registered, Contract!Others
<1> QED
  BY <1>1, <1>3, WaitsIn, Admits DEF Contract!Release, RegInv

LEMMA RemoveIsReleased ==
  ASSUME RegInv, NEW c \in Clients, DeleteRemove(c) PROVE Contract!Release(c)
<1>1. /\ stage[c] = "remove" /\ stage' = [stage EXCEPT ![c] = "admitted"]
      /\ UNCHANGED <<live, req>>
  BY DEF DeleteRemove
<1>2. Shortened(c)
  BY ShortenedList
<1>3. \A i \in 1..len : array[i].name = req[c].name <=> i = index[c]
  BY <1>2 DEF Shortened, RegInv, RegistryUnique
<1>4. ASSUME NEW e \in Registered' PROVE e \in Contract!Others(req[c])
  <2>1. PICK i \in 1..len' : array'[i] = e
    BY DEF Registered
  <2> DEFINE j == IF i < index[c] THEN i ELSE i + 1
  <2>2. j \in 1..len /\ j # index[c] /\ e = array[j]
    BY <1>2, <2>1 DEF Shortened
  <2> QED
    BY <1>3, <2>2 DEF Contract!Others, Registered
<1>5. ASSUME NEW e \in Contract!Others(req[c]) PROVE e \in Registered'
  <2>1. PICK i \in 1..len : array[i] = e /\ i # index[c]
    BY <1>3 DEF Contract!Others, Registered
  <2> DEFINE j == IF i < index[c] THEN i ELSE i - 1
  <2>2. j \in 1..len' /\ array'[j] = e
    BY <1>2, <2>1 DEF Shortened
  <2> QED
    BY <2>2 DEF Registered
<1>6. Registered' = Contract!Others(req[c])
  BY <1>4, <1>5
<1> QED
  BY <1>1, <1>6, WaitsIn, Admits DEF Contract!Release, RegInv

LEMMA FinishIsEnd ==
  ASSUME TypeOK, NEW c \in Clients, Store(c) \/ RefuseLater(c)
  PROVE  Contract!End(c)
<1>1. /\ stage[c] = "admitted" /\ stage' = [stage EXCEPT ![c] = "idle"]
      /\ req' = [req EXCEPT ![c] = None] /\ UNCHANGED <<array, len>>
      /\ live' \in {live, [live EXCEPT ![req[c].name] = req[c].app]}
  BY DEF Store, RefuseLater, Finish
<1>2. c \in Admitted /\ Admitted' = Admitted \ {c}
  BY <1>1 DEF Admitted, TypeOK
<1>3. Registered' = Registered
  BY <1>1 DEF Registered
<1> QED
  BY <1>1, <1>2, <1>3 DEF Contract!End

LEMMA RestartIsRestart ==
  ASSUME TypeOK, Restart PROVE Contract!Restart
<1>1. len' = 0 /\ UNCHANGED live
  BY DEF Restart
<1>2. Registered' = {}
  BY <1>1 DEF Registered
<1>3. Admitted' = Admitted
  BY DEF Restart, Admitted
<1>4. req' = [c \in Clients |-> IF c \in Admitted THEN req[c] ELSE None]
  BY DEF Restart, Admitted
<1> QED
  BY <1>1, <1>2, <1>3, <1>4 DEF Contract!Restart

-----------------------------------------------------------------------------
LEMMA InitMaps == Init => Contract!Init
<1> SUFFICES ASSUME Init PROVE Contract!Init
  OBVIOUS
<1>1. Registered = {} /\ Admitted = {}
  BY DEF Init, Registered, Admitted
<1> QED
  BY <1>1 DEF Init, Contract!Init

LEMMA NextMaps ==
  ASSUME RegInv, [Next]_vars PROVE [Contract!Next]_(Contract!vars)
<1>1. CASE Restart
  BY <1>1, RestartIsRestart DEF RegInv, Contract!Next
<1>2. ASSUME NEW c \in Clients, Request(c)
      PROVE  [Contract!Next]_(Contract!vars)
  <2>1. CASE Submit(c)
    BY <2>1, SubmitAsks DEF RegInv, Contract!Next
  <2>2. CASE CheckSame(c) \/ CheckWrite(c)
    BY <2>2, SameIsGranted, WriteIsGranted DEF Contract!Next
  <2>3. CASE CheckUsed(c)
    BY <2>3, UsedIsDenied DEF Contract!Next
  <2>4. CASE CheckFree(c) \/ DeleteRead(c)
    BY <2>4, Unseen DEF CheckFree, DeleteRead, RegInv, Stages
  <2>5. CASE DeleteFind(c)
    <3>1. CASE stage'[c] = "admitted"
      BY <2>5, <3>1, MissIsReleased DEF Contract!Next
    <3>2. CASE stage'[c] # "admitted"
      <4>1. /\ UNCHANGED <<live, array, len, req>> /\ stage[c] = "find"
            /\ stage' = [stage EXCEPT ![c] = "remove"]
        BY <2>5, <3>2 DEF DeleteFind, RegInv, TypeOK
      <4> QED
        BY <4>1, Unseen DEF RegInv, Stages
    <3> QED
      BY <3>1, <3>2
  <2>6. CASE DeleteRemove(c)
    BY <2>6, RemoveIsReleased DEF Contract!Next
  <2>7. CASE Store(c) \/ RefuseLater(c)
    BY <2>7, FinishIsEnd DEF RegInv, Contract!Next
  <2> QED
    BY <1>2, <2>1, <2>2, <2>3, <2>4, <2>5, <2>6, <2>7 DEF Request
<1>3. CASE UNCHANGED vars
  BY <1>3 DEF vars, Contract!vars, Registered, Admitted
<1> QED
  BY <1>1, <1>2, <1>3 DEF Next

(* As long as deletes run alone the webhook is a register that every       *)
(* request reads and writes at one moment, however the goroutines overlap, *)
(* across restarts and refusals after admission.                           *)
THEOREM RegistryRefines == ASSUME DeletesAlone PROVE Spec => Linearizable
<1>1. RegInv /\ [Next]_vars => RegInv'
  BY RegInvNext
<1>2. RegInv /\ [Next]_vars => [Contract!Next]_(Contract!vars)
  BY NextMaps
<1> QED
  BY <1>1, <1>2, RegInvInit, InitMaps, PTL
     DEF Spec, Linearizable, Contract!Spec
=============================================================================
