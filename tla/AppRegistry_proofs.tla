-------------------------- MODULE AppRegistry_proofs --------------------------
(***************************************************************************)
(* What TLAPS proves of AppRegistry, for every set of WebServers, names    *)
(* and clients, as long as a delete is in flight on its own.               *)
(***************************************************************************)
EXTENDS AppRegistry, WellFoundedInduction, TLAPS

(* The loop of checkApplicationName stops at the first match.              *)
LEMMA LeastIndex ==
  ASSUME NEW S \in SUBSET Nat, S # {}
  PROVE  \E i \in S : \A j \in S : i <= j
<1>1. PICK i \in S : \A j \in S : ~ (<<j, i>> \in OpToRel(<, Nat))
  BY NatLessThanWellFounded, WFMin
<1>2. \A j \in S : <<j, i>> \in OpToRel(<, Nat) <=> j < i
  BY DEF OpToRel
<1>3. \A j \in S : ~ (j < i)
  BY <1>1, <1>2, Zenon
<1>4. \A j \in S : i <= j
  <2> SUFFICES ASSUME NEW j \in S PROVE i <= j
    OBVIOUS
  <2>1. i \in Nat /\ j \in Nat
    OBVIOUS
  <2>2. ~ (j < i)
    BY <1>3
  <2> QED
    BY <2>1, <2>2
<1> QED
  BY <1>4, Zenon

LEMMA FirstMatchFound ==
  ASSUME TypeOK, NEW r, Matches(r) # {}
  PROVE  FirstMatch(r) \in Matches(r) /\ FirstMatch(r) \in 1..len
<1>1. Matches(r) \in SUBSET Nat /\ Matches(r) \subseteq 1..len
  BY RegistryAssumption DEF Matches, TypeOK
<1>2. \E i \in Matches(r) : \A j \in Matches(r) : i <= j
  BY <1>1, LeastIndex
<1>3. FirstMatch(r) \in Matches(r)
  BY <1>2 DEF FirstMatch
<1> QED
  BY <1>1, <1>3

-----------------------------------------------------------------------------
(* Types do not depend on deletes running alone: some prefix of the array  *)
(* is filled with entries, and every length and index that a goroutine     *)
(* remembers lies in it, however many others have shortened the list since.*)
Filled(h) ==
    /\ len <= h
    /\ \A c \in Clients : seen[c] <= h /\ plan[c] <= h
    /\ \A i \in 1..h : array[i] \in Entries

FilledInv ==
    /\ \E h \in 0..Cap : Filled(h)
    /\ \A c \in Clients : stage[c] = "remove" => index[c] \in 1..seen[c]

(* Steps of a request that leave the array alone and remember at most the  *)
(* length of the list.                                                     *)
LEMMA FilledQuiet ==
  ASSUME TypeOK, FilledInv, NEW c \in Clients, UNCHANGED <<array, len, index>>,
         stage' \in [Clients -> Stages], stage'[c] # "remove",
         \A d \in Clients \ {c} : stage'[d] = stage[d] /\ seen'[d] = seen[d]
                                                     /\ plan'[d] = plan[d],
         seen'[c] \in {0, len, seen[c]}, plan'[c] \in {0, plan[c]} \cup 1..len
  PROVE  FilledInv'
<1>1. PICK h \in 0..Cap : Filled(h)
  BY DEF FilledInv
<1>2. len \in Nat /\ h \in Nat
  BY <1>1, RegistryAssumption DEF TypeOK
<1>3. \A d \in Clients : seen'[d] <= h /\ plan'[d] <= h
  BY <1>1, <1>2 DEF Filled
<1>4. Filled(h)'
  BY <1>1, <1>3 DEF Filled
<1> QED
  BY <1>1, <1>4 DEF FilledInv

LEMMA TypeInvRequest ==
  ASSUME TypeOK, FilledInv, NEW c \in Clients, Request(c)
  PROVE  TypeOK' /\ FilledInv'
<1> USE RegistryAssumption, NoneAssumption
<1>1. CASE Submit(c)
  <2>1. PICK r \in Requests : /\ req' = [req EXCEPT ![c] = r]
                              /\ stage' = [stage EXCEPT ![c] =
                                   IF r.op = "delete" THEN "delete" ELSE "check"]
    BY <1>1 DEF Submit
  <2>2. TypeOK'
    BY <1>1, <2>1 DEF Submit, TypeOK, Stages
  <2> QED
    BY <1>1, <2>1, <2>2, FilledQuiet DEF Submit, TypeOK
<1>2. CASE CheckSame(c)
  <2>1. TypeOK'
    BY <1>2 DEF CheckSame, TypeOK, Stages
  <2> QED
    BY <1>2, <2>1, FilledQuiet DEF CheckSame, TypeOK
<1>3. CASE CheckUsed(c)
  <2>1. TypeOK'
    BY <1>3 DEF CheckUsed, Finish, TypeOK, Stages
  <2> QED
    BY <1>3, <2>1, FilledQuiet DEF CheckUsed, Finish, TypeOK
<1>4. CASE CheckFree(c)
  <2>1. plan' = [plan EXCEPT ![c] = plan'[c]] /\ plan'[c] \in {0} \cup 1..len
    <3>1. CASE IsNew(req[c])
      BY <1>4, <3>1 DEF CheckFree, TypeOK
    <3>2. CASE ~IsNew(req[c])
      BY <1>4, <3>2, FirstMatchFound DEF CheckFree, IsRename, TypeOK
    <3> QED
      BY <3>1, <3>2
  <2>2. len \in 0..Cap /\ plan'[c] \in 0..Cap
    BY <2>1 DEF TypeOK
  <2>3. TypeOK'
    BY <1>4, <2>1, <2>2 DEF CheckFree, TypeOK, Stages
  <2> QED
    BY <1>4, <2>1, <2>3, FilledQuiet DEF CheckFree, TypeOK
<1>5. CASE CheckWrite(c)
  <2> DEFINE e == [name |-> req[c].name, app |-> req[c].app]
  <2>1. PICK h \in 0..Cap : Filled(h)
    BY DEF FilledInv
  <2>2. e \in Entries /\ len \in 0..Cap /\ plan[c] \in 0..Cap
    <3>1. req[c] \in Requests /\ req[c].op # "delete"
      BY <1>5 DEF CheckWrite, TypeOK
    <3>2. req[c].app \in Apps /\ req[c].name \in Names
      BY <3>1 DEF Requests
    <3> QED
      BY <3>2 DEF Entries, TypeOK
  <2>3. /\ stage[c] = "write" /\ stage' = [stage EXCEPT ![c] = "admitted"]
        /\ lock' = None /\ plan' = [plan EXCEPT ![c] = 0]
        /\ UNCHANGED <<live, req, seen, index, faults>>
    BY <1>5 DEF CheckWrite
  <2>4. \A d \in Clients : plan'[d] \in {0, plan[d]} /\ plan[d] \in Nat
                          /\ seen'[d] = seen[d] /\ seen[d] \in Nat
    BY <2>3 DEF TypeOK
  <2>5. \E g \in 0..Cap : Filled(g)' /\ array' \in [1..Cap -> Entries \cup {None}]
                          /\ len' \in 0..Cap
    <3>1. CASE plan[c] = 0
      <4>1. len < Cap /\ array' = [array EXCEPT ![len + 1] = e] /\ len' = len + 1
        BY <1>5, <3>1 DEF CheckWrite, Appended
      <4>2. PICK g \in 0..Cap : g = IF len + 1 <= h THEN h ELSE len + 1
        BY <2>2, <4>1
      <4>3. \A i \in 1..g : array'[i] \in Entries
        BY <2>1, <2>2, <4>1, <4>2 DEF Filled, TypeOK
      <4>4. array' \in [1..Cap -> Entries \cup {None}]
        BY <2>2, <4>1 DEF TypeOK
      <4>5. len' <= g /\ \A d \in Clients : seen'[d] <= g /\ plan'[d] <= g
        BY <2>1, <2>2, <2>4, <4>1, <4>2 DEF Filled
      <4>6. Filled(g)'
        BY <4>3, <4>5 DEF Filled
      <4> QED
        BY <2>2, <4>1, <4>4, <4>6
    <3>2. CASE plan[c] # 0
      <4>1. array' = [array EXCEPT ![plan[c]].app = e.app] /\ len' = len
        BY <1>5, <3>2 DEF CheckWrite
      <4>2. plan[c] \in 1..h /\ array[plan[c]] \in Entries
        BY <2>1, <2>2, <3>2 DEF Filled
      <4>3. [array[plan[c]] EXCEPT !.app = e.app] \in Entries
        BY <2>2, <4>2 DEF Entries
      <4>4. /\ \A i \in 1..h : array'[i] \in Entries
            /\ array' \in [1..Cap -> Entries \cup {None}]
        BY <2>1, <4>1, <4>2, <4>3 DEF Filled, TypeOK
      <4>5. len' <= h /\ \A d \in Clients : seen'[d] <= h /\ plan'[d] <= h
        BY <2>1, <2>2, <2>4, <4>1 DEF Filled
      <4>6. Filled(h)'
        BY <4>4, <4>5 DEF Filled
      <4> QED
        BY <2>1, <2>2, <4>1, <4>4, <4>6
    <3> QED
      BY <3>1, <3>2
  <2>6. \A i \in 1..len' : array'[i] \in Entries
    BY <2>5 DEF Filled
  <2>7. /\ stage' \in [Clients -> Stages]
        /\ \A d \in Clients : stage'[d] = IF d = c THEN "admitted" ELSE stage[d]
    BY <2>3 DEF TypeOK, Stages
  <2>8. /\ \A d \in Clients : stage'[d] = "idle" <=> req'[d] = None
        /\ \A d \in Clients :
             /\ stage'[d] \in {"check", "write"} => req'[d].op # "delete"
             /\ stage'[d] \in {"delete", "find", "remove"} => req'[d].op = "delete"
    BY <2>3, <2>7 DEF TypeOK
  <2>9. plan' \in [Clients -> 0..Cap]
    BY <2>2, <2>3 DEF TypeOK
  <2>10. TypeOK'
    BY <2>3, <2>5, <2>6, <2>7, <2>8, <2>9 DEF TypeOK
  <2> QED
    BY <2>3, <2>5, <2>10 DEF FilledInv, TypeOK
<1>6. CASE DeleteRead(c)
  <2>1. TypeOK'
    BY <1>6 DEF DeleteRead, TypeOK, Stages
  <2> QED
    BY <1>6, <2>1, FilledQuiet DEF DeleteRead, TypeOK
<1>7. CASE DeleteFind(c)
  <2> DEFINE found == {i \in 1..seen[c] : array[i].name = req[c].name}
  <2>1. CASE found = {}
    <3>1. /\ stage' = [stage EXCEPT ![c] = "admitted"] /\ stage[c] = "find"
          /\ seen' = [seen EXCEPT ![c] = 0]
          /\ UNCHANGED <<live, array, len, lock, req, plan, index, faults>>
      BY <1>7, <2>1 DEF DeleteFind
    <3>2. TypeOK'
      BY <3>1 DEF TypeOK, Stages
    <3> QED
      BY <3>1, <3>2, FilledQuiet DEF TypeOK
  <2>2. CASE found # {}
    <3>1. found \in SUBSET Nat /\ found \subseteq 1..seen[c]
      BY DEF TypeOK
    <3>2. \E i \in found : \A j \in found : i <= j
      BY <2>2, <3>1, LeastIndex
    <3>3. (CHOOSE i \in found : \A j \in found : i <= j) \in found
      BY <3>2
    <3>4. /\ index' = [index EXCEPT ![c] = index'[c]] /\ index'[c] \in found
          /\ stage' = [stage EXCEPT ![c] = "remove"]
          /\ stage[c] = "find"
          /\ UNCHANGED <<live, array, len, lock, req, plan, seen, faults>>
      BY <1>7, <2>2, <3>3 DEF DeleteFind, TypeOK
    <3>5. index'[c] \in 1..seen[c] /\ index'[c] \in 0..Cap
      BY <3>1, <3>4 DEF TypeOK
    <3> HIDE DEF found
    <3>6. TypeOK'
      BY <3>4, <3>5 DEF TypeOK, Stages
    <3>7. FilledInv'
      BY <3>4, <3>5 DEF FilledInv, Filled, TypeOK
    <3> QED
      BY <3>6, <3>7
  <2> QED
    BY <2>1, <2>2
<1>8. CASE DeleteRemove(c)
  <2>1. PICK h \in 0..Cap : Filled(h)
    BY DEF FilledInv
  <2>2. /\ index[c] \in 1..seen[c] /\ seen[c] \in 1..h
        /\ stage[c] = "remove"
    BY <1>8, <2>1 DEF DeleteRemove, FilledInv, Filled, TypeOK
  <2>3. /\ len' = seen[c] - 1
        /\ stage' = [stage EXCEPT ![c] = "admitted"]
        /\ seen' = [seen EXCEPT ![c] = 0] /\ index' = [index EXCEPT ![c] = 0]
        /\ UNCHANGED <<live, lock, req, plan, faults>>
    BY <1>8 DEF DeleteRemove, ShorterLen
  <2>4. array' = [i \in 1..Cap |-> IF i >= index[c] /\ i < seen[c]
                                   THEN array[i + 1] ELSE array[i]]
    BY <1>8 DEF DeleteRemove
  <2>5. /\ \A i \in 1..h : array'[i] \in Entries
        /\ array' \in [1..Cap -> Entries \cup {None}]
    BY <2>1, <2>2, <2>4 DEF Filled, TypeOK
  <2>6. len' <= h /\ len' \in 0..Cap
    BY <2>2, <2>3
  <2>7. \A d \in Clients : seen'[d] <= h /\ plan'[d] <= h
    BY <2>1, <2>3 DEF Filled, TypeOK
  <2>8. Filled(h)'
    BY <2>5, <2>6, <2>7 DEF Filled
  <2>9. TypeOK'
    BY <2>2, <2>3, <2>5, <2>6 DEF TypeOK, Stages
  <2> QED
    BY <2>1, <2>3, <2>8, <2>9 DEF FilledInv, TypeOK
<1>9. CASE Store(c)
  <2>1. req[c] \in Requests
    BY <1>9 DEF Store, TypeOK
  <2>2. req[c].app \in Apps \cup {None}
    BY <2>1 DEF Requests
  <2>3. TypeOK'
    BY <1>9, <2>2 DEF Store, Finish, TypeOK, Stages
  <2> QED
    BY <1>9, <2>3, FilledQuiet DEF Store, Finish, TypeOK
<1>10. CASE RefuseLater(c)
  <2>1. TypeOK'
    BY <1>10 DEF RefuseLater, Fault, Finish, TypeOK, Stages
  <2> QED
    BY <1>10, <2>1, FilledQuiet DEF RefuseLater, Finish, TypeOK
<1> QED
  BY <1>1, <1>2, <1>3, <1>4, <1>5, <1>6, <1>7, <1>8, <1>9, <1>10 DEF Request

LEMMA TypeInvRestart ==
  ASSUME TypeOK, FilledInv, Restart PROVE TypeOK' /\ FilledInv'
<1> USE RegistryAssumption
<1>1. /\ UNCHANGED <<live, array>> /\ len' = 0 /\ lock' = None
      /\ plan' = [c \in Clients |-> 0]
      /\ seen' = [c \in Clients |-> 0] /\ index' = [c \in Clients |-> 0]
      /\ faults' = faults + 1
  BY DEF Restart, Fault
<1>2. /\ stage' \in [Clients -> {"idle", "admitted"}]
      /\ req' \in [Clients -> Requests \cup {None}]
      /\ \A c \in Clients :
           IF stage[c] = "admitted"
           THEN stage'[c] = "admitted" /\ req'[c] = req[c]
           ELSE stage'[c] = "idle" /\ req'[c] = None
  BY DEF Restart, TypeOK, Stages
<1>3. TypeOK'
  <2>1. /\ plan' \in [Clients -> 0..Cap] /\ seen' \in [Clients -> 0..Cap]
        /\ index' \in [Clients -> 0..Cap] /\ stage' \in [Clients -> Stages]
    BY <1>1, <1>2 DEF Stages
  <2>2. \A c \in Clients : stage'[c] = "idle" <=> req'[c] = None
    BY <1>2 DEF TypeOK
  <2>3. faults' \in Nat /\ len' \in 0..Cap
    BY <1>1 DEF TypeOK
  <2>4. \A i \in 1..len' : array'[i] \in Entries
    BY <1>1
  <2>5. \A c \in Clients : stage'[c] \in {"idle", "admitted"}
    BY <1>2
  <2>6. /\ live' \in [Names -> Apps \cup {None}]
        /\ array' \in [1..Cap -> Entries \cup {None}]
        /\ lock' \in Clients \cup {None}
    BY <1>1 DEF TypeOK
  <2> QED
    BY <1>2, <2>1, <2>2, <2>3, <2>4, <2>5, <2>6 DEF TypeOK
<1>4. FilledInv'
  <2>1. PICK h \in 0..Cap : Filled(h)
    BY DEF FilledInv
  <2>2. Filled(h)'
    BY <1>1, <2>1 DEF Filled
  <2>3. \A c \in Clients : stage'[c] # "remove"
    BY <1>2
  <2> QED
    BY <2>1, <2>2, <2>3 DEF FilledInv
<1> QED
  BY <1>3, <1>4

LEMMA TypeInvNext ==
  ASSUME TypeOK, FilledInv, [Next]_vars PROVE TypeOK' /\ FilledInv'
<1>1. CASE UNCHANGED vars
  BY <1>1 DEF vars, TypeOK, FilledInv, Filled
<1> QED
  BY <1>1, TypeInvRequest, TypeInvRestart DEF Next

LEMMA TypeInvInit == Init => TypeOK /\ FilledInv
<1> SUFFICES ASSUME Init PROVE TypeOK /\ FilledInv
  OBVIOUS
<1>1. TypeOK
  BY RegistryAssumption DEF Init, TypeOK, Stages
<1>2. Filled(0)
  BY DEF Init, Filled
<1> QED
  BY <1>1, <1>2, RegistryAssumption DEF Init, FilledInv

(* The registry's indices stay within the array and find an entry there,   *)
(* however requests overlap, deletes included: what a goroutine remembers  *)
(* of a list that others shorten may be stale, but is no panic.            *)
THEOREM RegistryTypeCorrect == Spec => []TypeOK
<1>1. TypeOK /\ FilledInv /\ [Next]_vars => TypeOK' /\ FilledInv'
  BY TypeInvNext
<1> QED
  BY <1>1, TypeInvInit, PTL DEF Spec

-----------------------------------------------------------------------------
(* The invariant behind the lock: who writes the list holds it, ...        *)
LockInv == \A c \in Clients : stage[c] = "write" <=> lock = c

(* ... a delete, which does not take it, has nobody beside it, so that the *)
(* slice it looked at is still the list, ...                               *)
DeleteInv ==
    \A c \in Clients :
      /\ stage[c] # "idle" /\ req[c].op = "delete"
           => \A d \in Clients \ {c} : stage[d] = "idle"
      /\ stage[c] \in {"find", "remove"} => seen[c] = len
      /\ stage[c] = "remove" => /\ index[c] \in 1..len
                                /\ array[index[c]].name = req[c].name

(* ... and what a check decided still fits the list when it writes.        *)
PlanFits(r, p) ==
    IF p = 0 THEN Matches(r) = {}
             ELSE p \in 1..len /\ array[p].name = r.name /\ ~Taken(r)

PlanInv == \A c \in Clients : stage[c] = "write" => PlanFits(req[c], plan[c])

RegInv == TypeOK /\ FilledInv /\ LockInv /\ DeleteInv /\ PlanInv /\ RegistryUnique

(* Steps that leave the list alone.                                        *)
LEMMA RegInvQuiet ==
  ASSUME DeletesAlone, RegInv, NEW c \in Clients,
         \/ Submit(c) \/ CheckSame(c) \/ CheckUsed(c) \/ DeleteRead(c)
         \/ Store(c) \/ RefuseLater(c)
  PROVE  RegInv'
<1> USE RegistryAssumption, NoneAssumption
<1>1. UNCHANGED <<array, len, lock, plan, index>>
  BY DEF Submit, CheckSame, CheckUsed, DeleteRead, Store, RefuseLater
<1>2. /\ \A d \in Clients \ {c} : stage'[d] = stage[d] /\ req'[d] = req[d]
                                  /\ seen'[d] = seen[d]
      /\ stage[c] # "write" /\ stage'[c] \notin {"write", "remove"}
  BY DEF Submit, CheckSame, CheckUsed, DeleteRead, Store, RefuseLater, Finish,
         RegInv, TypeOK
<1>3. TypeOK' /\ FilledInv'
  BY TypeInvRequest DEF Request, RegInv
<1>4. LockInv'
  BY <1>1, <1>2 DEF LockInv, RegInv
<1>5. DeleteInv'
  <2>1. CASE Submit(c)
    <3>1. \A d \in Clients \ {c} : stage[d] # "idle" =>
            req[d].op # "delete" /\ req'[c].op # "delete"
      BY <2>1 DEF Submit, Allowed, InFlight, RegInv, TypeOK
    <3>2. stage'[c] \in {"delete", "check"} /\ UNCHANGED seen
      BY <2>1 DEF Submit, RegInv, TypeOK
    <3> QED
      BY <1>1, <1>2, <3>1, <3>2 DEF RegInv, DeleteInv
  <2>2. CASE DeleteRead(c)
    BY <1>1, <1>2, <2>2 DEF DeleteRead, RegInv, DeleteInv, TypeOK
  <2>3. CASE CheckSame(c) \/ CheckUsed(c) \/ Store(c) \/ RefuseLater(c)
    <3>1. /\ UNCHANGED seen /\ stage[c] # "idle"
          /\ stage'[c] \in {"idle", "admitted"}
          /\ stage'[c] = "idle" \/ req'[c] = req[c]
      BY <2>3 DEF CheckSame, CheckUsed, Store, RefuseLater, Finish, RegInv,
                  TypeOK
    <3> QED
      BY <1>1, <1>2, <3>1 DEF RegInv, DeleteInv
  <2> QED
    BY <2>1, <2>2, <2>3
<1>6. PlanInv'
  BY <1>1, <1>2 DEF RegInv, PlanInv, PlanFits, Matches, Taken
<1>7. RegistryUnique'
  BY <1>1 DEF RegInv, RegistryUnique
<1> QED
  BY <1>3, <1>4, <1>5, <1>6, <1>7 DEF RegInv

(* Taking the lock: nobody has it, and the decision fits the list.         *)
LEMMA RegInvCheckFree ==
  ASSUME RegInv, NEW c \in Clients, CheckFree(c)
  PROVE  RegInv'
<1> USE RegistryAssumption
<1>1. /\ UNCHANGED <<live, array, len, req, seen, index, faults>>
      /\ stage[c] = "check" /\ stage' = [stage EXCEPT ![c] = "write"]
      /\ lock = None /\ lock' = c
      /\ plan' = [plan EXCEPT ![c] = IF IsNew(req[c]) THEN 0
                                                      ELSE FirstMatch(req[c])]
  BY DEF CheckFree, LockFree
<1>2. PlanFits(req[c], plan'[c]) /\ plan'[c] \in 0..Cap
  <2>1. CASE IsNew(req[c])
    BY <1>1, <2>1 DEF IsNew, PlanFits, RegInv, TypeOK
  <2>2. CASE ~IsNew(req[c])
    <3>1. IsRename(req[c])
      BY <2>2 DEF CheckFree
    <3>2. FirstMatch(req[c]) \in 1..len
      BY <3>1, FirstMatchFound DEF IsRename, RegInv
    <3>3. plan'[c] = FirstMatch(req[c])
      BY <1>1, <2>2 DEF RegInv, TypeOK
    <3> QED
      BY <3>1, <3>2, <3>3 DEF IsRename, PlanFits, RegInv, TypeOK
  <2> QED
    BY <2>1, <2>2
<1>3. TypeOK' /\ FilledInv'
  BY TypeInvRequest DEF Request, RegInv
<1>4. LockInv'
  BY <1>1 DEF RegInv, LockInv, TypeOK
<1>5. DeleteInv'
  BY <1>1 DEF RegInv, DeleteInv, TypeOK
<1>6. PlanInv'
  BY <1>1, <1>2 DEF RegInv, PlanInv, PlanFits, Matches, Taken, TypeOK
<1>7. RegistryUnique'
  BY <1>1 DEF RegInv, RegistryUnique
<1> QED
  BY <1>3, <1>4, <1>5, <1>6, <1>7 DEF RegInv

(* What a write makes of the list: an entry more, or one renamed.          *)
NewEntry(c) == [name |-> req[c].name, app |-> req[c].app]

AppendsEntry(c) ==
    /\ len' = len + 1 /\ len' \in 1..Cap /\ array'[len'] = NewEntry(c)
    /\ \A i \in 1..len : array'[i] = array[i]
    /\ Matches(req[c]) = {}

RenamesEntry(c) ==
    /\ len' = len /\ plan[c] \in 1..len /\ ~Taken(req[c])
    /\ array[plan[c]].name = req[c].name
    /\ array'[plan[c]] = NewEntry(c)
    /\ \A i \in 1..len \ {plan[c]} : array'[i] = array[i]

Written(c) ==
    /\ NewEntry(c) \in Entries
    /\ AppendsEntry(c) \/ RenamesEntry(c)
    /\ array' \in [1..Cap -> Entries \cup {None}]

LEMMA WrittenList ==
  ASSUME RegInv, NEW c \in Clients, CheckWrite(c)
  PROVE  Written(c)
<1> USE RegistryAssumption
<1>1. /\ req[c] \in Requests /\ req[c].op # "delete" /\ len \in 0..Cap
      /\ PlanFits(req[c], plan[c])
  BY DEF CheckWrite, RegInv, TypeOK, PlanInv
<1>2. req[c].app \in Apps /\ req[c].name \in Names
  BY <1>1 DEF Requests
<1>3. CASE plan[c] = 0
  <2>1. len < Cap /\ array' = Appended([name |-> req[c].name, app |-> req[c].app])
        /\ len' = len + 1
    BY <1>3 DEF CheckWrite
  <2> QED
    BY <1>1, <1>2, <1>3, <2>1
       DEF Appended, PlanFits, RegInv, TypeOK, Entries, Written, NewEntry,
           AppendsEntry
<1>4. CASE plan[c] # 0
  <2>1. array' = [array EXCEPT ![plan[c]].app = req[c].app] /\ len' = len
    BY <1>4 DEF CheckWrite
  <2>2. plan[c] \in 1..len /\ array[plan[c]] \in Entries
    BY <1>1, <1>4 DEF PlanFits, RegInv, TypeOK
  <2>3. array' = [array EXCEPT ![plan[c]] = [name |-> req[c].name, app |-> req[c].app]]
    <3>1. [array[plan[c]] EXCEPT !.app = req[c].app]
            = [name |-> req[c].name, app |-> req[c].app]
      BY <1>1, <1>4, <2>2 DEF PlanFits, Entries
    <3> QED
      BY <2>1, <3>1
  <2> QED
    BY <1>1, <1>2, <1>4, <2>1, <2>2, <2>3
       DEF PlanFits, RegInv, TypeOK, Entries, Written, NewEntry, RenamesEntry
<1> QED
  BY <1>1, <1>2, <1>3, <1>4

LEMMA RegInvCheckWrite ==
  ASSUME RegInv, NEW c \in Clients, CheckWrite(c)
  PROVE  RegInv'
<1> USE RegistryAssumption
<1>1. /\ UNCHANGED <<live, req, seen, index, faults>> /\ lock' = None
      /\ stage[c] = "write" /\ stage' = [stage EXCEPT ![c] = "admitted"]
      /\ plan' = [plan EXCEPT ![c] = 0]
  BY DEF CheckWrite
<1>2. \A d \in Clients \ {c} : stage[d] # "write"
  BY <1>1 DEF RegInv, LockInv
<1>3. \A d \in Clients : req[d].op = "delete" => stage[d] = "idle"
  BY <1>1 DEF RegInv, DeleteInv, TypeOK
<1>0. Written(c)
  BY WrittenList
<1>4. TypeOK' /\ FilledInv'
  BY TypeInvRequest DEF Request, RegInv
<1>5. LockInv'
  BY <1>1, <1>2 DEF RegInv, LockInv, TypeOK
<1>6. DeleteInv'
  BY <1>1, <1>3 DEF RegInv, DeleteInv, TypeOK
<1>7. PlanInv'
  BY <1>1, <1>2 DEF RegInv, PlanInv, TypeOK
<1>8. RegistryUnique'
  <2> SUFFICES ASSUME NEW i \in 1..len', NEW j \in 1..len', i # j
               PROVE  array'[i].name # array'[j].name /\ array'[i].app # array'[j].app
    BY DEF RegistryUnique
  <2>1. NewEntry(c).name = req[c].name /\ NewEntry(c).app = req[c].app
    BY DEF NewEntry
  <2>2. len \in Nat /\ \A k, l \in 1..len : k # l =>
           array[k].name # array[l].name /\ array[k].app # array[l].app
    BY DEF RegInv, RegistryUnique, TypeOK
  <2>3. CASE AppendsEntry(c)
    <3>1. \A k \in 1..len : array[k].name # req[c].name /\ array[k].app # req[c].app
      BY <2>3 DEF AppendsEntry, Matches
    <3>2. /\ i \in 1..len \/ (i = len' /\ array'[i] = NewEntry(c))
          /\ j \in 1..len \/ (j = len' /\ array'[j] = NewEntry(c))
      BY <2>2, <2>3 DEF AppendsEntry
    <3> QED
      BY <2>1, <2>2, <2>3, <3>1, <3>2 DEF AppendsEntry
  <2>4. CASE RenamesEntry(c)
    <3>1. i \in 1..len /\ j \in 1..len /\ plan[c] \in 1..len
      BY <2>4 DEF RenamesEntry
    <3>2. \A k \in 1..len : array[k].app # req[c].app
      BY <2>4 DEF RenamesEntry, Taken
    <3>3. CASE i = plan[c]
      BY <2>1, <2>2, <2>4, <3>1, <3>2, <3>3 DEF RenamesEntry
    <3>4. CASE j = plan[c]
      BY <2>1, <2>2, <2>4, <3>1, <3>2, <3>4 DEF RenamesEntry
    <3>5. CASE i # plan[c] /\ j # plan[c]
      BY <2>2, <2>4, <3>1, <3>5 DEF RenamesEntry
    <3> QED
      BY <3>3, <3>4, <3>5
  <2> QED
    BY <1>0, <2>3, <2>4 DEF Written
<1> QED
  BY <1>4, <1>5, <1>6, <1>7, <1>8 DEF RegInv

LEMMA RegInvDeleteFind ==
  ASSUME RegInv, NEW c \in Clients, DeleteFind(c)
  PROVE  RegInv'
<1> USE RegistryAssumption
<1> DEFINE found == {i \in 1..seen[c] : array[i].name = req[c].name}
<1>1. /\ UNCHANGED <<live, array, len, lock, req, plan, faults>>
      /\ stage[c] = "find" /\ seen[c] = len
      /\ req[c] # None /\ req[c].op = "delete"
  BY DEF DeleteFind, RegInv, DeleteInv, TypeOK
<1>2. /\ \A d \in Clients \ {c} : /\ stage'[d] = stage[d] /\ seen'[d] = seen[d]
                                  /\ index'[d] = index[d]
      /\ stage'[c] \in {"admitted", "remove"}
  BY DEF DeleteFind, RegInv, TypeOK
<1>3. stage'[c] = "remove" => /\ seen'[c] = len /\ index'[c] \in 1..len
                              /\ array[index'[c]].name = req[c].name
  <2>1. CASE found = {}
    BY <1>1, <2>1 DEF DeleteFind, RegInv, TypeOK
  <2>2. CASE found # {}
    <3>1. found \in SUBSET Nat /\ found \subseteq 1..len
      BY <1>1 DEF RegInv, TypeOK
    <3>2. \E i \in found : \A j \in found : i <= j
      BY <2>2, <3>1, LeastIndex
    <3>3. (CHOOSE i \in found : \A j \in found : i <= j) \in found
      BY <3>2
    <3>4. index'[c] \in found /\ UNCHANGED seen
      BY <2>2, <3>3 DEF DeleteFind, RegInv, TypeOK
    <3> QED
      BY <1>1, <3>1, <3>4
  <2> QED
    BY <2>1, <2>2
<1>4. TypeOK' /\ FilledInv'
  BY TypeInvRequest DEF Request, RegInv
<1>5. LockInv' /\ PlanInv' /\ RegistryUnique'
  BY <1>1, <1>2 DEF RegInv, LockInv, PlanInv, PlanFits, Matches, Taken,
                    RegistryUnique
<1>6. DeleteInv'
  BY <1>1, <1>2, <1>3 DEF RegInv, DeleteInv
<1> QED
  BY <1>4, <1>5, <1>6 DEF RegInv

(* The list after a delete: the entries behind it moved down.              *)
Shortened(c) ==
    /\ len \in 1..Cap /\ len' = len - 1 /\ index[c] \in 1..len
    /\ array[index[c]].name = req[c].name
    /\ array' \in [1..Cap -> Entries \cup {None}]
    /\ \A i \in 1..len' : array'[i] = array[IF i < index[c] THEN i ELSE i + 1]

LEMMA ShortenedList ==
  ASSUME RegInv, NEW c \in Clients, DeleteRemove(c)
  PROVE  Shortened(c)
<1>1. /\ seen[c] = len /\ index[c] \in 1..len /\ len \in 0..Cap
      /\ array[index[c]].name = req[c].name
  BY DEF DeleteRemove, RegInv, DeleteInv, TypeOK
<1>2. /\ array' = [i \in 1..Cap |-> IF i >= index[c] /\ i < len
                                   THEN array[i + 1] ELSE array[i]]
      /\ len' = len - 1
  BY <1>1 DEF DeleteRemove, ShorterLen
<1>3. array' \in [1..Cap -> Entries \cup {None}]
  BY <1>1, <1>2, RegistryAssumption DEF RegInv, TypeOK
<1> QED
  BY <1>1, <1>2, <1>3, RegistryAssumption DEF Shortened

LEMMA RegInvDeleteRemove ==
  ASSUME RegInv, NEW c \in Clients, DeleteRemove(c)
  PROVE  RegInv'
<1> USE RegistryAssumption
<1>1. /\ UNCHANGED <<live, lock, req, plan, faults>> /\ stage[c] = "remove"
      /\ stage' = [stage EXCEPT ![c] = "admitted"]
      /\ seen' = [seen EXCEPT ![c] = 0] /\ index' = [index EXCEPT ![c] = 0]
  BY DEF DeleteRemove
<1>2. Shortened(c)
  BY ShortenedList
<1>3. \A d \in Clients \ {c} : stage[d] = "idle"
  BY <1>1 DEF RegInv, DeleteInv, TypeOK
<1>4. TypeOK' /\ FilledInv'
  BY TypeInvRequest DEF Request, RegInv
<1>5. LockInv' /\ PlanInv' /\ DeleteInv'
  BY <1>1, <1>3 DEF RegInv, LockInv, PlanInv, DeleteInv, TypeOK
<1>6. RegistryUnique'
  BY <1>2 DEF Shortened, RegInv, RegistryUnique
<1> QED
  BY <1>4, <1>5, <1>6 DEF RegInv

LEMMA RegInvRestart == ASSUME RegInv, Restart PROVE RegInv'
<1> USE RegistryAssumption
<1>1. /\ UNCHANGED <<live, array>> /\ len' = 0 /\ lock' = None
      /\ plan' = [c \in Clients |-> 0]
      /\ seen' = [c \in Clients |-> 0] /\ index' = [c \in Clients |-> 0]
      /\ faults' = faults + 1
  BY DEF Restart, Fault
<1>2. /\ stage' \in [Clients -> {"idle", "admitted"}]
      /\ req' \in [Clients -> Requests \cup {None}]
      /\ \A c \in Clients :
           IF stage[c] = "admitted"
           THEN stage'[c] = "admitted" /\ req'[c] = req[c]
           ELSE stage'[c] = "idle" /\ req'[c] = None
  BY DEF Restart, RegInv, TypeOK, Stages
<1>3. TypeOK' /\ FilledInv'
  BY TypeInvNext DEF Next, RegInv
<1>4. LockInv' /\ PlanInv' /\ RegistryUnique'
  BY <1>1, <1>2 DEF LockInv, PlanInv, RegistryUnique
<1>5. DeleteInv'
  BY <1>1, <1>2 DEF RegInv, DeleteInv
<1> QED
  BY <1>3, <1>4, <1>5 DEF RegInv

LEMMA RegInvNext == ASSUME DeletesAlone, RegInv, [Next]_vars PROVE RegInv'
<1>1. CASE Restart
  BY <1>1, RegInvRestart
<1>2. ASSUME NEW c \in Clients, Request(c) PROVE RegInv'
  BY <1>2, RegInvQuiet, RegInvCheckFree, RegInvCheckWrite, RegInvDeleteFind,
     RegInvDeleteRemove DEF Request
<1>3. CASE UNCHANGED vars
  BY <1>3, TypeInvNext DEF vars, RegInv, LockInv, DeleteInv, PlanInv, PlanFits,
              Matches, Taken, RegistryUnique
<1> QED
  BY <1>1, <1>2, <1>3 DEF Next

LEMMA RegInvInit == Init => RegInv
<1> SUFFICES ASSUME Init PROVE RegInv
  OBVIOUS
<1>1. TypeOK /\ FilledInv
  BY TypeInvInit
<1>2. LockInv /\ DeleteInv /\ PlanInv /\ RegistryUnique
  BY RegistryAssumption DEF Init, LockInv, DeleteInv, PlanInv, RegistryUnique
<1> QED
  BY <1>1, <1>2 DEF RegInv

(* However checkApplicationName calls overlap, and across restarts, the    *)
(* list never holds a WebServer or an application name twice, as long as   *)
(* ValidateDelete runs alone.                                              *)
THEOREM RegistryUniqueCorrect ==
  ASSUME DeletesAlone PROVE Spec => []RegistryUnique
<1>1. RegInv => RegistryUnique
  BY DEF RegInv
<1>2. RegInv /\ [Next]_vars => RegInv'
  BY RegInvNext
<1> QED
  BY <1>1, <1>2, RegInvInit, PTL DEF Spec

-----------------------------------------------------------------------------
(* Two requests for one WebServer never overlap.                           *)
SerialInv ==
    \A c, d \in Clients :
      c # d /\ stage[c] # "idle" /\ stage[d] # "idle"
        => req[c].name # req[d].name

(* Until the first fault the list has an entry for every stored WebServer  *)
(* that no admitted request is about to change, and for every admitted     *)
(* request that is about to be stored.                                     *)
Lists(n, a) == \E i \in 1..len : array[i].name = n /\ array[i].app = a

Untouched(n) == \A c \in Clients : stage[c] = "admitted" => req[c].name # n

FaithInv ==
    faults = 0 =>
      /\ \A n \in Names : live[n] # None /\ Untouched(n) => Lists(n, live[n])
      /\ \A c \in Clients : stage[c] = "admitted" /\ req[c].op # "delete"
                              => Lists(req[c].name, req[c].app)

LEMMA SerialInvNext ==
  ASSUME RegInv, SerialInv, [Next]_vars PROVE SerialInv'
<1>1. CASE Restart
  <2>1. \A c \in Clients : stage'[c] # "idle" =>
           stage[c] # "idle" /\ req'[c] = req[c]
    BY <1>1 DEF Restart, RegInv, TypeOK
  <2> QED
    BY <2>1 DEF SerialInv
<1>2. ASSUME NEW c \in Clients, Submit(c) PROVE SerialInv'
  BY <1>2 DEF Submit, Allowed, InFlight, SerialInv, RegInv, TypeOK
<1>3. ASSUME NEW c \in Clients, Request(c), ~Submit(c) PROVE SerialInv'
  <2>1. /\ \A d \in Clients \ {c} : stage'[d] = stage[d] /\ req'[d] = req[d]
        /\ stage[c] # "idle"
        /\ stage'[c] = "idle" \/ req'[c] = req[c]
    BY <1>3 DEF Request, CheckSame, CheckUsed, CheckFree, CheckWrite,
                DeleteRead, DeleteFind, DeleteRemove, Store, RefuseLater,
                Finish, RegInv, TypeOK
  <2> QED
    BY <2>1 DEF SerialInv
<1>4. CASE UNCHANGED vars
  BY <1>4 DEF vars, SerialInv
<1> QED
  BY <1>1, <1>2, <1>3, <1>4 DEF Next

LEMMA FaithInvNext ==
  ASSUME RegInv, SerialInv, FaithInv, [Next]_vars PROVE FaithInv'
<1>1. CASE Restart
  BY <1>1 DEF Restart, Fault, FaithInv, RegInv, TypeOK
<1>2. ASSUME NEW c \in Clients, Submit(c) \/ CheckUsed(c) \/ CheckFree(c)
                                \/ DeleteRead(c) \/ DeleteFind(c)
      PROVE  FaithInv'
  <2>1. /\ UNCHANGED <<live, array, len, faults>>
        /\ \A d \in Clients : stage[d] = "admitted" =>
                                stage'[d] = "admitted" /\ req'[d] = req[d]
        /\ \A d \in Clients : stage'[d] = "admitted" /\ stage[d] # "admitted"
             => req'[d].op = "delete" /\ req'[d] = req[d]
    BY <1>2 DEF Submit, CheckUsed, CheckFree, DeleteRead, DeleteFind, Finish,
                RegInv, TypeOK
  <2> QED
    BY <2>1 DEF FaithInv, Untouched, Lists
<1>3. ASSUME NEW c \in Clients, CheckSame(c) PROVE FaithInv'
  <2>1. Lists(req[c].name, req[c].app)
    <3>1. FirstMatch(req[c]) \in 1..len
      BY <1>3, FirstMatchFound DEF CheckSame, IsSame, RegInv
    <3>2. array[FirstMatch(req[c])] = [name |-> req[c].name, app |-> req[c].app]
      BY <1>3 DEF CheckSame, IsSame
    <3> QED
      BY <3>1, <3>2 DEF Lists
  <2>2. /\ UNCHANGED <<live, array, len, req, faults>>
        /\ \A d \in Clients : stage'[d] = IF d = c THEN "admitted" ELSE stage[d]
    BY <1>3 DEF CheckSame, RegInv, TypeOK
  <2> QED
    BY <2>1, <2>2 DEF FaithInv, Untouched, Lists
<1>4. ASSUME NEW c \in Clients, CheckWrite(c) PROVE FaithInv'
  <2>1. Written(c)
    BY <1>4, WrittenList
  <2>2. /\ UNCHANGED <<live, req, faults>> /\ stage[c] = "write"
        /\ stage' = [stage EXCEPT ![c] = "admitted"]
    BY <1>4 DEF CheckWrite
  <2>3. Lists(req[c].name, req[c].app)'
    <3>1. \E i \in 1..len' : array'[i] = NewEntry(c)
      BY <2>1 DEF Written, AppendsEntry, RenamesEntry
    <3> QED
      BY <2>2, <3>1 DEF Lists, NewEntry
  <2>4. ASSUME NEW n, NEW a, n # req[c].name, Lists(n, a) PROVE Lists(n, a)'
    <3>1. PICK i \in 1..len : array[i].name = n /\ array[i].app = a
      BY <2>4 DEF Lists
    <3>2. array'[i] = array[i] /\ i \in 1..len'
      BY <2>1, <2>4, <3>1
         DEF Written, AppendsEntry, RenamesEntry, RegInv, TypeOK
    <3> QED
      BY <3>1, <3>2 DEF Lists
  <2>5. \A d \in Clients \ {c} : stage[d] = "admitted" => req[d].name # req[c].name
    BY <2>2 DEF SerialInv
  <2>6. \A d \in Clients : stage'[d] = IF d = c THEN "admitted" ELSE stage[d]
    BY <2>2 DEF RegInv, TypeOK
  <2> QED
    BY <2>2, <2>3, <2>4, <2>5, <2>6 DEF FaithInv, Untouched
<1>5. ASSUME NEW c \in Clients, DeleteRemove(c) PROVE FaithInv'
  <2>1. Shortened(c)
    BY <1>5, ShortenedList
  <2>2. /\ UNCHANGED <<live, req, faults>> /\ req[c].op = "delete"
        /\ \A d \in Clients : stage'[d] = IF d = c THEN "admitted" ELSE stage[d]
        /\ \A d \in Clients \ {c} : stage[d] = "idle"
    BY <1>5 DEF DeleteRemove, RegInv, DeleteInv, TypeOK
  <2>3. ASSUME NEW n, NEW a, n # req[c].name, Lists(n, a) PROVE Lists(n, a)'
    <3>1. PICK i \in 1..len : array[i].name = n /\ array[i].app = a
      BY <2>3 DEF Lists
    <3> DEFINE j == IF i < index[c] THEN i ELSE i - 1
    <3>2. i # index[c]
      BY <2>1, <2>3, <3>1 DEF Shortened
    <3>3. j \in 1..len' /\ array'[j] = array[i]
      BY <2>1, <3>1, <3>2 DEF Shortened
    <3> QED
      BY <3>1, <3>3 DEF Lists
  <2> QED
    BY <2>2, <2>3 DEF FaithInv, Untouched
<1>6. ASSUME NEW c \in Clients, Store(c) PROVE FaithInv'
  <2>1. /\ UNCHANGED <<array, len, faults>> /\ stage[c] = "admitted"
        /\ live' = [live EXCEPT ![req[c].name] = req[c].app]
        /\ \A d \in Clients : stage'[d] = IF d = c THEN "idle" ELSE stage[d]
        /\ \A d \in Clients \ {c} : req'[d] = req[d]
    BY <1>6 DEF Store, Finish, RegInv, TypeOK
  <2>2. req[c].name \in Names /\ (req[c].op = "delete" => req[c].app = None)
    <3>1. req[c] \in Requests
      BY <2>1 DEF RegInv, TypeOK
    <3> QED
      BY <3>1 DEF Requests
  <2>3. \A n, a : Lists(n, a)' <=> Lists(n, a)
    BY <2>1 DEF Lists
  <2>4. ASSUME faults = 0, NEW n \in Names, live'[n] # None, Untouched(n)'
        PROVE  Lists(n, live'[n])
    <3>1. CASE n = req[c].name
      BY <2>1, <2>2, <2>4, <3>1 DEF FaithInv, RegInv, TypeOK
    <3>2. CASE n # req[c].name
      <4>1. live'[n] = live[n] /\ Untouched(n)
        BY <2>1, <2>4, <3>2 DEF Untouched, RegInv, TypeOK
      <4> QED
        BY <2>4, <4>1 DEF FaithInv
    <3> QED
      BY <3>1, <3>2
  <2> QED
    BY <2>1, <2>3, <2>4 DEF FaithInv
<1>7. ASSUME NEW c \in Clients, RefuseLater(c) PROVE FaithInv'
  BY <1>7 DEF RefuseLater, Fault, FaithInv, RegInv, TypeOK
<1>8. CASE UNCHANGED vars
  BY <1>8 DEF vars, FaithInv, Untouched, Lists
<1> QED
  BY <1>1, <1>2, <1>3, <1>4, <1>5, <1>6, <1>7, <1>8 DEF Next, Request

(* What the webhook is for: until a restart empties the registry or an     *)
(* admitted request is refused later on, and as long as deletes run alone, *)
(* no two WebServers of the namespace settle on one application name.      *)
THEOREM UniqueNamesCorrect ==
  ASSUME DeletesAlone PROVE Spec => []UniqueWhileFaultless
<1>1. Init => RegInv /\ SerialInv /\ FaithInv
  BY RegInvInit DEF Init, SerialInv, FaithInv
<1>2. RegInv /\ SerialInv /\ FaithInv /\ [Next]_vars
        => RegInv' /\ SerialInv' /\ FaithInv'
  BY RegInvNext, SerialInvNext, FaithInvNext
<1>3. RegInv /\ FaithInv => UniqueWhileFaultless
  <2> SUFFICES ASSUME RegInv, FaithInv, faults = 0,
                      NEW m \in Names, NEW n \in Names, m # n,
                      Settled(m), Settled(n)
               PROVE  live[m] # live[n]
    BY DEF UniqueWhileFaultless, UniqueApplicationNames
  <2>1. Lists(m, live[m]) /\ Lists(n, live[n])
    BY DEF FaithInv, Settled, Untouched, InFlight
  <2> QED
    BY <2>1 DEF Lists, RegInv, RegistryUnique
<1> QED
  BY <1>1, <1>2, <1>3, PTL DEF Spec

-----------------------------------------------------------------------------
(* The converse: until the first fault an entry of the list is what the    *)
(* stored WebServer says or, while an admitted request is about to change  *)
(* it, what that request says.                                             *)
Justified(n, a) ==
    IF Untouched(n)
    THEN live[n] = a
    ELSE \E c \in Clients : /\ stage[c] = "admitted"
                            /\ req[c].name = n /\ req[c].app = a

HonestInv == faults = 0 => \A n, a : Lists(n, a) => Justified(n, a)

(* A step that admits c's request, c's entry being the only one touched.   *)
LEMMA JustifiedAdmit ==
  ASSUME SerialInv, HonestInv, NEW c \in Clients,
         UNCHANGED <<live, req, faults>>, stage[c] \notin {"idle", "admitted"},
         \A d \in Clients : stage'[d] = IF d = c THEN "admitted" ELSE stage[d],
         \A n, a : Lists(n, a)' =>
                     IF n = req[c].name THEN a = req[c].app ELSE Lists(n, a)
  PROVE  HonestInv'
<1> SUFFICES ASSUME faults = 0, NEW n, NEW a, Lists(n, a)'
             PROVE  Justified(n, a)'
  BY DEF HonestInv
<1>1. CASE n = req[c].name
  <2>1. ~Untouched(n)'
    BY <1>1 DEF Untouched
  <2>2. a = req[c].app
    BY <1>1
  <2> QED
    BY <1>1, <2>1, <2>2 DEF Justified
<1>2. CASE n # req[c].name
  <2>1. Justified(n, a)
    BY <1>2 DEF HonestInv
  <2>2. Untouched(n)' <=> Untouched(n)
    BY <1>2 DEF Untouched
  <2> QED
    BY <1>2, <2>1, <2>2 DEF Justified
<1> QED
  BY <1>1, <1>2

(* Steps that leave the list alone and admit nothing.                      *)
LEMMA JustifiedQuiet ==
  ASSUME HonestInv, UNCHANGED <<live, array, len, faults>>,
         \A d \in Clients : stage'[d] = "admitted" <=> stage[d] = "admitted",
         \A d \in Clients : stage[d] = "admitted" => req'[d] = req[d]
  PROVE  HonestInv'
<1> SUFFICES ASSUME faults = 0, NEW n, NEW a, Lists(n, a)'
             PROVE  Justified(n, a)'
  BY DEF HonestInv
<1>1. Justified(n, a)
  BY DEF HonestInv, Lists
<1>2. Untouched(n)' <=> Untouched(n)
  BY DEF Untouched
<1> QED
  BY <1>1, <1>2 DEF Justified

LEMMA HonestInvNext ==
  ASSUME RegInv, SerialInv, HonestInv, [Next]_vars PROVE HonestInv'
<1>1. CASE Restart
  BY <1>1 DEF Restart, Fault, HonestInv, RegInv, TypeOK
<1>2. ASSUME NEW c \in Clients,
             Submit(c) \/ CheckUsed(c) \/ CheckFree(c) \/ DeleteRead(c)
      PROVE  HonestInv'
  <2>1. /\ UNCHANGED <<live, array, len, faults>>
        /\ \A d \in Clients : stage'[d] = "admitted" <=> stage[d] = "admitted"
        /\ \A d \in Clients : stage[d] = "admitted" => req'[d] = req[d]
    BY <1>2 DEF Submit, CheckUsed, CheckFree, DeleteRead, Finish, RegInv, TypeOK
  <2> QED
    BY <2>1, JustifiedQuiet
<1>3. ASSUME NEW c \in Clients, CheckSame(c) PROVE HonestInv'
  <2>1. /\ FirstMatch(req[c]) \in 1..len
        /\ array[FirstMatch(req[c])].name = req[c].name
        /\ array[FirstMatch(req[c])].app = req[c].app
    BY <1>3, FirstMatchFound DEF CheckSame, IsSame, RegInv
  <2>2. /\ UNCHANGED <<live, array, len, req, faults>> /\ stage[c] = "check"
        /\ \A d \in Clients : stage'[d] = IF d = c THEN "admitted" ELSE stage[d]
    BY <1>3 DEF CheckSame, RegInv, TypeOK
  <2>3. \A n, a : Lists(n, a)' =>
                    IF n = req[c].name THEN a = req[c].app ELSE Lists(n, a)
    BY <2>1, <2>2 DEF Lists, RegInv, RegistryUnique
  <2> QED
    BY <2>2, <2>3, JustifiedAdmit
<1>4. ASSUME NEW c \in Clients, CheckWrite(c) PROVE HonestInv'
  <2>1. Written(c) /\ RegInv'
    BY <1>4, WrittenList, RegInvCheckWrite
  <2>2. /\ UNCHANGED <<live, req, faults>> /\ stage[c] = "write"
        /\ \A d \in Clients : stage'[d] = IF d = c THEN "admitted" ELSE stage[d]
    BY <1>4 DEF CheckWrite, RegInv, TypeOK
  <2>3. NewEntry(c).name = req[c].name /\ NewEntry(c).app = req[c].app
    BY DEF NewEntry
  <2>4. ASSUME NEW n, NEW a, Lists(n, a)'
        PROVE  IF n = req[c].name THEN a = req[c].app ELSE Lists(n, a)
    <3>1. PICK i \in 1..len' : array'[i].name = n /\ array'[i].app = a
      BY <2>4 DEF Lists
    <3>2. PICK k \in 1..len' :
             /\ array'[k] = NewEntry(c)
             /\ \A j \in 1..len' \ {k} : j \in 1..len /\ array'[j] = array[j]
      <4>1. CASE AppendsEntry(c)
        <5>1. \A j \in 1..len' \ {len'} : j \in 1..len
          BY <4>1 DEF AppendsEntry, RegInv, TypeOK
        <5>2. len' \in 1..len'
          BY <4>1, RegistryAssumption DEF AppendsEntry
        <5> QED
          BY <4>1, <5>1, <5>2 DEF AppendsEntry
      <4>2. CASE RenamesEntry(c)
        BY <4>2 DEF RenamesEntry
      <4> QED
        BY <2>1, <4>1, <4>2 DEF Written
    <3>3. CASE i = k
      BY <2>3, <3>1, <3>2, <3>3
    <3>4. CASE i # k
      <4>1. array'[i].name # array'[k].name
        BY <2>1, <3>4 DEF RegInv, RegistryUnique
      <4>2. i \in 1..len /\ array'[i] = array[i]
        BY <3>2, <3>4
      <4> QED
        BY <2>3, <3>1, <3>2, <4>1, <4>2 DEF Lists
    <3> QED
      BY <3>3, <3>4
  <2> QED
    BY <2>2, <2>4, JustifiedAdmit
<1>5. ASSUME NEW c \in Clients, DeleteFind(c) PROVE HonestInv'
  <2> DEFINE found == {i \in 1..seen[c] : array[i].name = req[c].name}
  <2>1. /\ UNCHANGED <<live, array, len, req, faults>>
        /\ stage[c] = "find" /\ seen[c] = len
    BY <1>5 DEF DeleteFind, RegInv, DeleteInv
  <2>2. CASE found = {}
    <3>1. \A d \in Clients : stage'[d] = IF d = c THEN "admitted" ELSE stage[d]
      BY <1>5, <2>2 DEF DeleteFind, RegInv, TypeOK
    <3>2. \A n, a : Lists(n, a)' =>
                      IF n = req[c].name THEN a = req[c].app ELSE Lists(n, a)
      BY <2>1, <2>2 DEF Lists
    <3> QED
      BY <2>1, <3>1, <3>2, JustifiedAdmit
  <2>3. CASE found # {}
    <3>1. \A d \in Clients : stage'[d] = IF d = c THEN "remove" ELSE stage[d]
      BY <1>5, <2>3 DEF DeleteFind, RegInv, TypeOK
    <3> QED
      BY <2>1, <3>1, JustifiedQuiet
  <2> QED
    BY <2>2, <2>3
<1>6. ASSUME NEW c \in Clients, DeleteRemove(c) PROVE HonestInv'
  <2>1. Shortened(c)
    BY <1>6, ShortenedList
  <2>2. /\ UNCHANGED <<live, req, faults>> /\ stage[c] = "remove"
        /\ \A d \in Clients : stage'[d] = IF d = c THEN "admitted" ELSE stage[d]
    BY <1>6 DEF DeleteRemove, RegInv, TypeOK
  <2>3. ASSUME NEW n, NEW a, Lists(n, a)'
        PROVE  n # req[c].name /\ Lists(n, a)
    <3>1. PICK i \in 1..len' : array'[i].name = n /\ array'[i].app = a
      BY <2>3 DEF Lists
    <3> DEFINE j == IF i < index[c] THEN i ELSE i + 1
    <3>2. j \in 1..len /\ j # index[c] /\ array'[i] = array[j]
      BY <2>1, <3>1 DEF Shortened
    <3>3. array[j].name # array[index[c]].name
      BY <2>1, <3>2 DEF Shortened, RegInv, RegistryUnique
    <3> QED
      BY <2>1, <3>1, <3>2, <3>3 DEF Lists, Shortened
  <2> QED
    BY <2>2, <2>3, JustifiedAdmit
<1>7. ASSUME NEW c \in Clients, Store(c) PROVE HonestInv'
  <2>1. /\ UNCHANGED <<array, len, faults>> /\ stage[c] = "admitted"
        /\ live' = [live EXCEPT ![req[c].name] = req[c].app]
        /\ \A d \in Clients : stage'[d] = IF d = c THEN "idle" ELSE stage[d]
        /\ \A d \in Clients \ {c} : req'[d] = req[d]
    BY <1>7 DEF Store, Finish, RegInv, TypeOK
  <2>2. req[c].name \in Names
    <3>1. req[c] \in Requests
      BY <2>1 DEF RegInv, TypeOK
    <3> QED
      BY <3>1 DEF Requests
  <2>3. \A d \in Clients \ {c} : stage[d] = "admitted" => req[d].name # req[c].name
    BY <2>1 DEF SerialInv
  <2> SUFFICES ASSUME faults = 0, NEW n, NEW a, Lists(n, a)'
               PROVE  Justified(n, a)'
    BY <2>1 DEF HonestInv
  <2>4. Justified(n, a) /\ n \in Names
    BY <2>1 DEF HonestInv, Lists, RegInv, TypeOK, Entries
  <2>5. CASE n = req[c].name
    <3>1. Untouched(n)' /\ ~Untouched(n)
      BY <2>1, <2>3, <2>5 DEF Untouched
    <3>2. a = req[c].app
      BY <2>3, <2>4, <2>5, <3>1 DEF Justified
    <3>3. live'[n] = req[c].app
      BY <2>1, <2>2, <2>5 DEF RegInv, TypeOK
    <3> QED
      BY <3>1, <3>2, <3>3 DEF Justified
  <2>6. CASE n # req[c].name
    <3>1. live'[n] = live[n]
      BY <2>1, <2>4, <2>6 DEF RegInv, TypeOK
    <3>2. Untouched(n)' <=> Untouched(n)
      BY <2>1, <2>6 DEF Untouched
    <3> QED
      BY <2>1, <2>4, <2>6, <3>1, <3>2 DEF Justified
  <2> QED
    BY <2>5, <2>6
<1>8. ASSUME NEW c \in Clients, RefuseLater(c) PROVE HonestInv'
  BY <1>8 DEF RefuseLater, Fault, HonestInv, RegInv, TypeOK
<1>9. CASE UNCHANGED vars
  BY <1>9, JustifiedQuiet DEF vars
<1> QED
  BY <1>1, <1>2, <1>3, <1>4, <1>5, <1>6, <1>7, <1>8, <1>9 DEF Next, Request

LEMMA ListInvariants ==
  ASSUME DeletesAlone
  PROVE  /\ Init => RegInv /\ SerialInv /\ FaithInv /\ HonestInv
         /\ RegInv /\ SerialInv /\ FaithInv /\ HonestInv /\ [Next]_vars
              => (RegInv /\ SerialInv /\ FaithInv /\ HonestInv)'
<1>1. Init => RegInv
  BY RegInvInit
<1>2. Init => SerialInv /\ FaithInv /\ HonestInv
  BY DEF Init, SerialInv, FaithInv, HonestInv, Lists
<1> QED
  BY <1>1, <1>2, RegInvNext, SerialInvNext, FaithInvNext, HonestInvNext

(* With no request in flight the registry lists exactly the stored         *)
(* WebServers with their names, until the first fault and as long as       *)
(* deletes run alone.                                                      *)
THEOREM MatchesCorrect ==
  ASSUME DeletesAlone PROVE Spec => []RegistryMatchesCluster
<1> DEFINE All == RegInv /\ SerialInv /\ FaithInv /\ HonestInv
<1>1. Init => All
  BY ListInvariants
<1>2. All /\ [Next]_vars => All'
  BY ListInvariants
<1>3. All => RegistryMatchesCluster
  <2> SUFFICES ASSUME All, InFlight = {}, faults = 0
               PROVE  Registered = {[name |-> n, app |-> live[n]] :
                                      n \in {m \in Names : live[m] # None}}
    BY DEF RegistryMatchesCluster
  <2>1. \A n : Untouched(n)
    BY DEF InFlight, Untouched
  <2>2. ASSUME NEW i \in 1..len
        PROVE  \E n \in Names : /\ live[n] # None
                                /\ array[i] = [name |-> n, app |-> live[n]]
    <3>1. PICK n \in Names, a \in Apps : array[i] = [name |-> n, app |-> a]
      BY DEF RegInv, TypeOK, Entries
    <3>2. Lists(n, a)
      BY <3>1 DEF Lists
    <3>3. live[n] = a /\ a # None
      BY <2>1, <3>2, RegistryAssumption DEF HonestInv, Justified
    <3> QED
      BY <3>1, <3>3
  <2>3. ASSUME NEW n \in Names, live[n] # None
        PROVE  \E i \in 1..len : array[i] = [name |-> n, app |-> live[n]]
    <3>1. Lists(n, live[n])
      BY <2>1, <2>3 DEF FaithInv
    <3>2. PICK i \in 1..len : array[i].name = n /\ array[i].app = live[n]
      BY <3>1 DEF Lists
    <3>3. array[i] \in Entries
      BY DEF RegInv, TypeOK
    <3>4. array[i] = [name |-> n, app |-> live[n]]
      BY <3>2, <3>3 DEF Entries
    <3> QED
      BY <3>4
  <2> DEFINE Stored == {[name |-> n, app |-> live[n]] :
                          n \in {m \in Names : live[m] # None}}
  <2>4. ASSUME NEW e \in Registered PROVE e \in Stored
    BY <2>2 DEF Registered
  <2>5. ASSUME NEW e \in Stored PROVE e \in Registered
    <3>1. PICK n \in Names : /\ live[n] # None
                             /\ e = [name |-> n, app |-> live[n]]
      OBVIOUS
    <3>2. PICK i \in 1..len : array[i] = [name |-> n, app |-> live[n]]
      BY <2>3, <3>1
    <3> QED
      BY <3>1, <3>2 DEF Registered
  <2> QED
    BY <2>4, <2>5
<1> QED
  BY <1>1, <1>2, <1>3, PTL DEF Spec

(* A refusal finds another WebServer's entry.                              *)
LEMMA UsedByOther ==
  ASSUME RegInv, NEW r \in Requests, IsUsed(r)
  PROVE  \E i \in 1..len : array[i].app = r.app /\ array[i].name # r.name
<1> DEFINE f == FirstMatch(r)
<1>1. f \in 1..len /\ (array[f].name = r.name \/ array[f].app = r.app)
  BY FirstMatchFound DEF IsUsed, IsNew, Matches, RegInv
<1>2. CASE array[f].name # r.name
  BY <1>1, <1>2
<1>3. CASE array[f].name = r.name
  <2>1. array[f].app # r.app
    <3>1. array[f] \in Entries
      BY <1>1 DEF RegInv, TypeOK
    <3>2. array[f] # [name |-> r.name, app |-> r.app]
      BY DEF IsUsed, IsNew, IsSame
    <3> QED
      BY <1>3, <3>1, <3>2 DEF Entries
  <2>2. PICK j \in 1..len : array[j].app = r.app
    BY <1>3 DEF IsUsed, IsRename, IsNew, Taken
  <2>3. j # f
    BY <2>1, <2>2
  <2> QED
    BY <1>1, <1>3, <2>2, <2>3 DEF RegInv, RegistryUnique
<1> QED
  BY <1>2, <1>3

(* checkApplicationName refuses only a name that another WebServer has or  *)
(* is about to have: until the first fault a refused user was not wronged. *)
THEOREM RefusedCorrect ==
  ASSUME DeletesAlone PROVE Spec => RefusedForAReason
<1> DEFINE All == RegInv /\ SerialInv /\ FaithInv /\ HonestInv
           Step == \A c \in Clients :
                     stage[c] = "check" /\ stage'[c] = "idle" /\ faults' = 0
                       => \E n \in Names \ {req[c].name} : Claims(n, req[c].app)
<1>1. Init => All
  BY ListInvariants
<1>2. All /\ [Next]_vars => All'
  BY ListInvariants
<1>3. All /\ [Next]_vars => [Step]_vars
  <2> SUFFICES ASSUME All, Next, NEW c \in Clients,
                      stage[c] = "check", stage'[c] = "idle", faults' = 0
               PROVE  \E n \in Names \ {req[c].name} : Claims(n, req[c].app)
    BY DEF vars
  <2>1. IsUsed(req[c]) /\ faults = 0
    <3>1. ~Restart
      BY DEF Restart, Fault, RegInv, TypeOK
    <3>2. PICK d \in Clients : Request(d)
      BY <3>1 DEF Next
    <3>3. CheckUsed(c)
      BY <3>2 DEF Request, Submit, CheckSame, CheckUsed, CheckFree, CheckWrite,
                  DeleteRead, DeleteFind, DeleteRemove, Store, RefuseLater,
                  Finish, RegInv, TypeOK
    <3> QED
      BY <3>3 DEF CheckUsed
  <2>2. req[c] \in Requests /\ stage[c] = "check"
    BY DEF RegInv, TypeOK
  <2>3. PICK i \in 1..len : array[i].app = req[c].app /\ array[i].name # req[c].name
    BY <2>1, <2>2, UsedByOther
  <2>4. array[i].name \in Names
    BY DEF RegInv, TypeOK, Entries
  <2>5. Lists(array[i].name, req[c].app)
    BY <2>3 DEF Lists
  <2>6. Claims(array[i].name, req[c].app)
    BY <2>1, <2>5 DEF HonestInv, Justified, Claims
  <2> QED
    BY <2>3, <2>4, <2>6
<1> QED
  BY <1>1, <1>2, <1>3, PTL DEF Spec, RefusedForAReason
=============================================================================
