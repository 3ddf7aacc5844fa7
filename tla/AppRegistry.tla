----------------------------- MODULE AppRegistry -----------------------------
(***************************************************************************)
(* The admission webhook's registry of application names                   *)
(* (webserver_webhook.go): which WebServer of a namespace uses which       *)
(* applicationName, kept in memory and consulted by ValidateCreate,        *)
(* ValidateUpdate and ValidateDelete.  Every request is a goroutine;       *)
(* checkApplicationName runs under registry.mu, ValidateDelete does not.   *)
(* One namespace is modelled: the others have lists of their own.          *)
(*                                                                         *)
(* A Go slice is a length over a shared array, and both the removal in     *)
(* ValidateDelete and the renaming in checkApplicationName write the       *)
(* array in place.  The array is modelled at its grown capacity (Cap), so  *)
(* that append writes in place too.                                        *)
(***************************************************************************)
EXTENDS Naturals, FiniteSets

CONSTANTS
    Names,         \* WebServer names
    Apps,          \* values of spec.applicationName
    Clients,       \* users of the API server, one request at a time each
    Cap,           \* capacity of the list's array
    DeletesAlone,  \* TRUE: a delete is in flight on its own
    Faults,        \* "restart" of the operator, "refuse" after admission
    MaxFaults,     \* bound on both
    None

ASSUME RegistryAssumption ==
    /\ Cap \in Nat
    /\ DeletesAlone \in BOOLEAN
    /\ Faults \subseteq {"restart", "refuse"}
    /\ MaxFaults \in Nat
    /\ None \notin Apps \cup Names \cup Clients

Entries == [name : Names, app : Apps]
Requests == [op : {"create", "update"}, name : Names, app : Apps] \cup
            [op : {"delete"}, name : Names, app : {None}]

ASSUME NoneAssumption == None \notin Entries \cup Requests

VARIABLES
    live,      \* the stored WebServers: name -> applicationName or None
    array, len,\* registry.allApps[namespace]
    lock,      \* the client whose goroutine holds registry.mu, or None
    stage,     \* where each client's request is
    req,       \* the request itself, None when there is none
    plan,      \* checkApplicationName's decision, index 0 for an append
    seen,      \* ValidateDelete's copy of the slice: its length
    index,     \* ValidateDelete's loop index
    faults     \* how many faults there were

vars == <<live, array, len, lock, stage, req, plan, seen, index, faults>>

Stages == {"idle", "check", "write", "delete", "find", "remove", "admitted"}

InFlight == {c \in Clients : stage[c] # "idle"}
Registered == {array[i] : i \in 1..len}

-----------------------------------------------------------------------------
(* The API server sends a request to the webhook.  Requests for one        *)
(* WebServer come one after the other.                                     *)
Allowed(r) ==
    /\ \A c \in InFlight : req[c].name # r.name
    /\ r.op = "create" => live[r.name] = None
    /\ r.op \in {"update", "delete"} => live[r.name] # None
    /\ DeletesAlone => \A c \in InFlight : r.op # "delete" /\ req[c].op # "delete"

Submit(c) ==
    /\ stage[c] = "idle"
    /\ \E r \in Requests :
         /\ Allowed(r)
         /\ req' = [req EXCEPT ![c] = r]
         /\ stage' = [stage EXCEPT ![c] =
                        IF r.op = "delete" THEN "delete" ELSE "check"]
    /\ UNCHANGED <<live, array, len, lock, plan, seen, index, faults>>

(* The request is over, with this outcome for the stored WebServers.       *)
Finish(c, stored) ==
    /\ live' = stored
    /\ stage' = [stage EXCEPT ![c] = "idle"]
    /\ req' = [req EXCEPT ![c] = None]

-----------------------------------------------------------------------------
(* checkApplicationName.                                                   *)

MatchesByApp(r) == {i \in 1..len : array[i].app = r.app}  \* wrong: the app only

(* Entries the loop stops at: the WebServer's own, or one with that name.  *)
Matches(r) == {i \in 1..len : array[i].name = r.name \/ array[i].app = r.app}
FirstMatch(r) == CHOOSE i \in Matches(r) : \A j \in Matches(r) : i <= j
Taken(r) == \E j \in 1..len : array[j].app = r.app

(* Wrong: a rename nobody checks, an unchanged name not recognised.        *)
IsRenameUnchecked(r) == /\ Matches(r) # {}
                        /\ array[FirstMatch(r)].name = r.name
                        /\ array[FirstMatch(r)].app # r.app
IsSameNever(r) == FALSE

(* The loop's four outcomes, decided at the first matching entry.          *)
IsNew(r)    == Matches(r) = {}
IsSame(r)   == /\ Matches(r) # {}
               /\ array[FirstMatch(r)] = [name |-> r.name, app |-> r.app]
IsRename(r) == /\ Matches(r) # {} /\ ~IsSame(r)
               /\ array[FirstMatch(r)].name = r.name
               /\ ~Taken(r)
IsUsed(r)   == ~IsNew(r) /\ ~IsSame(r) /\ ~IsRename(r)

LockIgnored == TRUE   \* wrong: no lock
LockFree == lock = None

(* Lock, then search.  Same and used need no write: the lock is released   *)
(* on return, within the step.                                             *)
CheckSame(c) ==
    /\ stage[c] = "check" /\ LockFree
    /\ IsSame(req[c])
    /\ stage' = [stage EXCEPT ![c] = "admitted"]
    /\ UNCHANGED <<live, array, len, lock, req, plan, seen, index, faults>>

CheckUsed(c) ==
    /\ stage[c] = "check" /\ LockFree
    /\ IsUsed(req[c])
    /\ Finish(c, live)
    /\ UNCHANGED <<array, len, lock, plan, seen, index, faults>>

CheckFree(c) ==
    /\ stage[c] = "check" /\ LockFree
    /\ IsNew(req[c]) \/ IsRename(req[c])
    /\ lock' = c
    /\ stage' = [stage EXCEPT ![c] = "write"]
    /\ plan' = [plan EXCEPT ![c] =
                  IF IsNew(req[c]) THEN 0 ELSE FirstMatch(req[c])]
    /\ UNCHANGED <<live, array, len, req, seen, index, faults>>

AppendedAtLast(e) == [array EXCEPT ![len] = e]   \* wrong: one place early
Appended(e) == [array EXCEPT ![len + 1] = e]

(* The in-place renaming, or the append to the list as it is by now.       *)
CheckWrite(c) ==
    /\ stage[c] = "write"
    /\ LET e == [name |-> req[c].name, app |-> req[c].app]
       IN  IF plan[c] = 0
           THEN /\ len < Cap
                /\ array' = Appended(e)
                /\ len' = len + 1
           ELSE /\ array' = [array EXCEPT ![plan[c]].app = e.app]
                /\ len' = len
    /\ lock' = None
    /\ stage' = [stage EXCEPT ![c] = "admitted"]
    /\ plan' = [plan EXCEPT ![c] = 0]
    /\ UNCHANGED <<live, req, seen, index, faults>>

-----------------------------------------------------------------------------
(* ValidateDelete, without the lock: read the slice, look for the name,    *)
(* shift the rest down in place and store the shorter slice.               *)

DeleteRead(c) ==
    /\ stage[c] = "delete"
    /\ seen' = [seen EXCEPT ![c] = len]
    /\ stage' = [stage EXCEPT ![c] = "find"]
    /\ UNCHANGED <<live, array, len, lock, req, plan, index, faults>>

DeleteFind(c) ==
    /\ stage[c] = "find"
    /\ LET found == {i \in 1..seen[c] : array[i].name = req[c].name}
       IN  IF found = {}
           THEN /\ stage' = [stage EXCEPT ![c] = "admitted"]
                /\ seen' = [seen EXCEPT ![c] = 0]
                /\ UNCHANGED index
           ELSE /\ stage' = [stage EXCEPT ![c] = "remove"]
                /\ index' = [index EXCEPT ![c] =
                               CHOOSE i \in found : \A j \in found : i <= j]
                /\ UNCHANGED seen
    /\ UNCHANGED <<live, array, len, lock, req, plan, faults>>

CutLen(c) == index[c] - 1     \* wrong: list[:i] without the tail
ShorterLen(c) == seen[c] - 1

DeleteRemove(c) ==
    /\ stage[c] = "remove"
    /\ array' = [i \in 1..Cap |-> IF i >= index[c] /\ i < seen[c]
                                  THEN array[i + 1] ELSE array[i]]
    /\ len' = ShorterLen(c)
    /\ stage' = [stage EXCEPT ![c] = "admitted"]
    /\ seen' = [seen EXCEPT ![c] = 0] /\ index' = [index EXCEPT ![c] = 0]
    /\ UNCHANGED <<live, lock, req, plan, faults>>

-----------------------------------------------------------------------------
(* The API server stores what was admitted.                                *)
Store(c) ==
    /\ stage[c] = "admitted"
    /\ Finish(c, [live EXCEPT ![req[c].name] = req[c].app])
    /\ UNCHANGED <<array, len, lock, plan, seen, index, faults>>

Fault(f) == f \in Faults /\ faults < MaxFaults /\ faults' = faults + 1

(* ... or not: a dry run, a later admission step or validation refuses it, *)
(* the client gives up.                                                    *)
RefuseLater(c) ==
    /\ stage[c] = "admitted"
    /\ Fault("refuse")
    /\ Finish(c, live)
    /\ UNCHANGED <<array, len, lock, plan, seen, index>>

(* The registry is memory: a restart empties it.  The calls in progress    *)
(* fail, and failurePolicy=fail refuses their requests.                    *)
Restart ==
    /\ Fault("restart")
    /\ len' = 0 /\ lock' = None
    /\ LET cut(c) == stage[c] # "admitted"
       IN  /\ stage' = [c \in Clients |-> IF cut(c) THEN "idle" ELSE stage[c]]
           /\ req' = [c \in Clients |-> IF cut(c) THEN None ELSE req[c]]
    /\ plan' = [c \in Clients |-> 0]
    /\ seen' = [c \in Clients |-> 0] /\ index' = [c \in Clients |-> 0]
    /\ UNCHANGED <<live, array>>

-----------------------------------------------------------------------------
Init ==
    /\ live = [n \in Names |-> None]
    /\ array = [i \in 1..Cap |-> None]
    /\ len = 0 /\ lock = None
    /\ stage = [c \in Clients |-> "idle"]
    /\ req = [c \in Clients |-> None]
    /\ plan = [c \in Clients |-> 0]
    /\ seen = [c \in Clients |-> 0]
    /\ index = [c \in Clients |-> 0]
    /\ faults = 0

Request(c) ==
    \/ Submit(c) \/ CheckSame(c) \/ CheckUsed(c) \/ CheckFree(c) \/ CheckWrite(c)
    \/ DeleteRead(c) \/ DeleteFind(c) \/ DeleteRemove(c)
    \/ Store(c) \/ RefuseLater(c)

Next == Restart \/ \E c \in Clients : Request(c)

Spec == Init /\ [][Next]_vars

-----------------------------------------------------------------------------
(* Every variable has its type; a request is there while it is in flight.  *)
TypeOK ==
    /\ live \in [Names -> Apps \cup {None}]
    /\ array \in [1..Cap -> Entries \cup {None}]
    /\ len \in 0..Cap
    /\ \A i \in 1..len : array[i] \in Entries
    /\ lock \in Clients \cup {None}
    /\ stage \in [Clients -> Stages]
    /\ req \in [Clients -> Requests \cup {None}]
    /\ plan \in [Clients -> 0..Cap]
    /\ seen \in [Clients -> 0..Cap] /\ index \in [Clients -> 0..Cap]
    /\ faults \in Nat
    /\ \A c \in Clients : stage[c] = "idle" <=> req[c] = None
    /\ \A c \in Clients :
         /\ stage[c] \in {"check", "write"} => req[c].op # "delete"
         /\ stage[c] \in {"delete", "find", "remove"} => req[c].op = "delete"

(* The list holds a WebServer once and an application name once, whatever  *)
(* requests overlap: what the lock of checkApplicationName is for.         *)
RegistryUnique ==
    \A i, j \in 1..len :
       i # j => array[i].name # array[j].name /\ array[i].app # array[j].app

(* When no request is in flight the registry lists exactly the stored      *)
(* WebServers with their application names, until the first fault.         *)
RegistryMatchesCluster ==
    InFlight = {} /\ faults = 0 =>
      Registered = {[name |-> n, app |-> live[n]] :
                      n \in {m \in Names : live[m] # None}}

(* Two WebServers with no request in flight never share an application     *)
(* name: what the webhook is for, since the name names their workloads.    *)
Settled(n) == live[n] # None /\ \A c \in InFlight : req[c].name # n

UniqueApplicationNames ==
    \A m, n \in Names : m # n /\ Settled(m) /\ Settled(n) => live[m] # live[n]

(* ... which the registry ensures until the first fault.                   *)
UniqueWhileFaultless == faults = 0 => UniqueApplicationNames

(* A request is refused as "already used" only when another WebServer has  *)
(* the application name, or is about to, until the first fault.            *)
Claims(n, app) ==
    \/ live[n] = app
    \/ \E c \in Clients : /\ stage[c] = "admitted"
                           /\ req[c].name = n /\ req[c].app = app

RefusedForAReason ==
    [][\A c \in Clients :
         stage[c] = "check" /\ stage'[c] = "idle" /\ faults' = 0
           => \E n \in Names \ {req[c].name} : Claims(n, req[c].app)]_vars
=============================================================================
