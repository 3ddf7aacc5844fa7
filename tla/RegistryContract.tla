--------------------------- MODULE RegistryContract ---------------------------
(***************************************************************************)
(* What the webhook promises about application names, without lists, locks *)
(* or loops: a register of who holds which name, on which every request    *)
(* acts at once and at one moment between its arrival and its answer.      *)
(* AppRegistry is shown to keep the promise while deletes run alone.       *)
(***************************************************************************)
CONSTANTS Names, Apps, Clients, None

VARIABLES
    live,       \* the stored WebServers: name -> applicationName or None
    held,       \* the register: a set of pairs of a name and an application
    request,    \* what each client waits for, None when it does not
    admitted    \* the clients whose request the webhook has admitted

vars == <<live, held, request, admitted>>

Entry(r) == [name |-> r.name, app |-> r.app]
Others(r) == {e \in held : e.name # r.name}
InUse(r) == \E e \in Others(r) : e.app = r.app

Waits(c, ops) ==
    request[c] # None /\ request[c].op \in ops /\ c \notin admitted

-----------------------------------------------------------------------------
(* Requests for one WebServer come one after the other.                    *)
Ask(c) ==
    /\ request[c] = None
    /\ \E op \in {"create", "update", "delete"}, n \in Names :
         \E a \in IF op = "delete" THEN {None} ELSE Apps :
            request' = [request EXCEPT ![c] = [op |-> op, name |-> n, app |-> a]]
    /\ \A d \in Clients \ {c} :
         request[d] # None => request[d].name # request'[c].name
    /\ UNCHANGED <<live, held, admitted>>

(* A name nobody else holds is the WebServer's from now on, its old one is *)
(* free at the same moment.                                                *)
Grant(c) ==
    /\ Waits(c, {"create", "update"}) /\ ~InUse(request[c])
    /\ held' = Others(request[c]) \cup {Entry(request[c])}
    /\ admitted' = admitted \cup {c}
    /\ UNCHANGED <<live, request>>

Deny(c) ==
    /\ Waits(c, {"create", "update"}) /\ InUse(request[c])
    /\ request' = [request EXCEPT ![c] = None]
    /\ UNCHANGED <<live, held, admitted>>

Release(c) ==
    /\ Waits(c, {"delete"})
    /\ held' = Others(request[c])
    /\ admitted' = admitted \cup {c}
    /\ UNCHANGED <<live, request>>

(* What was admitted is stored, or it is given up: the register stays.     *)
End(c) ==
    /\ c \in admitted
    /\ live' \in {live, [live EXCEPT ![request[c].name] = request[c].app]}
    /\ request' = [request EXCEPT ![c] = None]
    /\ admitted' = admitted \ {c}
    /\ UNCHANGED held

(* The register is forgotten and what waits is refused.                    *)
Restart ==
    /\ held' = {}
    /\ request' = [c \in Clients |-> IF c \in admitted THEN request[c] ELSE None]
    /\ UNCHANGED <<live, admitted>>

-----------------------------------------------------------------------------
Init ==
    /\ live = [n \in Names |-> None]
    /\ held = {}
    /\ request = [c \in Clients |-> None]
    /\ admitted = {}

Next ==
    Restart \/ \E c \in Clients : Ask(c) \/ Grant(c) \/ Deny(c) \/ Release(c) \/ End(c)

Spec == Init /\ [][Next]_vars
=============================================================================
