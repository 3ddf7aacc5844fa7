------------------------- MODULE ProvisioningContract -------------------------
(***************************************************************************)
(* What the operator promises about the objects it provides, without the   *)
(* order of its steps, caches or requeues: it hears of WebServers, serves  *)
(* one of them at a time as it has heard of it, and while it does so it    *)
(* makes objects that this WebServer needs, and notes its choice of the    *)
(* membership provider.  It takes nothing over from a living WebServer and *)
(* nothing of what users ask for is lost by the note.  Provisioning is     *)
(* shown to keep the promise.                                              *)
(***************************************************************************)
EXTENDS Integers

CONSTANTS
    Names, Uids,
    WebServers,     \* records with uid, spec and ping, the note
    Kinds,          \* of objects
    Rewritten,      \* the kinds that are written over when they are there
    Place(_, _),    \* where the object of a kind and a name is
    Needed(_, _),   \* whether a WebServer needs an object of a kind
    Make(_, _),     \* that object, with its owner
    Absent, NoOwner

VARIABLES
    asked,          \* name -> WebServer, or Absent
    heard,          \* the same as the operator knows it
    who, serves,    \* the name it serves and what it takes it for, or Absent
    objects,        \* key -> object, or Absent
    patience        \* how much others may still do

vars == <<asked, heard, who, serves, objects, patience>>

Spends == patience' < patience
Idles == who' = Absent /\ serves' = Absent

-----------------------------------------------------------------------------
(* The operator.                                                           *)
Hear(w) ==
    /\ heard' = [heard EXCEPT ![w] = asked[w]]
    /\ UNCHANGED <<asked, who, serves, objects, patience>>

Take(w) ==
    /\ who = Absent /\ heard[w] # Absent
    /\ who' = w /\ serves' = heard[w]
    /\ UNCHANGED <<asked, heard, objects, patience>>

(* It is done, or a call has failed.                                       *)
Leave ==
    /\ who # Absent
    /\ Idles
    /\ patience' <= patience
    /\ UNCHANGED <<asked, heard, objects>>

(* Nobody else who lives owns what is there.                               *)
MayTake(k) ==
    \A v \in Names \ {who} : asked[v] # Absent => objects[k].owner # asked[v].uid

Provide(kind) ==
    /\ who # Absent /\ Needed(kind, serves)
    /\ LET k == Place(kind, who)
       IN  /\ objects[k] # Absent => kind \in Rewritten /\ MayTake(k)
           /\ objects' = [objects EXCEPT ![k] = Make(kind, serves)]
    /\ UNCHANGED <<who, serves>> \/ Idles
    /\ patience' <= patience
    /\ UNCHANGED <<asked, heard>>

(* The note is made once, and on nothing but what it was decided for; ...  *)
Note ==
    /\ who # Absent /\ serves.ping = "unset" /\ serves = asked[who]
    /\ \E p \in {"true", "false"} :
         /\ asked' = [asked EXCEPT ![who].ping = p]
         /\ serves' = asked'[who]
    /\ UNCHANGED <<heard, who, objects, patience>>

(* ... else the operator remembers it for the present.                     *)
Remember ==
    /\ who # Absent /\ serves.ping = "unset"
    /\ \E p \in {"true", "false"} : serves' = [serves EXCEPT !.ping = p]
    /\ UNCHANGED <<asked, heard, who, objects, patience>>

-----------------------------------------------------------------------------
(* The others.                                                             *)

InUse(u) ==
    \/ \E w \in Names : \/ asked[w] # Absent /\ asked[w].uid = u
                        \/ heard[w] # Absent /\ heard[w].uid = u
    \/ who # Absent /\ serves.uid = u

(* Another spec, the end of a WebServer, or a new one.                     *)
Demand(w) ==
    /\ Spends
    /\ asked' = [asked EXCEPT ![w] = asked'[w]]
    /\ asked'[w] \in WebServers \cup {Absent}
    /\ asked'[w] # Absent =>
         IF asked[w] # Absent THEN asked'[w].uid = asked[w].uid
                              ELSE ~InUse(asked'[w].uid)
    /\ UNCHANGED <<heard, who, serves, objects>>

(* A crash; after it the operator hears everything at once.                *)
Interrupt ==
    /\ Spends /\ Idles
    /\ heard' = asked
    /\ UNCHANGED <<asked, objects>>

(* What else happens.                                                      *)
Wait == Spends /\ UNCHANGED <<asked, heard, who, serves, objects>>

Living == {asked[w].uid : w \in {v \in Names : asked[v] # Absent}}

Collect(u) ==
    /\ u \notin Living
    /\ objects' = [k \in DOMAIN objects |->
                     IF objects[k] # Absent /\ objects[k].owner = u
                     THEN Absent ELSE objects[k]]
    /\ UNCHANGED <<asked, heard, who, serves, patience>>

-----------------------------------------------------------------------------
Init ==
    /\ \A w \in Names : asked[w] \in WebServers
    /\ \A v, w \in Names : asked[v].uid = asked[w].uid => v = w
    /\ heard = asked
    /\ who = Absent /\ serves = Absent
    /\ \A k \in DOMAIN objects : objects[k] = Absent
    /\ patience \in Nat

Next ==
    \/ \E w \in Names : Hear(w) \/ Take(w) \/ Demand(w)
    \/ \E kind \in Kinds : Provide(kind)
    \/ \E u \in Uids : Collect(u)
    \/ Leave \/ Note \/ Remember \/ Interrupt \/ Wait

Spec == Init /\ [][Next]_vars
=============================================================================
