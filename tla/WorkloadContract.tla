--------------------------- MODULE WorkloadContract ---------------------------
(***************************************************************************)
(* What the operator promises about the workloads of a WebServer, without  *)
(* how: it hears what is asked for, takes one such wish at a time, and     *)
(* while it serves that wish it does only two things to the world.  It     *)
(* makes the wished workload what was wished for, and it removes others    *)
(* that belong to the same WebServer.  WorkloadReconciler is shown to keep *)
(* the promise.                                                            *)
(***************************************************************************)
EXTENDS Integers

CONSTANTS
    WebServers,     \* records with uid, cfg and replicas
    Keys,           \* the workloads there can be
    Place(_),       \* the key of the workload a WebServer asks for
    Absent

VARIABLES
    asked,          \* the WebServer, or Absent
    heard,          \* the same as the operator knows it
    known,          \* the one it is serving, or Absent
    world,          \* the workloads: owner, cfg (its hash label) and replicas
    patience        \* how much others may still do

vars == <<asked, heard, known, world, patience>>

There(k) == world[k] # Absent

-----------------------------------------------------------------------------
(* The operator.                                                           *)
Hear ==
    /\ heard' = asked
    /\ UNCHANGED <<asked, known, world, patience>>

(* It serves what it has heard, or gives up for now.                       *)
Take ==
    /\ known' \in {heard, Absent}
    /\ UNCHANGED <<asked, heard, world, patience>>

(* Other properties of the workload, its owner among them, are as before   *)
(* or as a new one's; the wish may be served with that.                    *)
Apply ==
    /\ known # Absent
    /\ LET k == Place(known)
       IN  \E o \in {known.uid} \cup
                    (IF There(k) THEN {world[k].owner} ELSE {}) :
             world' = [world EXCEPT ![k] =
               [owner |-> o, cfg |-> known.cfg, replicas |-> known.replicas]]
    /\ known' \in {known, Absent}
    /\ UNCHANGED <<asked, heard, patience>>

Remove ==
    /\ known # Absent
    /\ \E k \in Keys \ {Place(known)} :
         /\ There(k) /\ world[k].owner = known.uid
         /\ world' = [world EXCEPT ![k] = Absent]
    /\ UNCHANGED <<asked, heard, known, patience>>

-----------------------------------------------------------------------------
(* The others.                                                             *)
Spends == patience' < patience

(* Another spec, the end of the WebServer, or a new one.                   *)
Demand ==
    /\ Spends
    /\ asked' \in WebServers \cup {Absent}
    /\ asked' # Absent =>
         IF asked # Absent THEN asked'.uid = asked.uid
         ELSE \A k \in Keys : There(k) => world[k].owner # asked'.uid
    /\ UNCHANGED <<heard, known, world>>

(* Anything but making a workload, or giving it to someone else.           *)
Tamper ==
    /\ Spends
    /\ \E k \in Keys :
         /\ There(k)
         /\ \/ world' = [world EXCEPT ![k] = Absent]
            \/ /\ world' = [world EXCEPT ![k] = world'[k]]
               /\ world'[k].owner = world[k].owner
    /\ UNCHANGED <<asked, heard, known>>

(* A failed call, which need not end the service, or a crash, after which  *)
(* the operator may hear at once.                                          *)
Interrupt ==
    /\ Spends
    /\ known' \in {known, Absent} /\ heard' \in {heard, asked}
    /\ UNCHANGED <<asked, world>>

Collect ==
    /\ \E k \in Keys :
         /\ There(k) /\ (asked # Absent => world[k].owner # asked.uid)
         /\ world' = [world EXCEPT ![k] = Absent]
    /\ UNCHANGED <<asked, heard, known, patience>>

-----------------------------------------------------------------------------
Init ==
    /\ asked \in WebServers /\ heard = asked /\ known = Absent
    /\ world = [k \in Keys |-> Absent]
    /\ patience \in Nat

Next == Hear \/ Take \/ Apply \/ Remove \/ Demand \/ Tamper \/ Interrupt \/ Collect

Spec == Init /\ [][Next]_vars
=============================================================================
