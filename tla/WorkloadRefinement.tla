-------------------------- MODULE WorkloadRefinement --------------------------
(***************************************************************************)
(* WorkloadReconciler implements WorkloadContract.                         *)
(***************************************************************************)
EXTENDS WorkloadReconciler

(* The contract sees the API server's objects, without their template,     *)
(* image and status, and one local of the reconcile: the WebServer it is   *)
(* for.                                                                    *)
Look(o) ==
    IF o = Absent THEN Absent
    ELSE [owner |-> o.owner, cfg |-> o.hash, replicas |-> o.replicas]

ASSUME LookAssumption ==
    Absent \notin [owner : Uids, cfg : Cfgs \cup {NoHash}, replicas : Nat]

World == [k \in Keys |-> Look(store[k])]

Contract == INSTANCE WorkloadContract
            WITH Place <- Desired, asked <- ws, heard <- wsCache,
                 known <- snap, world <- World, patience <- budget

(* However old the caches are, a write of the operator makes the workload  *)
(* of the WebServer it reconciles what that WebServer asks for, and a      *)
(* Delete takes another workload of the same WebServer, never one of a     *)
(* successor of the same name and never the wanted one.                    *)
Implements == Contract!Spec
=============================================================================
