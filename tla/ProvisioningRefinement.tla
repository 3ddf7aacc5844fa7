------------------------ MODULE ProvisioningRefinement ------------------------
(***************************************************************************)
(* Provisioning implements ProvisioningContract.                           *)
(***************************************************************************)
EXTENDS Provisioning

(* The role binding comes with the choice of the membership provider.      *)
Required(kind, w) ==
    Needs(IF kind = "binding" THEN "clustering" ELSE kind, w.spec, w.ping)

Contract == INSTANCE ProvisioningContract
            WITH Place <- Key, Needed <- Required, Make <- Generated,
                 Rewritten <- ConfigMaps,
                 asked <- ws, heard <- wsCache, who <- at, serves <- snap,
                 objects <- store, patience <- budget

(* However old its caches and whatever fails, the operator writes only     *)
(* what the WebServer it serves needs, over nothing that is another's, and *)
(* the annotation only on the version of the WebServer that it was decided *)
(* for: no edit of a user is undone by it.                                 *)
KeepsContract == Contract!Spec
=============================================================================
