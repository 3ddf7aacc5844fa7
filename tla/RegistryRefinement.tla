-------------------------- MODULE RegistryRefinement --------------------------
(***************************************************************************)
(* AppRegistry implements RegistryContract.                                *)
(***************************************************************************)
EXTENDS AppRegistry

Admitted == {c \in Clients : stage[c] = "admitted"}

Contract == INSTANCE RegistryContract
            WITH held <- Registered, request <- req, admitted <- Admitted

(* The loop over the list, the lock held from the search to the write, the *)
(* renaming in place and the shifting of a delete are as good as one step  *)
(* on a set: every answer of checkApplicationName is the one the register  *)
(* gives at that moment, and nobody sees a list in between.                *)
Linearizable == Contract!Spec
=============================================================================
