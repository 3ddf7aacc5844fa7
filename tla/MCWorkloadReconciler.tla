------------------------ MODULE MCWorkloadReconciler ------------------------
(* Small instances of WorkloadReconciler for TLC.                          *)
EXTENDS WorkloadRefinement, TLC

CONSTANTS c1, c2, s1, s2, i1, none, small, large, a1, a2, u1, u2

(* c1 and c2 need a Deployment, s1, i1 and s2 a StatefulSet; s2 has other  *)
(* claims than s1 and i1.                                                  *)
MCClaims == [c \in Cfgs |-> CASE c \in {s1, i1} -> small
                              [] c = s2         -> large
                              [] OTHER          -> none]

(* Applications and UIDs are interchangeable.                               *)
Interchangeable == Permutations(Apps) \cup Permutations(Uids)
=============================================================================
