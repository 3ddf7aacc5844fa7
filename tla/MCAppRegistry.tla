---------------------------- MODULE MCAppRegistry ----------------------------
(* Small instances of AppRegistry for TLC.                                 *)
EXTENDS RegistryRefinement, TLC

(* Names, applications and clients are interchangeable.                    *)
Interchangeable ==
    Permutations(Names) \cup Permutations(Apps) \cup Permutations(Clients)
=============================================================================
