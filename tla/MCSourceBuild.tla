---------------------------- MODULE MCSourceBuild ----------------------------
(* Small instances of SourceBuild for TLC: s1 and s2 build, i1 does not.   *)
EXTENDS SourceBuild

CONSTANTS s1, s2, i1
=============================================================================
