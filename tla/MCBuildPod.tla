------------------------------ MODULE MCBuildPod ------------------------------
(* Small instances of BuildPod for TLC.                                    *)
EXTENDS BuildPod

CONSTANTS b1, b2, d1, p1, sh1, sh2, none

(* b1 and b2 bring a script of their own, d1 uses the builder's, p1 has no *)
(* webApp.                                                                 *)
MCScripts == [c \in Cfgs |-> CASE c = b1 -> sh1 [] c = b2 -> sh2 [] OTHER -> none]
=============================================================================
