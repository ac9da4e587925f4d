-------------------------- MODULE MCRuntimeInstall --------------------------
(***************************************************************************)
(* Instances of RuntimeInstall for TLC.                                    *)
(***************************************************************************)
EXTENDS RuntimeInstall, TLC

TaskSymmetry == Permutations(Task)
=============================================================================
