---------------------------- MODULE MCVmSession ----------------------------
(***************************************************************************)
(* Instances of VmSession for TLC.                                         *)
(***************************************************************************)
EXTENDS VmSession, TLC

(* The commands differ only in their argument; they are interchangeable    *)
(* in the runs that check no liveness.                                     *)
TaskSymmetry == Permutations(Task)
============================================================================
