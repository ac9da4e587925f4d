------------------------- MODULE MCLearnerProgress -------------------------
(***************************************************************************)
(* Instances of LearnerProgress for TLC.                                   *)
(***************************************************************************)
EXTENDS LearnerProgress, TLC

CallSymmetry == Permutations(Call)

(* Every lesson but the first builds on the first. *)
First == CHOOSE l \in Lesson : TRUE
OnFirst == {First} \X (Lesson \ {First})
============================================================================
