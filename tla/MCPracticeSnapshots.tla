------------------------ MODULE MCPracticeSnapshots ------------------------
(* Callers are interchangeable. *)
EXTENDS PracticeSnapshots, TLC

CallerSymmetry == Permutations(Caller)
=============================================================================
