---------------------------- MODULE MC_RtoHistory ----------------------------
(* RtoHistory for TLC: network paths are interchangeable. *)
EXTENDS RtoHistory, TLC

MC_Symmetry == Permutations(Path)
=============================================================================
