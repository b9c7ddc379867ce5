----------------------------- MODULE MCNumaNetwork -----------------------------
(* NumaNetwork for TLC. *)
EXTENDS NumaNetwork, TLC

ClaimSymmetry == Permutations(Claims)

=============================================================================
