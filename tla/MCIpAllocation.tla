---------------------------- MODULE MCIpAllocation ----------------------------
(* IpAllocation for TLC. *)
EXTENDS IpAllocation, TLC

ClaimSymmetry == Permutations(Claims)

=============================================================================
