-------------------------------- MODULE MCAuth --------------------------------
(* Instances of Auth for TLC. *)
EXTENDS Auth, TLC

CONSTANTS a1, a2, r1, r2

MCAddress == {a1, a2}
MCRequest == {r1, r2}

MCSymmetry == Permutations(MCAddress) \cup Permutations(MCRequest)

=============================================================================
