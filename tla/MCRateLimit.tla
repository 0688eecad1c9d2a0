----------------------------- MODULE MCRateLimit ------------------------------
(* An instance of RateLimit for TLC. *)
EXTENDS RateLimit, TLC

CONSTANTS a1, a2, a3

MCAddress == {a1, a2, a3}

=============================================================================
