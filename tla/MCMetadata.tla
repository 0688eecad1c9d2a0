------------------------------ MODULE MCMetadata ------------------------------
(* Instances of Metadata for TLC. *)
EXTENDS Metadata

CONSTANTS t1, t2, w1, w2

MCToken == {t1, t2}
MCWorker == {w1, w2}
MCBreakable == {t2}

=============================================================================
