-------------------------------- MODULE MCHub --------------------------------
(* Two clients: one listens to both collections, one to a single one. *)
EXTENDS Hub

CONSTANTS k1, k2, t1, t2, b1, b2

MCClient == {k1, k2}
MCTopic == {t1, t2}
MCSubscribes == [c \in MCClient |-> IF c = k1 THEN MCTopic ELSE {t1}]
=============================================================================
