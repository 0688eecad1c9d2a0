-------------------------------- MODULE Replay --------------------------------
(***************************************************************************)
(* What the whole backend promises to traders: the orders table is the     *)
(* replay of the chain's final logs, in chain order and each once at most, *)
(* between submissions and expiries.  A log closes every live order it     *)
(* voids or fills, those alone, and all of them in one step.               *)
(*                                                                         *)
(* System is shown to implement this specification when it only polls.     *)
(***************************************************************************)
EXTENDS Ledger

CONSTANT Hash   \* the order hashes

VARIABLES
    makes,      \* [Log -> [Hash -> what the log makes of that order if it is live]]
    orders      \* [Hash -> the order's status]

replayVars == <<ledgerVars, makes, orders>>

ReplayInit ==
    /\ Init
    /\ orders = [h \in Hash |-> "None"]

Offer(h) ==
    /\ orders[h] = "None"
    /\ orders' = [orders EXCEPT ![h] = "Active"]
    /\ UNCHANGED ledgerVars

Expire(H) ==
    /\ orders' = [h \in Hash |-> IF h \in H /\ orders[h] = "Active" THEN "Expired" ELSE orders[h]]
    /\ UNCHANGED ledgerVars

Carry(l) ==
    /\ Apply(l)
    /\ orders' = [h \in Hash |-> IF orders[h] = "Active" THEN makes[l][h] ELSE orders[h]]

ReplayNext ==
    /\ \/ Grow /\ UNCHANGED orders
       \/ \E l \in Log : Drop(l) /\ UNCHANGED orders
       \/ \E l \in Log : Carry(l)
       \/ \E h \in Hash : Offer(h)
       \/ \E H \in SUBSET Hash : Expire(H)
    /\ UNCHANGED makes

ReplaySpec == ReplayInit /\ [][ReplayNext]_replayVars
=============================================================================
