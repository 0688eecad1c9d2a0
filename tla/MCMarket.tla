------------------------------- MODULE MCMarket -------------------------------
(* Small markets for TLC.  o1 is due at time 1; o2 is its maker's other order,*)
(* in another slot and collection; o3 has its salt and another maker.        *)
EXTENDS Market

CONSTANTS o1, o2, o3, m1, m2, s1, s2, c1, c2, w1, w2

MCMaker == {m1, m2}
MCSalt == {s1, s2}
MCCollection == {c1, c2}

OneOrder == {o1}
OneMaker == {o1, o2}
TwoMakers == {o1, o3}

Rec(m, s, c, e) == [maker |-> m, salt |-> s, collection |-> c, endTime |-> e]

OrderData(H) ==
    [h \in H |->
        CASE h = o1 -> Rec(m1, s1, c1, 1)
          [] h = o2 -> Rec(m1, s2, c2, 0)
          [] h = o3 -> Rec(m2, s1, c1, 1)]

MCOrder == OrderData(Hash)

MCSpelled == [h \in Hash |-> IF h = o1 THEN "checksum" ELSE "lower"]

Fulfilled(h) == [kind |-> "OrderFulfilled", hash |-> h]
Cancelled(m) == [kind |-> "OrderCancelled", maker |-> m, salt |-> s1]
Incremented(m) == [kind |-> "CounterIncremented", maker |-> m, counter |-> 1]
Updated(c, b) == [kind |-> "CollectionUpdated", collection |-> c, blocked |-> b]

EveryKind ==
    {Fulfilled(o1), Cancelled(m1), Incremented(m1), Updated(c2, TRUE), Updated(c1, FALSE)}
FillAndCancel == {Fulfilled(o1), Cancelled(m1)}
FillsOnly == {Fulfilled(o1)}
CancelsOnly == {Cancelled(m1)}
IncrementsOnly == {Incremented(m1)}
BlocksOnly == {Updated(c1, TRUE)}
NoEvents == {}
NoHardship == {}
FaultsAndCrashes == {"fault", "crash"}
=============================================================================
