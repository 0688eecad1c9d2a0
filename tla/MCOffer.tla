------------------------------- MODULE MCOffer --------------------------------
(* Numbers of 5 bits for 64, a clock of a few seconds, and requests that   *)
(* are good but for one or two of their fields.                            *)
EXTENDS Offer

Good ==
    [via |-> "rest", signed |-> TRUE, maker |-> "address", taker |-> "",
     side |-> 0, kind |-> 1, assetType |-> 0, amount |-> 1, price |-> 2,
     startPrice |-> 9, garbled |-> {}, startTime |-> 5, endTime |-> 9]

Ways == {"rest", "graphql"}
Times == {-3, 0, 3, 4, 6, 8, 9, 15, 16, 20, 31}

MCRequests ==
    {[Good EXCEPT !.via = v, !.kind = k, !.startTime = s, !.endTime = e, !.startPrice = p] :
        v \in Ways, k \in {0, 1}, s \in Times, e \in Times, p \in {2, 3, 9}}
    \cup {[Good EXCEPT !.signed = FALSE, !.taker = t] : t \in {"", "address", "text"}}
    \cup {[Good EXCEPT !.maker = m, !.taker = t, !.price = p] :
            m \in {"address", "zero", "text"}, t \in {"address", "text"}, p \in {-1, 0, 1}}
    \cup {[Good EXCEPT !.via = v, !.side = n, !.assetType = a, !.amount = q] :
            v \in Ways, n \in {0, 1, 2, 256}, a \in {0, 1, 2}, q \in {0, 1, 2}}
    \cup {[Good EXCEPT !.via = v, !.kind = k] : v \in Ways, k \in (0..5) \cup {-255, 257}}
    \cup {[Good EXCEPT !.kind = k, !.garbled = g, !.amount = q, !.price = p] :
            k \in {0, 1}, g \in SUBSET {"amount", "price", "startPrice"},
            q \in 0..2, p \in {-1, 0, 2, 9}}

=============================================================================
