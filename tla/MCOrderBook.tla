----------------------------- MODULE MCOrderBook -----------------------------
(* A small order book and a reader: two orders compete for the slot         *)
(* (m1, s1), one shares only the salt with them; one has no end time.       *)
EXTENDS Listing

CONSTANTS o1, o2, o3, m1, m2, s1, s2, c1, c2

MCHash == {o1, o2, o3}
MCMaker == {m1, m2}
MCSalt == {s1, s2}
MCCollection == {c1, c2}

Rec(m, s, c, e) == [maker |-> m, salt |-> s, collection |-> c, endTime |-> e]

MCOrder ==
    [h \in MCHash |->
        CASE h = o1 -> Rec(m1, s1, c1, 0)
          [] h = o2 -> Rec(m1, s1, c1, 2)
          [] h = o3 -> Rec(m2, s1, c1, 1)]

(* All in c1. To sell: a fixed price of 5, and an auction that falls from   *)
(* 9 past it to 4. To buy: an auction that falls from 6 to that 4.          *)
MCSide == [h \in MCHash |-> IF h = o2 THEN "Buy" ELSE "Sell"]

Fixed(p) == [kind |-> "FixedPrice", price |-> p, startPrice |-> 0, startTime |-> 0]
Auction(p, start) ==
    [kind |-> "DutchAuction", price |-> p, startPrice |-> start, startTime |-> 0]

MCTerms ==
    [h \in MCHash |-> CASE h = o1 -> Fixed(5) [] h = o2 -> Auction(4, 6) [] OTHER -> Auction(4, 9)]

(* Only fixed prices; and all orders are bids, two of them auctions. *)
PlainTerms == [h \in MCHash |-> Fixed(IF h = o1 THEN 5 ELSE 4)]
BidSide == [h \in MCHash |-> "Buy"]

Query(via, rows, st, size, byTotal) ==
    [via |-> via, rows |-> rows, status |-> st, size |-> size, byTotal |-> byTotal]

(* Pages of one row, of more than the REST handler gives, and of no size:  *)
(* the GraphQL resolver then gives the first page again and again.         *)
MCQueries ==
    {Query("rest", MCHash, "any", n, FALSE) : n \in {1, 4}}
    \cup {Query("graphql", MCHash, "any", 0, FALSE)}

(* Readers of active orders, and readers who go by the total. *)
ActiveOnly == {Query("rest", MCHash, "Active", 1, FALSE)}
ByTotal == {Query("rest", MCHash, "any", 1, TRUE)}

=============================================================================
