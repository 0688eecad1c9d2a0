------------------------------- MODULE Listing --------------------------------
(***************************************************************************)
(* The orders table as those who list it see it: OrderRepo.Find and        *)
(* GetBestPrice, the page numbers of the REST and GraphQL handlers, and    *)
(* OrderService.GetBest, which asks for a price and then looks for an      *)
(* order of that price. Between two statements of a reader the table       *)
(* changes.                                                                *)
(*                                                                         *)
(* One reader is followed. It turns the pages of one query, or asks for    *)
(* the best order of a collection once.                                    *)
(***************************************************************************)
EXTENDS OrderBook, Pricing, FiniteSets

CONSTANTS
    Side,           \* [Hash -> {"Sell", "Buy"}]
    Terms,          \* [Hash -> TermsRecord]: what an order costs when
    Queries,        \* the listings that may be asked for, see QueryRecord
    DefaultSize,    \* 20, the size of a page that names none
    LargestSize,    \* 50, the largest page of the REST handler
    MaxPage         \* bound of the pages a reader turns

(* rows are the orders whose columns other than the status match; no       *)
(* statement changes one of those. size is the page size asked for.        *)
QueryRecord ==
    [via : {"rest", "graphql"}, rows : SUBSET Hash, status : Status \cup {"any"},
     size : Int, byTotal : BOOLEAN]

TermsRecord == [kind : STRING, price : Nat, startPrice : Nat, startTime : 0..(Wrap - 1)]

ASSUME ListingAssumption ==
    /\ Side \in [Hash -> {"Sell", "Buy"}]
    /\ Terms \in [Hash -> TermsRecord]
    /\ \A q \in Queries : q \in QueryRecord
    /\ DefaultSize \in Nat \ {0} /\ LargestSize \in Nat \ {0} /\ MaxPage \in Nat

VARIABLES
    newer,      \* for each row, those with a later created_at
    reader      \* what the reader is doing

listingVars == <<bookVars, newer, reader>>

Idle == [doing |-> "nothing"]

ListingInit ==
    /\ BookInit
    /\ newer = [h \in Hash |-> {}]
    /\ reader = Idle

-----------------------------------------------------------------------------
(* created_at is the time the INSERT began: rows of inserts that began     *)
(* later, and were done sooner, are there already.                         *)
InsertRow(h) ==
    /\ Insert(h)
    /\ \E later \in {{}} \cup {{g} \cup newer[g] : g \in Stored} :
         newer' = [g \in Hash |-> IF g = h THEN later
                                  ELSE IF g \in Stored \ later THEN newer[g] \cup {h}
                                  ELSE newer[g]]
    /\ UNCHANGED reader

UpdateRows ==
    /\ \/ \E h \in Hash : Fill(h)
       \/ \E m \in Maker, s \in Salt : CancelByMakerSalt(m, s)
       \/ \E m \in Maker, c \in 0..MaxCounter : CancelByMakerCounter(m, c)
       \/ \E c \in Collection : CancelByCollection(c)
    /\ UNCHANGED <<newer, reader>>

SweepRows == ExpireOrders /\ UNCHANGED <<newer, reader>>
Pass == Tick /\ UNCHANGED <<newer, reader>>

-----------------------------------------------------------------------------
(* SELECT ... WHERE ... *)
Match(rows, st) == {h \in rows \cap Stored : st \in {"any", status[h]}}

(* ORDER BY created_at DESC: as many rows of S come before h. *)
Position(h, S) == Cardinality(newer[h] \cap S)

(* LIMIT and OFFSET, with the defaults of Find *)
Limit(n) == IF n <= 0 THEN DefaultSize ELSE n
Skip(n) == IF n < 0 THEN 0 ELSE n

Find(rows, st, limit, offset) ==
    LET S == Match(rows, st)
    IN  {h \in S : /\ Skip(offset) <= Position(h, S)
                  /\ Position(h, S) < Skip(offset) + Limit(limit)}

(* parseOrderFilter keeps the size in its range, the resolver of orders    *)
(* takes it as it comes.                                                   *)
PageSize(q) ==
    IF q.via = "graphql" THEN q.size
    ELSE IF q.size < 1 THEN DefaultSize
    ELSE IF q.size > LargestSize THEN LargestSize ELSE q.size

(* Mutant: pages are counted from 0. *)
MutOffset(page, size) == page * size

Offset(page, size) == (page - 1) * size

(* A reader wants every row that matches now. *)
Ask(q) ==
    /\ reader.doing = "nothing"
    /\ reader' = [doing |-> "asking", query |-> q, page |-> 1,
                  owed |-> Match(q.rows, q.status)]
    /\ UNCHANGED <<bookVars, newer>>

(* The first statement of Find, SELECT COUNT, of use to readers who go by  *)
(* the total.                                                              *)
Count ==
    /\ reader.doing = "asking"
    /\ reader' = [doing |-> "counted", query |-> reader.query, page |-> reader.page,
                  owed |-> reader.owed,
                  total |-> IF reader.query.byTotal
                            THEN Cardinality(Match(reader.query.rows, reader.query.status)) ELSE 0]
    /\ UNCHANGED <<bookVars, newer>>

(* The second statement. The reader goes on to the next page until there   *)
(* is nothing on one, or until the pages it has seen make up the total.    *)
Turn ==
    /\ reader.doing = "counted"
    /\ LET q == reader.query
           page == Find(q.rows, q.status, PageSize(q), Offset(reader.page, PageSize(q)))
           last == page = {} \/ (q.byTotal /\ reader.page * PageSize(q) >= reader.total)
       IN  /\ last \/ reader.page < MaxPage
           /\ reader' = [doing |-> IF last THEN "read" ELSE "asking", query |-> q,
                         page |-> IF last THEN reader.page ELSE reader.page + 1,
                         owed |-> reader.owed \ page]
    /\ UNCHANGED <<bookVars, newer>>

-----------------------------------------------------------------------------
Better(side, p, q) == IF side = "Buy" THEN p > q ELSE p < q

Offers(c, side) == {h \in Active : Order[h].collection = c /\ Side[h] = side}

(* Mutant: the prices of both sides are sorted downwards. *)
MutTop(side, S) ==
    {h \in S : \A g \in S : ~ (Terms[g].price > Terms[h].price)}

(* ORDER BY price LIMIT 1: the orders that may come first *)
Top(side, S) ==
    {h \in S : \A g \in S : ~ Better(side, Terms[g].price, Terms[h].price)}

(* GetBestPrice: without an offer GetBest finds nothing. *)
BestPrice(c, side) ==
    /\ reader.doing = "nothing"
    /\ \/ /\ Offers(c, side) = {}
          /\ reader' = [doing |-> "told", side |-> side, order |-> {}, rivals |-> {}]
       \/ \E h \in Top(side, Offers(c, side)) :
            reader' = [doing |-> "priced", side |-> side, collection |-> c,
                       price |-> Terms[h].price, rivals |-> Offers(c, side)]
    /\ UNCHANGED <<bookVars, newer>>

Priced(h) ==
    CurrentPrice([kind |-> Terms[h].kind, price |-> Terms[h].price,
                  startPrice |-> Terms[h].startPrice, startTime |-> Terms[h].startTime,
                  endTime |-> Order[h].endTime], now)

(* GetBest lists the active orders of the collection, of either side, the  *)
(* newest 20, and returns the first that has the price now.                *)
BestFind ==
    /\ reader.doing = "priced"
    /\ LET rows == {h \in Hash : Order[h].collection = reader.collection}
           good == {h \in Find(rows, "Active", 0, 0) : Priced(h) = reader.price}
       IN  reader' = [doing |-> "told", side |-> reader.side,
                      order |-> {h \in good : newer[h] \cap good = {}},
                      rivals |-> reader.rivals \cap Active]
    /\ UNCHANGED <<bookVars, newer>>

Read ==
    \/ \E q \in Queries : Ask(q)
    \/ Count \/ Turn \/ BestFind
    \/ \E c \in Collection, side \in {"Sell", "Buy"} : BestPrice(c, side)

ListingNext == Read \/ UpdateRows \/ SweepRows \/ Pass \/ \E h \in Hash : InsertRow(h)

ListingSpec == ListingInit /\ [][ListingNext]_listingVars

(* The clock and the sweeper are as in FairBookSpec; no reader has to read. *)
FairListing ==
    /\ ListingSpec
    /\ WF_listingVars(SweepRows) /\ WF_listingVars(Pass)

-----------------------------------------------------------------------------
(* A reader who turns the pages until an empty one has seen every row that *)
(* matched all the time, whatever is inserted and updated meanwhile: new   *)
(* rows push the others to later pages, never to earlier ones. It needs a  *)
(* query that does not ask for a status.                                   *)
WalkIsComplete ==
    reader.doing = "read" =>
        reader.owed \cap Match(reader.query.rows, reader.query.status) = {}

(* The price stored, which GetBestPrice compares, is the best for the side *)
(* that the order comes to: so it is of orders of a fixed price and of     *)
(* auctions to sell that fall, and is not of auctions to buy that fall.    *)
StoredIsBest(side, h) ==
    Terms[h].kind = "DutchAuction" => ~ Better(side, Terms[h].startPrice, Terms[h].price)

(* Of the orders whose stored price is the best they come to, GetBest      *)
(* returns none that one beats which was on offer from its first statement *)
(* to its last: neither in between, while the auctions go on, nor at any   *)
(* time from then on. That it returns an order of the side asked for is    *)
(* not part of this: its listing takes both sides.                         *)
BestWasBest ==
    reader.doing = "told" =>
        \A h \in reader.order, g \in reader.rivals :
            StoredIsBest(reader.side, h) /\ StoredIsBest(reader.side, g)
                => ~ Better(reader.side, Priced(g), Priced(h))

(* The best active order of a side (handler/order.go:173) is an order of   *)
(* that side.                                                              *)
BestIsOfSide ==
    reader.doing = "told" => \A h \in reader.order : Side[h] = reader.side

(* The best active order of a side has no better one beside it, whatever   *)
(* its kind.                                                               *)
BestOfAll ==
    reader.doing = "told" =>
        \A h \in reader.order, g \in reader.rivals :
            ~ Better(reader.side, Priced(g), Priced(h))

(* GetBest finds no order only if none has been on offer all the time:     *)
(* "No active orders found" (handler/order.go:212).                        *)
NoneMeansNone ==
    reader.doing = "told" /\ reader.order = {} => reader.rivals = {}

=============================================================================
