-------------------------------- MODULE Offer ---------------------------------
(***************************************************************************)
(* What becomes of a request to offer an order: the JSON binding or the    *)
(* GraphQL conversion, OrderService.Submit, the columns Insert writes, and *)
(* what scanOrders makes of them for every later reader, who computes the  *)
(* price and the end against the clock (Pricing).                          *)
(*                                                                         *)
(* A request is told apart by what Submit checks. A decimal string is the  *)
(* value of its leading digits (0 without one), and is garbled if more     *)
(* follows or nothing was there: SetString then fails, but leaves that     *)
(* value behind. The clock is Unix seconds.                                *)
(***************************************************************************)
EXTENDS Pricing, Sequences

CONSTANTS
    Requests,       \* the requests that may come, a set of RequestRecord
    Past, Ahead,    \* 300 seconds and 30 days: the window of start times
    FirstTime, MaxTime  \* the clock runs from the one to the other

(* via says which of the two ways the request takes. *)
RequestRecord ==
    [via : {"rest", "graphql"}, signed : BOOLEAN,
     maker : {"address", "zero", "text"}, taker : {"", "address", "text"},
     side : Int, kind : Int, assetType : Int, amount : Int, price : Int,
     startPrice : Int, garbled : SUBSET {"amount", "price", "startPrice"},
     startTime : Int, endTime : Int]

ASSUME OfferAssumption ==
    /\ Past \in Nat /\ Ahead \in Nat
    /\ FirstTime \in Nat \ {0} /\ MaxTime \in Nat /\ Past <= FirstTime
    /\ FirstTime <= MaxTime /\ 2 * MaxTime < Wrap
    /\ \A r \in Requests : r \in RequestRecord

VARIABLES
    now,        \* the clock
    answer,     \* what the last request was answered: a code, or "accepted"
    row,        \* the columns of the row the request made, NoRow without one
    request,    \* the request it was made of (history)
    since       \* when it was accepted (history)

vars == <<now, answer, row, request, since>>

NoRow == [kind |-> "none"]

Kinds == <<"FixedPrice", "DutchAuction", "CollectionBid", "TraitBid", "Bundle">>

Init ==
    /\ now = FirstTime
    /\ answer = "none" /\ row = NoRow
    /\ request \in Requests /\ since = 0

-----------------------------------------------------------------------------
(* ShouldBindJSON: an unsigned integer takes nothing else, startTime is    *)
(* required (which refuses 0), side, kind and assetType have their ranges. *)
(* GraphQL takes Go's int, of 64 bits.                                     *)
Binds(r) ==
    \/ /\ r.via = "graphql"
       /\ \A t \in {r.startTime, r.endTime} : -Wrap <= 2 * t /\ 2 * t < Wrap
    \/ /\ r.via = "rest"
       /\ r.startTime \in 1..(Wrap - 1) /\ r.endTime \in 0..(Wrap - 1)
       /\ r.side \in 0..1 /\ r.kind \in 0..4 /\ r.assetType \in 0..1

(* gqlSubmitToDomain casts int to uint8 and to uint64. *)
ToDomain(r) ==
    [r EXCEPT !.side = @ % 256, !.kind = @ % 256, !.assetType = @ % 256,
              !.startTime = Uint64(@), !.endTime = Uint64(@)]

(* requestToOrder: a string that does not parse is a number 0. *)
Number(r, field) == IF field \in r.garbled THEN 0 ELSE r[field]

(* SignatureService.Verify: the request is signed by its maker, and every  *)
(* address and number is of its EIP-712 type. Submit's own checks of the   *)
(* maker and the taker then have nothing left to find.                     *)
Verifies(r) ==
    /\ r.signed
    /\ r.maker = "address" /\ r.taker # "text"
    /\ \A field \in {"amount", "price", "startPrice"} : Number(r, field) >= 0

(* Mutant: the end time is compared unsigned. *)
MutEnds(r) == r.endTime > 0 /\ r.endTime <= now

(* The end time is there, and past. *)
Ends(r) == r.endTime > 0 /\ Int64(r.endTime) <= now

IsAuction(r) == r.kind = 1

(* Mutant: a start time long past is accepted. *)
MutStartsTooEarly(r) == FALSE

StartsTooEarly(r) == r.startTime > 0 /\ Int64(r.startTime) < now - Past

(* The checks of Submit in their order, each with the code it refuses with. *)
(* Submit parses the strings again and goes by what SetString leaves behind *)
(* whether it fails or not.                                                 *)
Checks(r) == <<
    <<"ORDER_SIGNATURE_INVALID", ~ Verifies(r)>>,
    <<"INVALID_MAKER",           r.maker # "address">>,
    <<"INVALID_TAKER",           r.taker = "text">>,
    <<"INVALID_SIDE",            r.side > 1>>,
    <<"INVALID_KIND",            r.kind > 4>>,
    <<"INVALID_ASSET_TYPE",      r.assetType > 1>>,
    <<"INVALID_AMOUNT",          r.amount <= 0 \/ (r.assetType = 0 /\ r.amount # 1)>>,
    <<"INVALID_PRICE",           r.price <= 0>>,
    <<"ORDER_EXPIRED",           StartsTooEarly(r)>>,
    <<"INVALID_START_TIME",      r.startTime > 0 /\ Int64(r.startTime) > now + Ahead>>,
    <<"ORDER_EXPIRED",           Ends(r)>>,
    <<"INVALID_DUTCH_AUCTION",   IsAuction(r) /\ r.startPrice <= r.price>>,
    <<"INVALID_DUTCH_AUCTION",   IsAuction(r) /\ r.endTime <= r.startTime>> >>

Failing(r) == {i \in DOMAIN Checks(r) : Checks(r)[i][2]}

(* OrderRepo.Insert: times go into BIGINT columns as int64, expired_at is  *)
(* the end time, or NULL (here 0) without one.                             *)
Columns(r) ==
    [kind |-> Kinds[r.kind + 1], amount |-> Number(r, "amount"),
     price |-> Number(r, "price"), startPrice |-> Number(r, "startPrice"),
     startTime |-> Int64(r.startTime), endTime |-> Int64(r.endTime),
     expiredAt |-> IF r.endTime > 0 THEN Int64(r.endTime) ELSE 0]

(* Mutant: the start price is not selected. *)
MutScan(c) == [c EXCEPT !.startPrice = 0, !.startTime = Uint64(@), !.endTime = Uint64(@)]

(* scanOrders *)
Scan(c) == [c EXCEPT !.startTime = Uint64(@), !.endTime = Uint64(@)]

(* The signature checked is over requestToOrder's fields, so a request is  *)
(* signed as it was converted.                                             *)
Refuse(code) == answer' = code /\ UNCHANGED <<now, row, request, since>>

Reject ==
    /\ row = NoRow /\ ~ Binds(request)
    /\ Refuse("INVALID_REQUEST")

SubmitRefused ==
    /\ row = NoRow /\ Binds(request)
    /\ \E i \in Failing(ToDomain(request)) :
        /\ \A j \in Failing(ToDomain(request)) : i <= j
        /\ Refuse(Checks(ToDomain(request))[i][1])

Submit ==
    /\ row = NoRow /\ Binds(request)
    /\ Failing(ToDomain(request)) = {}
    /\ row' = Columns(ToDomain(request))
    /\ answer' = "accepted" /\ since' = now
    /\ UNCHANGED <<now, request>>

(* Insert fails: the slot is taken, the end time is beyond every timestamp, *)
(* the database is gone.                                                   *)
PersistFails ==
    /\ row = NoRow /\ Binds(request)
    /\ Failing(ToDomain(request)) = {}
    /\ Refuse("ORDER_PERSIST_FAILED")

Tick ==
    /\ now < MaxTime
    /\ now' = now + 1
    /\ UNCHANGED <<answer, row, request, since>>

Next == Reject \/ SubmitRefused \/ Submit \/ PersistFails \/ Tick

Spec == Init /\ [][Next]_vars

-----------------------------------------------------------------------------
Offered == row # NoRow
Auctioned == row.kind = "DutchAuction"
Quote == CurrentPrice(Scan(row), now)

(* An order is never over in the second it is accepted, neither for the    *)
(* sweep nor for a reader, whatever 64-bit number its end time is; and     *)
(* from then on the two agree on it.                                       *)
AcceptedIsOpen ==
    Offered =>
        /\ now = since => ~ IsExpired(Scan(row), now)
        /\ IsExpired(Scan(row), now) <=> (row.expiredAt # 0 /\ row.expiredAt <= now)

(* The price a reader is quoted lies on the line from the start price at   *)
(* the start time to the price at the end time, as the two signed numbers  *)
(* of the request say (0 for a string that does not parse), rounded up to  *)
(* the next whole unit: the definition in CurrentPrice's comment without   *)
(* its division.                                                           *)
QuoteIsOnTheLine ==
    Auctioned =>
        LET elapsed == now - request.startTime
            duration == request.endTime - request.startTime
            startPrice == Number(request, "startPrice")
            price == Number(request, "price")
            fall == startPrice - price
        IN  CASE elapsed <= 0 -> Quote = startPrice
              [] elapsed >= duration -> Quote = price
              [] OTHER ->
                   /\ duration * (startPrice - Quote) <= fall * elapsed
                   /\ fall * elapsed < duration * (startPrice - Quote + 1)

(* The start price that was checked is the one that was stored. *)
StartParses == "startPrice" \notin request.garbled

(* An auction's price only falls, whatever the clock, if its start price   *)
(* parses: the others are checked by one start price and stored with 0.    *)
PriceOnlyFalls ==
    [][Offered /\ StartParses =>
          CurrentPrice(Scan(row'), now') <= CurrentPrice(Scan(row), now)]_vars

(* An auction submitted with a start time, and a start price that parses,  *)
(* is not half over when it is accepted: it has run for five minutes at    *)
(* most ("startTime in [now-5min, now+30days]", design 5.2), and is quoted *)
(* accordingly.                                                            *)
NewAuctionIsFresh ==
    Auctioned /\ StartParses /\ request.startTime # 0 =>
        CurrentPrice(Scan(row), since) >=
            CurrentPrice(Scan(row), request.startTime + Past)

(* What is checked is what is stored: an amount of 1 at least, a price     *)
(* above 0, and an auction's start price above its price.                  *)
StoredAsChecked ==
    Offered => /\ row.amount >= 1 /\ row.price > 0
               /\ Auctioned => row.startPrice > row.price

(* The same of every auction: the design asks it of all start times. *)
EveryAuctionIsFresh ==
    Auctioned => since - request.startTime <= Past

=============================================================================
