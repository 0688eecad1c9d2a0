----------------------------- MODULE OfferProofs ------------------------------
(***************************************************************************)
(* Theorems about Offer, for numbers of any width and any set of requests. *)
(***************************************************************************)
EXTENDS Offer, TLAPS

(* Division with a positive divisor rounds down. *)
LEMMA DivBounds ==
    ASSUME NEW n \in Int, NEW d \in Nat \ {0}
    PROVE  /\ n \div d \in Int
           /\ d * (n \div d) <= n
           /\ n < d * (n \div d) + d
  BY SMT

LEMMA ModBounds ==
    ASSUME NEW n \in Int, NEW d \in Nat \ {0}
    PROVE  /\ n \in 0..(d - 1) => n % d = n
           /\ -d <= n /\ n < 0 => n % d = n + d
           /\ n % d \in Nat
  BY SMTT(30)

LEMMA ProductIsInt == ASSUME NEW m \in Int, NEW n \in Int PROVE m * n \in Int
  BY SMT

LEMMA ProductGrows ==
    ASSUME NEW f \in Nat, NEW m \in Int, NEW n \in Int, m <= n
    PROVE  f * m <= f * n
<1>1. (n - m) * f \in Nat
  <2>1. n - m \in Nat BY SMT
  <2> QED BY <2>1, SMT
<1>2. f * n = f * m + (n - m) * f BY SMT
<1> QED BY <1>1, <1>2, ProductIsInt, SMT

(* A quotient does not fall when its dividend grows, and that of a product *)
(* is at most a factor if the other is at most the divisor.                *)
LEMMA DivGrows ==
    ASSUME NEW m \in Int, NEW n \in Int, NEW d \in Nat \ {0}, m <= n
    PROVE  m \div d <= n \div d
<1> DEFINE p == m \div d
           q == n \div d
<1>1. p \in Int /\ q \in Int /\ d * p <= m /\ n < d * q + d
  BY DivBounds
<1> HIDE DEF p, q
<1>2. SUFFICES ASSUME q + 1 <= p PROVE FALSE
  BY <1>1 DEF p, q
<1>3. d * (q + 1) <= d * p
  BY <1>1, <1>2, ProductGrows
<1>4. d * (q + 1) = d * q + d
  BY <1>1, SMT
<1> QED BY <1>1, <1>3, <1>4, ProductIsInt

(* The quotient of k and d times f is at most f if k is at most d. *)
LEMMA DivAtMost ==
    ASSUME NEW f \in Nat, NEW k \in Nat, NEW d \in Nat \ {0}, k <= d
    PROVE  (f * k) \div d \in 0..f
<1> DEFINE q == (f * k) \div d
<1>1. f * k \in Int /\ f * k <= f * d /\ f * 0 <= f * k /\ f * 0 = 0
  BY ProductIsInt, ProductGrows, SMT
<1>2. q \in Int /\ d * q <= f * k /\ f * k < d * q + d
  BY <1>1, DivBounds
<1> HIDE DEF q
<1>3. d * f = f * d /\ d * q \in Int /\ d * f \in Int
  BY <1>2, ProductIsInt, SMT
<1>4. ASSUME f + 1 <= q PROVE FALSE
  <2>1. d * (f + 1) <= d * q BY <1>2, <1>4, ProductGrows
  <2>2. d * (f + 1) = d * f + d BY SMT
  <2> QED BY <1>1, <1>2, <1>3, <2>1, <2>2
<1>5. ASSUME q <= -1 PROVE FALSE
  <2>1. d * q <= d * (-1) BY <1>2, <1>5, ProductGrows
  <2>2. d * (-1) = -d BY SMT
  <2> QED BY <1>1, <1>2, <1>3, <2>1, <2>2
<1> QED BY <1>2, <1>4, <1>5 DEF q

-----------------------------------------------------------------------------
(* A conversion to signed numbers and back changes nothing, in either      *)
(* direction.                                                              *)
LEMMA ThereAndBack ==
    /\ \A n \in 0..(Wrap - 1) : Int64(n) \in Int /\ Uint64(n) = n /\ Uint64(Int64(n)) = n
    /\ \A i \in Int : -Wrap <= 2 * i /\ 2 * i < Wrap => Uint64(i) \in 0..(Wrap - 1) /\ Int64(Uint64(i)) = i
<1>1. Wrap \in Nat \ {0} BY WrapAssumption DEF WrapAssumption
<1>2. ASSUME NEW n \in 0..(Wrap - 1)
      PROVE  Int64(n) \in Int /\ Uint64(n) = n /\ Uint64(Int64(n)) = n
  <2>1. n % Wrap = n BY <1>1, ModBounds
  <2>2. CASE 2 * n >= Wrap
    <3>1. (n - Wrap) % Wrap = n - Wrap + Wrap BY <1>1, ModBounds
    <3> QED BY <1>1, <2>1, <2>2, <3>1 DEF Int64, Uint64
  <2>3. CASE ~ (2 * n >= Wrap)
    BY <2>1, <2>3 DEF Int64, Uint64
  <2> QED BY <2>2, <2>3
<1>3. ASSUME NEW i \in Int, -Wrap <= 2 * i, 2 * i < Wrap
      PROVE  Uint64(i) \in 0..(Wrap - 1) /\ Int64(Uint64(i)) = i
  <2>1. CASE i < 0
    <3>1. i % Wrap = i + Wrap BY <1>1, <1>3, <2>1, ModBounds
    <3> QED BY <1>1, <1>3, <2>1, <3>1 DEF Int64, Uint64
  <2>2. CASE i >= 0
    <3>1. i % Wrap = i BY <1>1, <1>3, <2>2, ModBounds
    <3> QED BY <1>1, <1>3, <2>2, <3>1 DEF Int64, Uint64
  <2> QED BY <2>1, <2>2
<1> QED BY <1>2, <1>3

-----------------------------------------------------------------------------
(* An order that is an auction between two signed times, *)
Auction(o) ==
    /\ o.kind = "DutchAuction"
    /\ Int64(o.startTime) \in Nat /\ Int64(o.endTime) \in Nat
    /\ Int64(o.startTime) < Int64(o.endTime)
    /\ o.price \in Int /\ o.startPrice \in Int

(* and falls from the one price to the other. *)
Falling(o) == Auction(o) /\ o.price < o.startPrice

(* The decay of a price is the proportional one rounded down, whether the  *)
(* auction falls or rises,                                                 *)
LEMMA DecayLine ==
    ASSUME NEW o, Auction(o), NEW k \in Nat, NEW d \in Nat \ {0}
    PROVE  LET fall == o.startPrice - o.price
               q == o.startPrice - Decayed(o, k, d)
           IN  /\ Decayed(o, k, d) \in Int
               /\ q = (fall * k) \div d
               /\ d * q <= fall * k /\ fall * k < d * (q + 1)
<1> DEFINE fall == o.startPrice - o.price
           q == (fall * k) \div d
<1>1. o.price \in Int /\ o.startPrice \in Int /\ fall \in Int
  BY DEF Auction
<1>2. fall * k \in Int
  BY <1>1, ProductIsInt
<1>3. q \in Int /\ d * q <= fall * k /\ fall * k < d * q + d
  BY <1>2, DivBounds
<1>4. Decayed(o, k, d) = o.startPrice - q
  BY DEF Decayed
<1> HIDE DEF q
<1>5. d * (q + 1) = d * q + d
  BY <1>3, SMT
<1>6. Decayed(o, k, d) \in Int /\ o.startPrice - Decayed(o, k, d) = q
  BY <1>1, <1>3, <1>4
<1> QED BY <1>3, <1>5, <1>6 DEF q

(* and lies between nothing and the whole fall if it falls.                *)
LEMMA DecayBounds ==
    ASSUME NEW o, Falling(o), NEW k \in Nat, NEW d \in Nat \ {0}, k <= d
    PROVE  Decayed(o, k, d) \in o.price..o.startPrice
<1> DEFINE fall == o.startPrice - o.price
           q == (fall * k) \div d
<1>1. o.price \in Int /\ o.startPrice \in Int /\ fall \in Nat
  BY DEF Falling, Auction
<1>2. q \in 0..fall
  BY <1>1, DivAtMost
<1>3. Decayed(o, k, d) \in Int /\ o.startPrice - Decayed(o, k, d) = q
  BY DecayLine DEF Falling
<1> HIDE DEF q
<1> QED BY <1>1, <1>2, <1>3

(* CurrentPrice of an auction, case by case. *)
LEMMA AuctionPrice ==
    ASSUME NEW o, Auction(o), NEW ts \in Int
    PROVE  LET s == Int64(o.startTime)
               e == Int64(o.endTime)
           IN  CurrentPrice(o, ts) = IF ts <= s THEN o.startPrice
                                     ELSE IF ts >= e THEN o.price
                                     ELSE Decayed(o, ts - s, e - s)
  BY DEF CurrentPrice, Auction

LEMMA PriceIsInt ==
    ASSUME NEW o, Falling(o), NEW ts \in Int
    PROVE  CurrentPrice(o, ts) \in Int
<1> DEFINE s == Int64(o.startTime)
           e == Int64(o.endTime)
<1>1. s \in Nat /\ e \in Nat BY DEF Falling, Auction
<1>2. CurrentPrice(o, ts) = IF ts <= s THEN o.startPrice
                            ELSE IF ts >= e THEN o.price
                            ELSE Decayed(o, ts - s, e - s)
  BY AuctionPrice DEF Falling
<1> HIDE DEF s, e
<1>3. s < ts /\ ts < e => Decayed(o, ts - s, e - s) \in o.price..o.startPrice
  <2> SUFFICES ASSUME s < ts, ts < e PROVE Decayed(o, ts - s, e - s) \in o.price..o.startPrice
    OBVIOUS
  <2>1. ts - s \in Nat /\ e - s \in Nat \ {0} /\ ts - s <= e - s BY <1>1
  <2> QED BY <2>1, DecayBounds
<1> QED BY <1>1, <1>2, <1>3 DEF Falling, Auction

(* It does not rise. *)
LEMMA PriceFalls ==
    ASSUME NEW o, Falling(o), NEW t \in Int, NEW u \in Int, t <= u
    PROVE  CurrentPrice(o, u) <= CurrentPrice(o, t)
<1> DEFINE s == Int64(o.startTime)
           e == Int64(o.endTime)
           fall == o.startPrice - o.price
<1>1. s \in Nat /\ e \in Nat /\ s < e /\ fall \in Nat
  BY DEF Falling, Auction
<1> HIDE DEF s, e
<1>2. \A v \in Int : CurrentPrice(o, v) = IF v <= s THEN o.startPrice
                                          ELSE IF v >= e THEN o.price
                                          ELSE Decayed(o, v - s, e - s)
  BY AuctionPrice DEF Falling, s, e
<1>3. \A v \in Int : s < v /\ v < e => Decayed(o, v - s, e - s) \in o.price..o.startPrice
  <2> SUFFICES ASSUME NEW v \in Int, s < v, v < e
               PROVE  Decayed(o, v - s, e - s) \in o.price..o.startPrice
    OBVIOUS
  <2>1. v - s \in Nat /\ e - s \in Nat \ {0} /\ v - s <= e - s
    BY <1>1
  <2> QED BY <2>1, DecayBounds
<1>4. CASE s < t /\ u < e
  <2>1. t - s \in Nat /\ u - s \in Nat /\ t - s <= u - s /\ e - s \in Nat \ {0}
    BY <1>1, <1>4
  <2>2. fall * (t - s) <= fall * (u - s) /\ fall * (t - s) \in Int /\ fall * (u - s) \in Int
    BY <1>1, <2>1, ProductGrows, ProductIsInt
  <2>3. (fall * (t - s)) \div (e - s) <= (fall * (u - s)) \div (e - s)
    BY <2>1, <2>2, DivGrows
  <2>4. (fall * (t - s)) \div (e - s) \in Int /\ (fall * (u - s)) \div (e - s) \in Int
    BY <2>1, <2>2, DivBounds
  <2>5. Decayed(o, u - s, e - s) <= Decayed(o, t - s, e - s)
    BY <2>3, <2>4 DEF Decayed, Falling, Auction
  <2> QED BY <1>1, <1>2, <1>4, <2>5
<1>5. CASE ~ (s < t /\ u < e)
  BY <1>1, <1>2, <1>3, <1>5 DEF Falling, Auction
<1> QED BY <1>4, <1>5

-----------------------------------------------------------------------------
(* What Submit has found out about an order it accepts at time t. *)
Passed(d, t) ==
    /\ d.startTime > 0 => ~ (Int64(d.startTime) < t - Past)
    /\ ~ (d.endTime > 0 /\ Int64(d.endTime) <= t)
    /\ d.kind \in 0..4 /\ d.price > 0
    /\ d.kind = 1 => d.price < d.startPrice /\ d.startTime < d.endTime

OfferInv ==
    /\ now \in FirstTime..MaxTime
    /\ request \in Requests
    /\ Offered =>
        /\ since \in FirstTime..now
        /\ Binds(request) /\ Passed(ToDomain(request), since)
        /\ row = Columns(ToDomain(request))

(* The fields of a request after the conversion. *)
LEMMA Converted ==
    ASSUME NEW r \in RequestRecord, Binds(r)
    PROVE  LET d == ToDomain(r)
           IN  /\ d.startTime = Uint64(r.startTime) /\ d.startTime \in 0..(Wrap - 1)
               /\ d.endTime = Uint64(r.endTime) /\ d.endTime \in 0..(Wrap - 1)
               /\ d.kind = r.kind % 256 /\ d.kind \in Nat
               /\ d.price \in Int /\ d.startPrice \in Int
               /\ \A f \in {"amount", "price", "startPrice"} :
                     Number(d, f) = Number(r, f) /\ Number(r, f) \in Int
               /\ Number(r, "price") \in {0, d.price}
               /\ "startPrice" \notin r.garbled => Number(r, "startPrice") = d.startPrice
<1>1. Uint64(r.startTime) \in 0..(Wrap - 1) /\ Uint64(r.endTime) \in 0..(Wrap - 1)
  <2>1. CASE r.via = "graphql"
    BY <2>1, ThereAndBack DEF Binds, RequestRecord
  <2>2. CASE r.via = "rest"
    <3>1. r.startTime \in 0..(Wrap - 1) /\ r.endTime \in 0..(Wrap - 1)
      BY <2>2, WrapAssumption DEF Binds, WrapAssumption
    <3> QED BY <3>1, ThereAndBack
  <2> QED BY <2>1, <2>2 DEF Binds
<1>2. r.kind % 256 \in Nat
  <2>1. r.kind \in Int BY DEF RequestRecord
  <2> QED BY <2>1, ModBounds
<1>3. /\ r.amount \in Int /\ r.price \in Int /\ r.startPrice \in Int
      /\ ToDomain(r).garbled = r.garbled /\ ToDomain(r).amount = r.amount
      /\ ToDomain(r).price = r.price /\ ToDomain(r).startPrice = r.startPrice
  BY DEF ToDomain, RequestRecord
<1>4. \A f \in {"amount", "price", "startPrice"} :
         Number(ToDomain(r), f) = Number(r, f) /\ Number(r, f) \in Int
  BY <1>3 DEF Number
<1>5. /\ Number(r, "price") \in {0, r.price}
      /\ "startPrice" \notin r.garbled => Number(r, "startPrice") = r.startPrice
  BY DEF Number
<1>6. /\ ToDomain(r).startTime = Uint64(r.startTime)
      /\ ToDomain(r).endTime = Uint64(r.endTime)
      /\ ToDomain(r).kind = r.kind % 256
  BY DEF ToDomain, RequestRecord
<1> QED BY <1>1, <1>2, <1>3, <1>4, <1>5, <1>6

(* A request that fails no check has passed them. *)
LEMMA NothingFailing ==
    ASSUME NEW r \in RequestRecord, Binds(r), Failing(ToDomain(r)) = {}, now \in Int
    PROVE  Passed(ToDomain(r), now)
<1> DEFINE d == ToDomain(r)
<1>1. DOMAIN Checks(d) = 1..13
  BY DEF Checks
<1>2. \A i \in 1..13 : ~ Checks(d)[i][2]
  BY <1>1 DEF Failing
<1>3. ~ Checks(d)[5][2] /\ ~ Checks(d)[8][2] /\ ~ Checks(d)[9][2] /\ ~ Checks(d)[11][2]
      /\ ~ Checks(d)[12][2] /\ ~ Checks(d)[13][2]
  BY <1>2
<1>4. /\ Checks(d)[5] = <<"INVALID_KIND", d.kind > 4>>
      /\ Checks(d)[8] = <<"INVALID_PRICE", d.price <= 0>>
      /\ Checks(d)[9] = <<"ORDER_EXPIRED", StartsTooEarly(d)>>
      /\ Checks(d)[11] = <<"ORDER_EXPIRED", Ends(d)>>
      /\ Checks(d)[12] = <<"INVALID_DUTCH_AUCTION", IsAuction(d) /\ d.startPrice <= d.price>>
      /\ Checks(d)[13] = <<"INVALID_DUTCH_AUCTION", IsAuction(d) /\ d.endTime <= d.startTime>>
  BY DEF Checks
<1>5. /\ Checks(d)[5][2] = (d.kind > 4)
      /\ Checks(d)[8][2] = (d.price <= 0)
      /\ Checks(d)[9][2] = StartsTooEarly(d)
      /\ Checks(d)[11][2] = Ends(d)
      /\ Checks(d)[12][2] = (IsAuction(d) /\ d.startPrice <= d.price)
      /\ Checks(d)[13][2] = (IsAuction(d) /\ d.endTime <= d.startTime)
  BY <1>4
<1>6. ~ (d.kind > 4) /\ ~ (d.price <= 0) /\ ~ StartsTooEarly(d) /\ ~ Ends(d)
      /\ ~ (IsAuction(d) /\ d.startPrice <= d.price)
      /\ ~ (IsAuction(d) /\ d.endTime <= d.startTime)
  BY <1>3, <1>5
<1>7. /\ d.startTime \in 0..(Wrap - 1) /\ d.endTime \in 0..(Wrap - 1)
      /\ d.kind \in Nat /\ d.price \in Int /\ d.startPrice \in Int
  BY Converted
<1> HIDE DEF d
<1>8. Passed(d, now)
  BY <1>6, <1>7, WrapAssumption DEF Passed, StartsTooEarly, Ends, IsAuction, WrapAssumption
<1> QED BY <1>8 DEF d

LEMMA OfferInit == Init => OfferInv
BY OfferAssumption DEF OfferAssumption, Init, OfferInv, Offered

LEMMA OfferStep == OfferInv /\ [Next]_vars => OfferInv'
<1> SUFFICES ASSUME OfferInv, [Next]_vars PROVE OfferInv'
  OBVIOUS
<1>1. CASE Reject
  BY <1>1 DEF Reject, Refuse, OfferInv, Offered
<1>2. CASE SubmitRefused
  BY <1>2 DEF SubmitRefused, Refuse, OfferInv, Offered
<1>3. CASE PersistFails
  BY <1>3 DEF PersistFails, Refuse, OfferInv, Offered
<1>4. CASE Submit
  <2>1. now \in FirstTime..MaxTime /\ request \in RequestRecord /\ now \in Int
    BY OfferAssumption DEF OfferAssumption, OfferInv
  <2>2. Passed(ToDomain(request), now)
    BY <1>4, <2>1, NothingFailing DEF Submit
  <2>3. /\ now' = now /\ request' = request /\ since' = now
        /\ row' = Columns(ToDomain(request)) /\ Binds(request)
    BY <1>4 DEF Submit
  <2>4. since' \in FirstTime..now'
    BY <2>1, <2>3, OfferAssumption DEF OfferAssumption
  <2> QED BY <2>2, <2>3, <2>4 DEF OfferInv
<1>5. CASE Tick
  <2>1. now' \in FirstTime..MaxTime /\ \A t \in FirstTime..now : t \in FirstTime..now'
    BY <1>5, OfferAssumption DEF Tick, OfferInv, OfferAssumption
  <2>2. row' = row /\ request' = request /\ since' = since
    BY <1>5 DEF Tick
  <2> QED BY <2>1, <2>2 DEF OfferInv, Offered
<1>6. CASE UNCHANGED vars
  BY <1>6 DEF vars, OfferInv, Offered
<1> QED BY <1>1, <1>2, <1>3, <1>4, <1>5, <1>6 DEF Next

-----------------------------------------------------------------------------
(* What readers get is what was converted. *)
LEMMA ReadBack ==
    ASSUME OfferInv, Offered
    PROVE  LET o == Scan(row)
               d == ToDomain(request)
           IN  /\ o.kind = Kinds[d.kind + 1] /\ row.kind = o.kind
               /\ o.price = Number(request, "price") /\ o.price \in Int
               /\ o.startPrice = Number(request, "startPrice") /\ o.startPrice \in Int
               /\ o.price \in {0, d.price} /\ d.price \in Int
               /\ StartParses => o.startPrice = d.startPrice
               /\ o.startTime = d.startTime /\ o.startTime \in 0..(Wrap - 1)
               /\ o.endTime = d.endTime /\ o.endTime \in 0..(Wrap - 1)
               /\ row.expiredAt = IF d.endTime > 0 THEN Int64(d.endTime) ELSE 0
               /\ since \in Nat /\ now \in Nat /\ since <= now
               /\ 0 < since /\ Past <= since
               /\ Passed(d, since)
<1> DEFINE d == ToDomain(request)
<1>1. request \in RequestRecord /\ Binds(request) /\ Passed(d, since) /\ row = Columns(d)
  BY OfferAssumption DEF OfferInv, OfferAssumption
<1>2. /\ d.startTime \in 0..(Wrap - 1) /\ d.endTime \in 0..(Wrap - 1)
      /\ Number(d, "price") = Number(request, "price")
      /\ Number(d, "startPrice") = Number(request, "startPrice")
      /\ Number(request, "price") \in Int /\ Number(request, "startPrice") \in Int
      /\ Number(request, "price") \in {0, d.price} /\ d.price \in Int
      /\ StartParses => Number(request, "startPrice") = d.startPrice
  BY <1>1, Converted DEF StartParses
<1>3. Uint64(Int64(d.startTime)) = d.startTime /\ Uint64(Int64(d.endTime)) = d.endTime
  BY <1>2, ThereAndBack
<1>4. now \in FirstTime..MaxTime /\ since \in FirstTime..now
  BY DEF OfferInv
<1>5. since \in Nat /\ now \in Nat /\ since <= now /\ 0 < since /\ Past <= since
  BY <1>4, OfferAssumption DEF OfferAssumption
<1> HIDE DEF d
<1>6. LET o == Scan(row)
      IN  /\ o.kind = Kinds[d.kind + 1] /\ row.kind = o.kind
          /\ o.price = Number(d, "price") /\ o.startPrice = Number(d, "startPrice")
          /\ o.startTime = Uint64(Int64(d.startTime)) /\ o.endTime = Uint64(Int64(d.endTime))
          /\ row.expiredAt = IF d.endTime > 0 THEN Int64(d.endTime) ELSE 0
  BY <1>1 DEF Scan, Columns
<1> QED BY <1>1, <1>2, <1>3, <1>5, <1>6 DEF d

(* An auction in the table runs between the signed times of its request.   *)
LEMMA AuctionTerms ==
    ASSUME OfferInv, Auctioned
    PROVE  LET o == Scan(row)
           IN  /\ Offered /\ Auction(o) /\ (StartParses => Falling(o))
               /\ Int64(o.startTime) = request.startTime
               /\ Int64(o.endTime) = request.endTime
               /\ o.price = Number(request, "price")
               /\ o.startPrice = Number(request, "startPrice")
               /\ request.startTime # 0 => since <= request.startTime + Past
<1> DEFINE o == Scan(row)
           d == ToDomain(request)
<1>1. Offered
  BY DEF Auctioned, Offered, NoRow
<1>2. /\ o.kind = Kinds[d.kind + 1] /\ row.kind = o.kind
      /\ o.price = Number(request, "price") /\ o.price \in Int
      /\ o.startPrice = Number(request, "startPrice") /\ o.startPrice \in Int
      /\ o.price \in {0, d.price} /\ d.price \in Int
      /\ StartParses => o.startPrice = d.startPrice
      /\ o.startTime = d.startTime /\ o.startTime \in 0..(Wrap - 1)
      /\ o.endTime = d.endTime /\ o.endTime \in 0..(Wrap - 1)
      /\ since \in Nat /\ 0 < since /\ Past <= since
      /\ Passed(d, since)
  BY <1>1, ReadBack
<1>3. request \in RequestRecord /\ Binds(request)
  BY <1>1, OfferAssumption DEF OfferInv, OfferAssumption
<1>4. d.startTime = Uint64(request.startTime) /\ d.endTime = Uint64(request.endTime)
  BY <1>3, Converted
<1>5. Past \in Nat /\ Wrap \in Nat \ {0}
  BY OfferAssumption, WrapAssumption DEF OfferAssumption, WrapAssumption
<1> HIDE DEF o, d
<1>6. o.kind = "DutchAuction" /\ d.kind = 1
  <2>1. d.kind \in 0..4 BY <1>2 DEF Passed
  <2>2. Kinds[d.kind + 1] = "DutchAuction" BY <1>2 DEF Auctioned
  <2> QED BY <1>2, <2>1, <2>2 DEF Kinds
<1>7. /\ d.startTime > 0 => ~ (Int64(d.startTime) < since - Past)
      /\ ~ (d.endTime > 0 /\ Int64(d.endTime) <= since)
      /\ 0 < d.price /\ d.price < d.startPrice /\ d.startTime < d.endTime
  BY <1>2, <1>6 DEF Passed
(* Both times lie in the lower half of the numbers. *)
<1>8. /\ Int64(d.startTime) = d.startTime /\ Int64(d.endTime) = d.endTime
      /\ d.startTime \in Nat /\ d.endTime \in Nat
  BY <1>2, <1>5, <1>7 DEF Int64
<1>9. Int64(d.startTime) = request.startTime /\ Int64(d.endTime) = request.endTime
  <2>1. CASE request.via = "graphql"
    <3>1. \A t \in {request.startTime, request.endTime} :
             t \in Int /\ -Wrap <= 2 * t /\ 2 * t < Wrap
      BY <1>3, <2>1 DEF Binds, RequestRecord
    <3> QED BY <1>4, <3>1, ThereAndBack
  <2>2. CASE request.via = "rest"
    <3>1. request.startTime \in 0..(Wrap - 1) /\ request.endTime \in 0..(Wrap - 1)
      BY <1>3, <1>5, <2>2 DEF Binds
    <3> QED BY <1>4, <1>8, <3>1, ThereAndBack
  <2> QED BY <1>3, <2>1, <2>2 DEF Binds
<1>10. Auction(o) /\ (StartParses => Falling(o))
  <2>1. Auction(o) BY <1>2, <1>6, <1>7, <1>8 DEF Auction
  <2>2. StartParses => o.price < o.startPrice
    <3> SUFFICES ASSUME StartParses PROVE o.price < o.startPrice
      OBVIOUS
    <3>1. o.startPrice = d.startPrice /\ d.startPrice \in Int BY <1>2
    <3> QED BY <1>2, <1>7, <3>1
  <2> QED BY <2>1, <2>2 DEF Falling
<1>11. request.startTime # 0 => since <= request.startTime + Past
  BY <1>2, <1>5, <1>7, <1>8, <1>9
<1> QED BY <1>1, <1>2, <1>9, <1>10, <1>11 DEF o

LEMMA SpecInv == Spec => []OfferInv
BY OfferInit, OfferStep, PTL DEF Spec

(* Whatever number its end time is, an order is accepted only before its   *)
(* end, and the sweep and the readers agree on when it is over.            *)
THEOREM AcceptedOrdersAreOpen == Spec => []AcceptedIsOpen
<1>1. OfferInv => AcceptedIsOpen
  <2> SUFFICES ASSUME OfferInv, Offered PROVE AcceptedIsOpen
    BY DEF AcceptedIsOpen
  <2> DEFINE o == Scan(row)
             d == ToDomain(request)
  <2>1. /\ o.endTime = d.endTime /\ o.endTime \in 0..(Wrap - 1)
        /\ row.expiredAt = IF d.endTime > 0 THEN Int64(d.endTime) ELSE 0
        /\ since \in Nat /\ now \in Nat /\ 0 < since
        /\ Passed(d, since)
    BY ReadBack
  <2>2. Wrap \in Nat \ {0} BY WrapAssumption DEF WrapAssumption
  <2> HIDE DEF o, d
  <2>3. d.endTime > 0 => Int64(d.endTime) # 0 /\ Int64(d.endTime) \in Int
    BY <2>1, <2>2 DEF Int64
  <2>4. ~ (d.endTime > 0 /\ Int64(d.endTime) <= since)
    BY <2>1 DEF Passed
  <2>5. now = since => ~ IsExpired(o, now)
    BY <2>1, <2>3, <2>4 DEF IsExpired
  <2>6. IsExpired(o, now) <=> (row.expiredAt # 0 /\ row.expiredAt <= now)
    BY <2>1, <2>3 DEF IsExpired
  <2> QED BY <2>5, <2>6 DEF AcceptedIsOpen, o
<1> QED BY <1>1, SpecInv, PTL

(* Every reader is quoted the line between the two signed prices, rounded  *)
(* up to a unit, through the conversions, the table and back, also where a *)
(* price does not parse and is signed and stored as 0.                     *)
THEOREM QuotesAreOnTheLine == Spec => []QuoteIsOnTheLine
<1>1. OfferInv => QuoteIsOnTheLine
  <2> SUFFICES ASSUME OfferInv, Auctioned PROVE QuoteIsOnTheLine
    BY DEF QuoteIsOnTheLine
  <2> DEFINE o == Scan(row)
             elapsed == now - request.startTime
             duration == request.endTime - request.startTime
             startPrice == Number(request, "startPrice")
             price == Number(request, "price")
             fall == startPrice - price
  <2>1. /\ Auction(o)
        /\ Int64(o.startTime) = request.startTime /\ Int64(o.endTime) = request.endTime
        /\ o.price = price /\ o.startPrice = startPrice
    BY AuctionTerms
  <2>2. now \in Int
    BY OfferAssumption DEF OfferAssumption, OfferInv
  <2> HIDE DEF o
  <2>3. CurrentPrice(o, now) = IF now <= request.startTime THEN startPrice
                               ELSE IF now >= request.endTime THEN price
                               ELSE Decayed(o, elapsed, duration)
    BY <2>1, <2>2, AuctionPrice
  <2>4. /\ request.startTime \in Nat /\ request.endTime \in Nat
        /\ request.startTime < request.endTime
    BY <2>1 DEF Auction
  <2>5. CASE elapsed <= 0
    BY <2>2, <2>3, <2>4, <2>5 DEF QuoteIsOnTheLine, Quote, o
  <2>6. CASE elapsed >= duration
    BY <2>2, <2>3, <2>4, <2>6 DEF QuoteIsOnTheLine, Quote, o
  <2>7. CASE 0 < elapsed /\ elapsed < duration
    <3>1. elapsed \in Nat /\ duration \in Nat \ {0}
      BY <2>2, <2>4, <2>7
    <3>2. CurrentPrice(o, now) = Decayed(o, elapsed, duration)
      BY <2>2, <2>3, <2>4, <2>7
    <3> DEFINE q == Decayed(o, elapsed, duration)
    <3>3. /\ duration * (startPrice - q) <= fall * elapsed
          /\ fall * elapsed < duration * (startPrice - q + 1)
      BY <2>1, <3>1, DecayLine
    <3>4. ~ (elapsed <= 0) /\ ~ (elapsed >= duration)
      BY <2>2, <2>4, <2>7
    <3>5. Quote = q BY <3>2 DEF Quote, o
    <3> QED BY <3>3, <3>4, <3>5 DEF QuoteIsOnTheLine
  <2> QED BY <2>2, <2>4, <2>5, <2>6, <2>7
<1> QED BY <1>1, SpecInv, PTL

(* With a start time, and a start price that parses, an auction is quoted  *)
(* at least what it asks Past seconds after its start, when it is          *)
(* accepted.                                                               *)
THEOREM NewAuctionsAreFresh == Spec => []NewAuctionIsFresh
<1>1. OfferInv => NewAuctionIsFresh
  <2> SUFFICES ASSUME OfferInv, Auctioned, StartParses, request.startTime # 0
               PROVE  CurrentPrice(Scan(row), since) >=
                        CurrentPrice(Scan(row), request.startTime + Past)
    BY DEF NewAuctionIsFresh
  <2>1. /\ Offered /\ Falling(Scan(row))
        /\ Int64(Scan(row).startTime) = request.startTime
        /\ since <= request.startTime + Past
    BY AuctionTerms
  <2>2. since \in Int /\ request.startTime + Past \in Int /\ Past \in Nat
    BY <2>1, ReadBack, OfferAssumption DEF OfferAssumption, Falling, Auction
  <2>3. CurrentPrice(Scan(row), request.startTime + Past) <= CurrentPrice(Scan(row), since)
    BY <2>1, <2>2, PriceFalls
  <2>4. CurrentPrice(Scan(row), request.startTime + Past) \in Int
        /\ CurrentPrice(Scan(row), since) \in Int
    BY <2>1, <2>2, PriceIsInt
  <2> QED BY <2>3, <2>4
<1> QED BY <1>1, SpecInv, PTL

(* No step of the clock raises the price of an order whose start price was *)
(* stored as it was checked.                                               *)
THEOREM PricesOnlyFall == Spec => PriceOnlyFalls
<1>1. OfferInv /\ [Next]_vars =>
        [Offered /\ StartParses => CurrentPrice(Scan(row'), now') <= CurrentPrice(Scan(row), now)]_vars
  <2> SUFFICES ASSUME OfferInv, [Next]_vars, Offered, StartParses
               PROVE  CurrentPrice(Scan(row'), now') <= CurrentPrice(Scan(row), now)
    OBVIOUS
  <2>1. now \in Int /\ now' \in Int /\ now <= now' /\ row' = row
    BY OfferAssumption DEF OfferAssumption, OfferInv, Offered, Next, vars, Reject, SubmitRefused,
       Submit, PersistFails, Refuse, Tick
  <2>2. CASE Auctioned
    <3>1. Falling(Scan(row)) BY <2>2, AuctionTerms
    <3> QED BY <2>1, <3>1, PriceFalls
  <2>3. CASE ~ Auctioned
    <3>1. Scan(row).kind # "DutchAuction" /\ Scan(row).price \in Int
      BY <2>3, ReadBack DEF Auctioned
    <3>2. \A ts \in Int : CurrentPrice(Scan(row), ts) = Scan(row).price
      BY <3>1 DEF CurrentPrice
    <3> QED BY <2>1, <3>1, <3>2
  <2> QED BY <2>2, <2>3
<1> QED BY <1>1, SpecInv, PTL DEF Spec, PriceOnlyFalls

=============================================================================
