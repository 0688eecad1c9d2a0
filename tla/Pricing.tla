------------------------------- MODULE Pricing --------------------------------
(***************************************************************************)
(* The price and the end of an order as a reader computes them:            *)
(* Order.CurrentPrice and Order.IsExpired of internal/domain/order.go.     *)
(* An order o has a kind, price, startPrice, startTime and endTime; the    *)
(* times are unsigned integers below Wrap (2^64) which both functions      *)
(* take for signed ones.                                                   *)
(***************************************************************************)
EXTENDS Integers

CONSTANT Wrap   \* 2^64: the number of values of a uint64

ASSUME WrapAssumption == Wrap \in Nat \ {0}

(* int64(n), and uint64(i) back. *)
Int64(n) == IF 2 * n >= Wrap THEN n - Wrap ELSE n
Uint64(i) == i % Wrap

(* Mutant: the decay is taken from the end price. *)
MutDecayed(o, elapsed, duration) ==
    o.price - ((o.startPrice - o.price) * elapsed) \div duration

(* big.Int.Div with a positive divisor rounds down, as \div does. *)
Decayed(o, elapsed, duration) ==
    o.startPrice - ((o.startPrice - o.price) * elapsed) \div duration

CurrentPrice(o, ts) ==
    LET start == Int64(o.startTime)
        end == Int64(o.endTime)
    IN  IF o.kind # "DutchAuction" \/ end = 0 \/ end <= start THEN o.price
        ELSE IF ts <= start THEN o.startPrice
        ELSE IF ts >= end THEN o.price
        ELSE Decayed(o, ts - start, end - start)

(* Mutant: the second of the end time still counts. *)
MutIsExpired(o, ts) == o.endTime # 0 /\ ts > Int64(o.endTime)

IsExpired(o, ts) == o.endTime # 0 /\ ts >= Int64(o.endTime)

=============================================================================
