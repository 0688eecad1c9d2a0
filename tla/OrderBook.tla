------------------------------ MODULE OrderBook ------------------------------
(***************************************************************************)
(* The orders table of the database and the statements of                  *)
(* internal/repository/order.go that change it.  A statement is one        *)
(* action: PostgreSQL runs each of them atomically, and the code never     *)
(* groups two of them in a transaction.                                    *)
(*                                                                         *)
(* An order is identified by its EIP-712 hash, which commits to the maker, *)
(* the salt, the collection and the end time; Order gives those for each   *)
(* hash.                                                                   *)
(***************************************************************************)
EXTENDS Naturals

CONSTANTS
    Hash,          \* the order hashes
    Maker,         \* the maker addresses
    Salt,          \* the salts
    Collection,    \* the collection addresses
    Order,         \* [Hash -> the signed fields this module needs]
    MaxTime,       \* bound of the clock
    MaxCounter     \* bound of the counters an event can carry

OrderRecord ==
    [maker : Maker, salt : Salt, collection : Collection, endTime : 0..MaxTime]

ASSUME BoundsAssumption == MaxTime \in Nat /\ MaxCounter \in Nat

ASSUME OrderAssumption == Order \in [Hash -> OrderRecord]

VARIABLES
    status,    \* [Hash -> Status]: the status column, "None" without a row
    now        \* NOW() of the database, capped at MaxTime

bookVars == <<status, now>>

Terminal == {"Filled", "Cancelled", "Expired"}
Status == {"None", "Active"} \cup Terminal

(* requestToOrder signs every order with this counter, so every row holds it. *)
StoredCounter == 0

MakerSalt(h) == <<Order[h].maker, Order[h].salt>>

Active == {h \in Hash : status[h] = "Active"}
Stored == {h \in Hash : status[h] # "None"}

BookInit ==
    /\ status = [h \in Hash |-> "None"]
    /\ now = 0

-----------------------------------------------------------------------------
(* INSERT INTO orders, refused by the unique order_hash and by the partial *)
(* unique index on (maker, salt) of the active rows.                       *)

(* Mutant: the partial index was never created. *)
MutInsertable(h) == status[h] = "None"

Insertable(h) ==
    /\ status[h] = "None"
    /\ \A g \in Active : MakerSalt(g) # MakerSalt(h)

Insert(h) ==
    /\ Insertable(h)
    /\ status' = [status EXCEPT ![h] = "Active"]
    /\ UNCHANGED now

(* Mutant: the statement lost its "AND status = 0". *)
MutSetWhere(W, s) ==
    /\ status' = [h \in Hash |-> IF h \in W /\ status[h] # "None" THEN s ELSE status[h]]
    /\ UNCHANGED now

(* UPDATE orders SET status = s WHERE h \in W AND status = 0 *)
SetWhere(W, s) ==
    /\ status' = [h \in Hash |-> IF h \in W /\ status[h] = "Active" THEN s ELSE status[h]]
    /\ UNCHANGED now

(* Mutant: the SMALLINT written is the next status code, which no status has. *)
MutFill(h) == SetWhere({h}, "4")

Fill(h) == SetWhere({h}, "Filled")

(* Mutant: the salt alone selects the rows. *)
MutCancelByMakerSalt(m, s) == SetWhere({h \in Hash : Order[h].salt = s}, "Cancelled")

CancelByMakerSalt(m, s) ==
    SetWhere({h \in Hash : MakerSalt(h) = <<m, s>>}, "Cancelled")

CancelByMakerCounter(m, minCounter) ==
    SetWhere({h \in Hash : Order[h].maker = m /\ StoredCounter < minCounter}, "Cancelled")

CancelByCollection(c) ==
    SetWhere({h \in Hash : Order[h].collection = c}, "Cancelled")

(* expired_at is NULL exactly when the order has no end time. *)
Deadline(h) == Order[h].endTime > 0

(* Mutant: the sweep compares with the wrong sign. *)
MutOverdue == {h \in Hash : Deadline(h) /\ Order[h].endTime > now}

Overdue == {h \in Hash : Deadline(h) /\ Order[h].endTime <= now}

ExpireOrders == SetWhere(Overdue, "Expired")

Tick ==
    /\ now < MaxTime
    /\ now' = now + 1
    /\ UNCHANGED status

-----------------------------------------------------------------------------
(* SELECT DISTINCT collection ... WHERE maker = m AND status = 0 *)
MakerActiveCollections(m) ==
    {Order[h].collection : h \in {g \in Active : Order[g].maker = m}}

BookNext ==
    \/ \E h \in Hash : Insert(h) \/ Fill(h)
    \/ \E m \in Maker, s \in Salt : CancelByMakerSalt(m, s)
    \/ \E m \in Maker, c \in 0..MaxCounter : CancelByMakerCounter(m, c)
    \/ \E c \in Collection : CancelByCollection(c)
    \/ ExpireOrders
    \/ Tick

BookSpec == BookInit /\ [][BookNext]_bookVars

(* Time passes and the scheduler's five-minute ticker never stops. *)
FairBookSpec == BookSpec /\ WF_bookVars(ExpireOrders) /\ WF_bookVars(Tick)

-----------------------------------------------------------------------------
BookTypeOK ==
    /\ status \in [Hash -> Status]
    /\ now \in 0..MaxTime

(* A maker's salt is live in at most one row, whatever order inserts,      *)
(* fills, cancels and sweeps come in: the index the design relies on as    *)
(* its last defence against duplicates (section 3.6).                      *)
OneActivePerSlot ==
    \A g, h \in Active : MakerSalt(g) = MakerSalt(h) => g = h

(* A status other than Active is final: "only transitions from Active are  *)
(* permitted" (UpdateStatus), and no statement of another caller reopens,  *)
(* overwrites or deletes a row.                                            *)
TerminalIsFinal ==
    [][\A h \in Hash : status[h] \in Terminal => status'[h] = status[h]]_bookVars

(* An order with an end time is not offered for ever, also one inserted    *)
(* after its end time because Submit read the clock earlier.               *)
DeadlineClosesOrder ==
    \A h \in Hash : (status[h] = "Active" /\ Deadline(h)) ~> (status[h] # "Active")

(* The table implements the abstract slots. *)
Slots == INSTANCE OrderSlots WITH
    Slot   <- Maker \X Salt,
    SlotOf <- [h \in Hash |-> MakerSalt(h)],
    live   <- [s \in Maker \X Salt |-> {h \in Active : MakerSalt(h) = s}],
    closed <- {h \in Hash : status[h] \in Terminal}

(* Every statement is a step of the slots, or changes nothing readers see. *)
ImplementsSlots == Slots!Spec
=============================================================================
