----------------------------- MODULE OrderSlots -----------------------------
(***************************************************************************)
(* What the order table promises to everyone who reads it, with no SQL in  *)
(* sight: a maker's salt is a slot, a slot holds at most one live order,   *)
(* and an order that has left its slot never comes back.                   *)
(*                                                                         *)
(* OrderBook is shown to implement this specification.                     *)
(***************************************************************************)
EXTENDS Naturals

CONSTANTS
    Hash,     \* the order hashes
    Slot,     \* the (maker, salt) pairs
    SlotOf    \* [Hash -> Slot]: the slot an order was signed for

VARIABLES
    live,     \* [Slot -> SUBSET Hash]: the order, if any, the slot holds
    closed    \* the orders that were live once and are no more

slotVars == <<live, closed>>

Init ==
    /\ live = [s \in Slot |-> {}]
    /\ closed = {}

(* An order takes its slot only when the slot is free, and only once. *)
Open(h) ==
    /\ live[SlotOf[h]] = {}
    /\ h \notin closed
    /\ live' = [live EXCEPT ![SlotOf[h]] = {h}]
    /\ UNCHANGED closed

(* Any number of occupied slots are vacated at once: a fill and a cancel by *)
(* salt vacate one, a counter increment, a blocked collection and the       *)
(* expiry sweep vacate many.                                                *)
Close(S) ==
    /\ S # {}
    /\ \A s \in S : live[s] # {}
    /\ live' = [s \in Slot |-> IF s \in S THEN {} ELSE live[s]]
    /\ closed' = closed \cup UNION {live[s] : s \in S}

Next ==
    \/ \E h \in Hash : Open(h)
    \/ \E S \in SUBSET Slot : Close(S)

Spec == Init /\ [][Next]_slotVars
=============================================================================
