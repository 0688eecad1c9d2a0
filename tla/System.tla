-------------------------------- MODULE System --------------------------------
(***************************************************************************)
(* The path from the chain to the orders table: Watcher and OrderBook      *)
(* together.  A log is what a contract emitted (emitted); parseEvent makes *)
(* an event of it, and where Watcher counts a call of EventService.Handle  *)
(* this module runs the statement the event stands for.  Orders are        *)
(* submitted, and swept when they expire, at any time.                     *)
(*                                                                         *)
(* Market has the other statements and the messages of Handle; here it is  *)
(* one step, since only its update changes the table.                      *)
(***************************************************************************)
EXTENDS Watcher

CONSTANTS Hash, Maker, Salt, Collection, Order, MaxTime, MaxCounter,
    Histories       \* what the contracts may emit: a set of [Log -> RawLog]

VARIABLES
    status, now,    \* the orders table and its clock, see OrderBook
    emitted         \* the history that comes true, from the beginning

Book == INSTANCE OrderBook

bookVars == <<status, now>>
systemVars == <<vars, bookVars, emitted>>

(* A log: its first topic stands for the event's name, topics are the      *)
(* indexed arguments, words the others, 32 bytes each.                     *)
Topics == Hash \cup Maker \cup Salt \cup Collection
RawLog ==
    [topic0 : {"OrderFulfilled", "OrderCancelled", "CounterIncremented", "CollectionUpdated"},
     topics : Seq(Topics), words : Seq(Nat)]

ASSUME HistoriesAssumption == \A e \in Histories : e \in [Log -> RawLog]

(* The constants are those of an orders table. *)
ASSUME BookAssumption == Book!BoundsAssumption /\ Book!OrderAssumption

SystemInit ==
    /\ Init
    /\ Book!BookInit
    /\ emitted \in Histories

-----------------------------------------------------------------------------
(* Mutant: the counter is looked for behind another word. *)
MutNewCounter(log) == IF Len(log.words) >= 2 THEN log.words[2] ELSE 0

(* parseCounterIncremented: without data the counter is empty, and handled *)
(* as zero.                                                                *)
NewCounter(log) == IF Len(log.words) >= 1 THEN log.words[1] ELSE 0

(* Mutant: the flag is read from the word before. *)
MutBlocks(log) == Len(log.words) >= 1 /\ log.words[1] = 1

(* parseCollectionUpdated: data too short for its two words blocks nothing. *)
Blocks(log) == Len(log.words) >= 2 /\ log.words[2] = 1

(* parseEvent picks the parser by topic0, EventService.Handle the handler  *)
(* by the event's name: one UPDATE for each kind of log.                   *)
Statement(log) ==
    \/ /\ log.topic0 = "OrderFulfilled"
       /\ Book!Fill(log.topics[1])
    \/ /\ log.topic0 = "OrderCancelled"
       /\ Book!CancelByMakerSalt(log.topics[1], log.topics[2])
    \/ /\ log.topic0 = "CounterIncremented"
       /\ Book!CancelByMakerCounter(log.topics[1], NewCounter(log))
    \/ /\ log.topic0 = "CollectionUpdated" /\ Blocks(log)
       /\ Book!CancelByCollection(log.topics[1])
    \/ /\ log.topic0 = "CollectionUpdated" /\ ~ Blocks(log)
       /\ UNCHANGED bookVars

HandleEvent(p) == Handle(p) /\ Statement(emitted[LogOf(p)])

(* A step of the watcher that hands nothing to EventService. *)
WatchOnly == Next /\ ~ (\E p \in Proc : Handle(p)) /\ UNCHANGED bookVars

Submit(h) == Book!Insert(h) /\ UNCHANGED vars
Sweep == Book!ExpireOrders /\ UNCHANGED vars
Pass == Book!Tick /\ UNCHANGED vars

SystemNext ==
    /\ \/ WatchOnly
       \/ \E p \in Proc : HandleEvent(p)
       \/ \E h \in Hash : Submit(h)
       \/ Sweep \/ Pass
    /\ UNCHANGED emitted

SystemSpec == SystemInit /\ [][SystemNext]_systemVars

(* The fairness of the watcher; nobody has to submit anything. *)
FairSystem == SystemSpec /\ Fairness

-----------------------------------------------------------------------------
(* What the contracts mean by a log: that it makes order h void, or says   *)
(* that it is filled.                                                      *)
Says(log, h, s) ==
    \/ log.topic0 = "OrderFulfilled" /\ s = "Filled" /\ log.topics[1] = h
    \/ log.topic0 = "OrderCancelled" /\ s = "Cancelled"
       /\ log.topics[1] = Order[h].maker /\ log.topics[2] = Order[h].salt
    \/ log.topic0 = "CounterIncremented" /\ s = "Cancelled"
       /\ log.topics[1] = Order[h].maker /\ Len(log.words) >= 1 /\ log.words[1] > Book!StoredCounter
    \/ log.topic0 = "CollectionUpdated" /\ s = "Cancelled"
       /\ log.topics[1] = Order[h].collection /\ Len(log.words) >= 2 /\ log.words[2] = 1

(* Nobody's order is filled or cancelled in the table but by a log that is *)
(* on the chain, confirmed, and says so: through polls, waits, restarts    *)
(* and reorganisations, the parser and the statement it leads to.          *)
ClosedByTheChain ==
    \A h \in Hash : status[h] \in {"Filled", "Cancelled"} =>
        \E l \in Log : /\ OnChain(l) /\ BlockOf[l] + Confirmations <= latest
                       /\ Says(emitted[l], h, status[h])

(* What a log makes of a live order. *)
Verdict(log, h) ==
    IF Says(log, h, "Filled") THEN "Filled"
    ELSE IF Says(log, h, "Cancelled") THEN "Cancelled"
    ELSE "Active"

(* The table is the replay of the chain: each log, when its time comes,    *)
(* closes every live order it fills or voids and no other, in chain order, *)
(* once at most, and only when it is final, whatever its data look like    *)
(* and wherever submissions, sweeps and restarts fall.                     *)
Traded == INSTANCE Replay WITH
    chain   <- {l \in Log : OnChain(l)},
    final   <- {l \in Log : OnChain(l) /\ Confirmed(l)},
    gone    <- off,
    effects <- applied,
    makes   <- [l \in Log |-> [h \in Hash |-> Verdict(emitted[l], h)]],
    orders  <- status

ImplementsReplay == Traded!ReplaySpec

(* What the chain says of an order in the table comes about: it does not   *)
(* stay live when a log that stays on the chain closes it.                 *)
ChainClosesOrder ==
    \A l \in Log, h \in Hash :
        (/\ up /\ mined >= l /\ base < BlockOf[l] /\ applied[l] = 0
         /\ status[h] = "Active"
         /\ Says(emitted[l], h, "Filled") \/ Says(emitted[l], h, "Cancelled"))
        ~> (status[h] # "Active" \/ l \in off)

(* No order is offered that the chain has closed. *)
NoVoidOrder ==
    \A l \in Log, h \in Hash :
        applied[l] > 0 /\ l \notin off /\ status[h] = "Active"
        => ~ Says(emitted[l], h, "Filled") /\ ~ Says(emitted[l], h, "Cancelled")

=============================================================================
