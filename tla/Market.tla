------------------------------- MODULE Market -------------------------------
(***************************************************************************)
(* Everything that writes the orders table, running at once:               *)
(*   - EventService.Handle (internal/service/event.go), called by any      *)
(*     number of watcher goroutines, for events in any order and again     *)
(*     when a log is replayed;                                             *)
(*   - OrderService.Submit and the REST handler or GraphQL mutation around *)
(*     it (internal/service/order.go, internal/handler/order.go);          *)
(*   - the scheduler's expiry sweep (internal/service/scheduler.go).       *)
(* A goroutine takes one step per SQL statement or broadcast, since other  *)
(* goroutines run between them.  The cache deletions change nothing: no    *)
(* code fills the keys InvalidateOrders deletes.                           *)
(*                                                                         *)
(* The hub is abstracted to what its listeners hear; Hub models it.        *)
(***************************************************************************)
EXTENDS OrderBook, FiniteSets

CONSTANTS
    Worker,      \* the watcher goroutines inside Handle
    Event,       \* the confirmed events, a subset of EventRecord
    Spelled,     \* [Hash -> Spelling]: how a request spells its collection
    Hardship     \* what may go wrong, a subset of {"fault", "crash"}

EventRecord ==
    [kind : {"OrderFulfilled"}, hash : Hash]
    \cup [kind : {"OrderCancelled"}, maker : Maker, salt : Salt]
    \cup [kind : {"CounterIncremented"}, maker : Maker, counter : 0..MaxCounter]
    \cup [kind : {"CollectionUpdated"}, collection : Collection, blocked : BOOLEAN]

(* An address in lower case, or with the capitals of its EIP-55 checksum. *)
Spelling == {"lower", "checksum"}

ASSUME SpellingAssumption == Spelled \in [Hash -> Spelling]

ASSUME EventAssumption == Event \subseteq EventRecord

ASSUME HardshipAssumption == Hardship \subseteq {"fault", "crash"}

VARIABLES
    pc,          \* [Worker -> the next step of Handle]
    job,         \* [Worker -> the event it handles, NoEvent when idle]
    cols,        \* [Worker -> collections still to be told]
    subm,        \* [Hash -> where the request that submits the order is]
    heard,       \* messages broadcast to a topic clients can subscribe to
    delivered    \* events handed to Handle so far (history)

workVars == <<pc, job, cols>>
vars == <<bookVars, workVars, subm, heard, delivered>>

NoEvent == [kind |-> "none"]

Steps == {"idle", "collect", "update", "find", "announce"}
SubmitSteps == {"idle", "checked", "stored"}

Init ==
    /\ BookInit
    /\ pc = [w \in Worker |-> "idle"]
    /\ job = [w \in Worker |-> NoEvent]
    /\ cols = [w \in Worker |-> {}]
    /\ subm = [h \in Hash |-> "idle"]
    /\ heard = {}
    /\ delivered = {}

(* Hub.Broadcast.  WSHandler never subscribes a client to the empty topic, *)
(* and otherwise takes the topics as the client spells them.               *)
Message(type, topic, subject) == [type |-> type, topic |-> topic, subject |-> subject]
Topic(c, spelling) == [collection |-> c, spelling |-> spelling]
NoTopic == Topic("none", "none")
Topics == [collection : Collection, spelling : Spelling]

(* Mutant: a client may subscribe to the empty topic. *)
MutBroadcast(m) == heard' = heard \cup {m}

Broadcast(m) == heard' = IF m.topic = NoTopic THEN heard ELSE heard \cup {m}

(* A collection read back from the table comes in lower case (hexEncode). *)
FilledMessage(h) == Message("order:filled", Topic(Order[h].collection, "lower"), h)
CancelledMessage(e, c) == Message("order:cancelled", Topic(c, "lower"), e)
CounterMessage(e) == Message("order:cancelled", NoTopic, e)

At(w, label) == pc[w] = label
Kind(w) == job[w].kind
Goto(w, label) == pc' = [pc EXCEPT ![w] = label]

Return(w) ==
    /\ pc' = [pc EXCEPT ![w] = "idle"]
    /\ job' = [job EXCEPT ![w] = NoEvent]
    /\ cols' = [cols EXCEPT ![w] = {}]

-----------------------------------------------------------------------------
(* EventService.Handle *)

FirstStep(e) ==
    CASE e.kind = "OrderFulfilled" -> "update"
      [] e.kind = "CollectionUpdated" -> IF e.blocked THEN "update" ELSE "announce"
      [] OTHER -> "collect"

Handle(w, e) ==
    /\ At(w, "idle")
    /\ job' = [job EXCEPT ![w] = e]
    /\ Goto(w, FirstStep(e))
    /\ delivered' = delivered \cup {e}
    /\ UNCHANGED <<bookVars, cols, subm, heard>>

(* GetMakerActiveCollections, before the cancellation and not with it. *)
Collect(w) ==
    /\ At(w, "collect")
    /\ cols' = [cols EXCEPT ![w] = MakerActiveCollections(job[w].maker)]
    /\ Goto(w, "update")
    /\ UNCHANGED <<bookVars, job, subm, heard, delivered>>

Update(w) ==
    /\ At(w, "update")
    /\ \/ /\ Kind(w) = "OrderFulfilled"
          /\ Fill(job[w].hash)
          /\ Goto(w, "find")
       \/ /\ Kind(w) = "OrderCancelled"
          /\ CancelByMakerSalt(job[w].maker, job[w].salt)
          /\ Goto(w, "announce")
       \/ /\ Kind(w) = "CounterIncremented"
          /\ CancelByMakerCounter(job[w].maker, job[w].counter)
          /\ Goto(w, "announce")
       \/ /\ Kind(w) = "CollectionUpdated"
          /\ CancelByCollection(job[w].collection)
          /\ Goto(w, "announce")
    /\ UNCHANGED <<job, cols, subm, heard, delivered>>

(* Mutant: the row is looked for among the active orders. *)
MutFindByHash(h) == h \in Active

FindByHash(h) == h \in Stored

(* order:filled goes out for every stored order, whether or not UpdateStatus *)
(* changed its row.                                                          *)
AnnounceFilled(w) ==
    /\ At(w, "find")
    /\ \/ FindByHash(job[w].hash) /\ Broadcast(FilledMessage(job[w].hash))
       \/ ~ FindByHash(job[w].hash) /\ UNCHANGED heard
    /\ Return(w)
    /\ UNCHANGED <<bookVars, subm, delivered>>

(* Mutant: the loop over the collections stops after the first. *)
MutRemaining(w, c) == {}

Remaining(w, c) == cols[w] \ {c}

AnnounceCancelled(w) ==
    /\ At(w, "announce")
    /\ Kind(w) = "OrderCancelled"
    /\ \/ \E c \in cols[w] :
            /\ Broadcast(CancelledMessage(job[w], c))
            /\ cols' = [cols EXCEPT ![w] = Remaining(w, c)]
            /\ UNCHANGED <<pc, job>>
       \/ /\ cols[w] = {}
          /\ Return(w)
          /\ UNCHANGED heard
    /\ UNCHANGED <<bookVars, subm, delivered>>

(* The collected collections only have their cache dropped; the message    *)
(* itself is broadcast to the empty topic.                                 *)
AnnounceCounter(w) ==
    /\ At(w, "announce")
    /\ Kind(w) = "CounterIncremented"
    /\ Broadcast(CounterMessage(job[w]))
    /\ Return(w)
    /\ UNCHANGED <<bookVars, subm, delivered>>

AnnounceCollection(w) ==
    /\ At(w, "announce")
    /\ Kind(w) = "CollectionUpdated"
    /\ Broadcast(Message("collection:updated", Topic(job[w].collection, "checksum"), job[w]))
    /\ Return(w)
    /\ UNCHANGED <<bookVars, subm, delivered>>

(* A failed statement ends the handler, except that a failed collection of *)
(* the collections is only logged.                                         *)
HandleFault(w) ==
    /\ "fault" \in Hardship
    /\ \/ At(w, "collect") /\ Goto(w, "update") /\ UNCHANGED <<job, cols>>
       \/ pc[w] \in {"update", "find"} /\ Return(w)
    /\ UNCHANGED <<bookVars, subm, heard, delivered>>

HandleStep(w) ==
    \/ Collect(w) \/ Update(w) \/ AnnounceFilled(w)
    \/ AnnounceCancelled(w) \/ AnnounceCounter(w) \/ AnnounceCollection(w)

-----------------------------------------------------------------------------
(* OrderService.Submit and its two callers. *)

(* Validation reads the clock once, before the order is written.  Neither  *)
(* the maker's counter, nor his cancelled salts, nor the blocked           *)
(* collections are looked at.                                              *)
SubmitCheck(h) ==
    /\ subm[h] = "idle"
    /\ Deadline(h) => Order[h].endTime > now
    /\ subm' = [subm EXCEPT ![h] = "checked"]
    /\ UNCHANGED <<bookVars, workVars, heard, delivered>>

(* The REST handler goes on to broadcast, the GraphQL mutation does not. *)
SubmitInsert(h) ==
    /\ subm[h] = "checked"
    /\ Insert(h)
    /\ \E next \in {"stored", "idle"} : subm' = [subm EXCEPT ![h] = next]
    /\ UNCHANGED <<workVars, heard, delivered>>

(* A unique index refuses the row, or the database fails. *)
SubmitRefused(h) ==
    /\ subm[h] = "checked"
    /\ ~ Insertable(h) \/ "fault" \in Hardship
    /\ subm' = [subm EXCEPT ![h] = "idle"]
    /\ UNCHANGED <<bookVars, workVars, heard, delivered>>

(* The metadata queue the REST handler also feeds is in module Metadata. *)
AnnounceNew(h) ==
    /\ subm[h] = "stored"
    /\ Broadcast(Message("order:new", Topic(Order[h].collection, Spelled[h]), h))
    /\ subm' = [subm EXCEPT ![h] = "idle"]
    /\ UNCHANGED <<bookVars, workVars, delivered>>

SubmitStep(h) == SubmitInsert(h) \/ SubmitRefused(h) \/ AnnounceNew(h)

(* expireOrdersLoop: the sweep, and nobody is told. *)
Sweep == ExpireOrders /\ UNCHANGED <<workVars, subm, heard, delivered>>

Clock == Tick /\ UNCHANGED <<workVars, subm, heard, delivered>>

(* The process stops with handlers and requests half done; clients that    *)
(* reconnect keep what they heard.                                         *)
Crash ==
    /\ "crash" \in Hardship
    /\ pc' = [w \in Worker |-> "idle"]
    /\ job' = [w \in Worker |-> NoEvent]
    /\ cols' = [w \in Worker |-> {}]
    /\ subm' = [h \in Hash |-> "idle"]
    /\ UNCHANGED <<bookVars, heard, delivered>>

Next ==
    \/ \E w \in Worker : HandleStep(w) \/ HandleFault(w) \/ \E e \in Event : Handle(w, e)
    \/ \E h \in Hash : SubmitCheck(h) \/ SubmitStep(h)
    \/ Sweep \/ Clock \/ Crash

Spec == Init /\ [][Next]_vars

(* A goroutine that has started runs on; which requests and events come is *)
(* up to the users and the chain.                                          *)
Fairness ==
    /\ \A w \in Worker : WF_vars(HandleStep(w))
    /\ \A h \in Hash : WF_vars(SubmitStep(h))
    /\ WF_vars(Sweep) /\ WF_vars(Clock)

FairSpec == Spec /\ Fairness

-----------------------------------------------------------------------------
TypeOK ==
    /\ BookTypeOK
    /\ pc \in [Worker -> Steps]
    /\ job \in [Worker -> Event \cup {NoEvent}]
    /\ cols \in [Worker -> SUBSET Collection]
    /\ subm \in [Hash -> SubmitSteps]
    /\ delivered \subseteq Event
    /\ \A m \in heard : m.topic \in Topics

Quiet ==
    /\ \A w \in Worker : At(w, "idle")
    /\ \A h \in Hash : subm[h] = "idle"

(* Whether an event is a reason for an order to have the status. *)
Closes(e, h, s) ==
    \/ s = "Filled" /\ e.kind = "OrderFulfilled" /\ e.hash = h
    \/ /\ s = "Cancelled"
       /\ \/ e.kind = "OrderCancelled" /\ MakerSalt(h) = <<e.maker, e.salt>>
          \/ /\ e.kind = "CounterIncremented"
             /\ e.maker = Order[h].maker /\ StoredCounter < e.counter
          \/ e.kind = "CollectionUpdated" /\ e.collection = Order[h].collection /\ e.blocked

(* No order is closed by an event that is not about it, however handlers,  *)
(* replays, submissions and sweeps are interleaved, and none expires early.*)
StatusHasCause ==
    \A h \in Hash : status[h] \in Terminal =>
        \/ status[h] = "Expired" /\ h \in Overdue
        \/ \E e \in delivered : Closes(e, h, status[h])

(* A fill, once recorded, is pushed to those who listen to the collection  *)
(* as the table spells it, whoever else touches the order in between.      *)
FillIsHeard ==
    \A h \in Hash : (status[h] = "Filled") ~> (FilledMessage(h) \in heard)

(* Each collection that a cancellation found affected, when it looked, is   *)
(* told of it. (An order inserted after the look is not: CancelIsHeard.)    *)
CollectedIsHeard ==
    \A c \in Collection, e \in {f \in Event : f.kind = "OrderCancelled"} :
        (\E w \in Worker : job[w] = e /\ c \in cols[w]) ~> (CancelledMessage(e, c) \in heard)

-----------------------------------------------------------------------------
(* Statements of the design that the code does not meet. *)

(* Design 4.3: an order whose update changed no row is skipped, so clients *)
(* hear order:filled of filled orders only.                                *)
FilledHeardIsFilled ==
    \A h \in Hash : FilledMessage(h) \in heard => status[h] = "Filled"

(* Design 5.4: a client subscribes to a collection and is pushed its events;*)
(* one that hears some message of a collection is in reach of all of them.  *)
OneTopicPerCollection ==
    \A m, n \in heard : m.topic.collection = n.topic.collection => m.topic = n.topic

(* Design 5.4: listeners of its collection hear that an order is cancelled.*)
CancelIsHeard ==
    Quiet => \A h \in Hash : status[h] = "Cancelled" =>
        \E m \in heard : m.type = "order:cancelled" /\ m.topic.collection = Order[h].collection

(* Design 5.4: listeners of its collection hear that an order expired. *)
ExpiryIsHeard ==
    Quiet => \A h \in Hash : status[h] = "Expired" =>
        \E m \in heard : m.type = "order:expired" /\ m.topic.collection = Order[h].collection

(* Design 5.2, rules 5 and 12: an order of a blocked collection, or below   *)
(* its maker's counter, is not taken into the book once the event that      *)
(* says so has been handled.                                                *)
VoidOrdersAreRefused ==
    Quiet => \A e \in delivered, h \in Active : ~ Closes(e, h, "Cancelled")
=============================================================================
