---------------------------- MODULE MarketProofs ----------------------------
(***************************************************************************)
(* Handlers, requests and the sweep, however many run and whatever order   *)
(* their steps take, only ever issue statements of OrderBook; so the table *)
(* keeps what OrderBookProofs shows of it.  And each closed row can be     *)
(* traced to an event that names it, or to its own end time.               *)
(* Readers of the table see pages that miss no row, and a best order that  *)
(* is not beaten, for every set of orders and every order of statements.   *)
(***************************************************************************)
EXTENDS Market, Listing, OrderBookProofs, FiniteSetTheorems

(* What a busy handler holds: an event that was delivered.  Only the two   *)
(* cancelling handlers collect collections, and a collection is only taken *)
(* off the market when it is blocked.                                      *)
JobInv ==
    /\ pc \in [Worker -> Steps]
    /\ job \in [Worker -> Event \cup {NoEvent}]
    /\ delivered \subseteq Event
    /\ \A w \in Worker : pc[w] # "idle" => job[w] \in delivered
    /\ \A w \in Worker : pc[w] = "collect" => Kind(w) # "CollectionUpdated"
    /\ \A w \in Worker :
          pc[w] = "update" /\ Kind(w) = "CollectionUpdated" => job[w].blocked

(* At the start no handler runs and nothing was delivered.                 *)
LEMMA JobInvInit == Init => JobInv
BY DEF Init, JobInv, Steps

(* The dispatch of Handle: each kind of event goes to its own first step.  *)
LEMMA FirstStepType ==
    ASSUME NEW e \in Event
    PROVE  /\ FirstStep(e) \in Steps
           /\ FirstStep(e) = "collect" => e.kind # "CollectionUpdated"
           /\ FirstStep(e) = "update" /\ e.kind = "CollectionUpdated" => e.blocked
BY DEF FirstStep, Steps

(* Every step of every handler keeps to the event the handler was given.   *)
LEMMA JobInvStep ==
    ASSUME JobInv, [Next]_vars
    PROVE  JobInv'
<1> USE DEF JobInv, Steps, Kind
<1>1. CASE UNCHANGED vars
  BY <1>1 DEF vars, workVars
<1>2. ASSUME NEW w \in Worker, NEW e \in Event, Handle(w, e)
      PROVE  JobInv'
  BY <1>2, FirstStepType DEF Handle, At, Goto
<1>3. ASSUME NEW w \in Worker, Collect(w)
      PROVE  JobInv'
  BY <1>3 DEF Collect, At, Goto
<1>4. ASSUME NEW w \in Worker, Update(w)
      PROVE  JobInv'
  BY <1>4 DEF Update, At, Goto
<1>5. ASSUME NEW w \in Worker, AnnounceFilled(w)
      PROVE  JobInv'
  BY <1>5 DEF AnnounceFilled, At, Return
<1>6. ASSUME NEW w \in Worker, AnnounceCancelled(w)
      PROVE  JobInv'
  BY <1>6 DEF AnnounceCancelled, At, Return
<1>7. ASSUME NEW w \in Worker, AnnounceCounter(w) \/ AnnounceCollection(w)
      PROVE  JobInv'
  BY <1>7 DEF AnnounceCounter, AnnounceCollection, At, Return
<1>8. ASSUME NEW w \in Worker, HandleFault(w)
      PROVE  JobInv'
  BY <1>8 DEF HandleFault, At, Goto, Return
<1>9. ASSUME NEW h \in Hash, SubmitCheck(h) \/ SubmitStep(h)
      PROVE  JobInv'
  BY <1>9 DEF SubmitCheck, SubmitStep, SubmitInsert, SubmitRefused, AnnounceNew, workVars
<1>10. CASE Sweep \/ Clock
  BY <1>10 DEF Sweep, Clock, workVars
<1>11. CASE Crash
  BY <1>11 DEF Crash
<1> QED
  BY <1>1, <1>2, <1>3, <1>4, <1>5, <1>6, <1>7, <1>8, <1>9, <1>10, <1>11 DEF Next, HandleStep

(* A handler always works on a delivered event.                            *)
LEMMA JobInvHolds == Spec => []JobInv
BY JobInvInit, JobInvStep, PTL DEF Spec

-----------------------------------------------------------------------------
(* The fields an event of each kind has. *)
LEMMA EventFields ==
    ASSUME NEW e \in Event
    PROVE  /\ e.kind = "OrderFulfilled" => e.hash \in Hash
           /\ e.kind = "OrderCancelled" => e.maker \in Maker /\ e.salt \in Salt
           /\ e.kind = "CounterIncremented" => e.maker \in Maker /\ e.counter \in 0..MaxCounter
           /\ e.kind = "CollectionUpdated" => e.collection \in Collection /\ e.blocked \in BOOLEAN
BY EventAssumption DEF EventRecord

(* The update of a handler is one of the statements of the order table.    *)
LEMMA UpdateIsStatement ==
    ASSUME JobInv, NEW w \in Worker, Update(w)
    PROVE  BookNext
<1>1. job[w] \in Event
  BY DEF JobInv, Update, At
<1> QED
  BY <1>1, EventFields DEF Update, Kind, BookNext

(* Every step of the market is one statement of the order table, or none.  *)
LEMMA StepIsStatement ==
    ASSUME JobInv, [Next]_vars
    PROVE  [BookNext]_bookVars
<1>1. CASE UNCHANGED vars
  BY <1>1 DEF vars
<1>2. ASSUME NEW w \in Worker, HandleStep(w) \/ HandleFault(w) \/ \E e \in Event : Handle(w, e)
      PROVE  [BookNext]_bookVars
  BY <1>2, UpdateIsStatement
     DEF HandleStep, HandleFault, Handle, Collect, AnnounceFilled, AnnounceCancelled,
         AnnounceCounter, AnnounceCollection
<1>3. ASSUME NEW h \in Hash, SubmitCheck(h) \/ SubmitStep(h)
      PROVE  [BookNext]_bookVars
  BY <1>3 DEF SubmitCheck, SubmitStep, SubmitInsert, SubmitRefused, AnnounceNew, BookNext
<1>4. CASE Sweep \/ Clock
  BY <1>4 DEF Sweep, Clock, BookNext
<1>5. CASE Crash
  BY <1>5 DEF Crash
<1> QED BY <1>1, <1>2, <1>3, <1>4, <1>5 DEF Next

(* Event handlers, submissions and the sweep together implement the orders *)
(* table: none of their interleavings does more than run its statements.   *)
THEOREM MarketImplementsBook == Spec => BookSpec
<1>1. Init => BookInit
  BY DEF Init
<1> QED BY <1>1, JobInvHolds, StepIsStatement, PTL DEF Spec, BookSpec

(* So two live orders never share a maker's salt, ... *)
THEOREM MarketSlotIsUnique == Spec => []OneActivePerSlot
BY MarketImplementsBook, SlotIsUnique, PTL

(* ... and no handler, replay or late submission reopens a closed order. *)
THEOREM MarketTerminalIsFinal == Spec => TerminalIsFinal
BY MarketImplementsBook, TerminalStatusIsFinal, PTL

-----------------------------------------------------------------------------
CauseInv == JobInv /\ BookInv /\ StatusHasCause

(* A statement that closes only orders some delivered event closes, or ones *)
(* that are overdue, keeps the invariant.                                   *)
LEMMA JustifiedUpdate ==
    ASSUME BookInv, StatusHasCause, NEW W, NEW s \in Terminal, SetWhere(W, s),
           delivered' = delivered, delivered \subseteq Event,
           \A h \in Hash \cap W : \/ s = "Expired" /\ h \in Overdue
                                  \/ \E e \in delivered : Closes(e, h, s)
    PROVE  StatusHasCause'
<1>1. \A h \in Hash : status'[h] = IF h \in W /\ status[h] = "Active" THEN s ELSE status[h]
  BY DEF SetWhere
<1>2. Overdue' = Overdue
  BY DEF SetWhere, Overdue, Deadline
<1>3. ASSUME NEW h \in Hash, status'[h] \in Terminal
      PROVE  \/ status'[h] = "Expired" /\ h \in Overdue
             \/ \E e \in delivered : Closes(e, h, status'[h])
  <2>1. CASE h \in W /\ status[h] = "Active"
    BY <1>1, <2>1
  <2>2. CASE ~ (h \in W /\ status[h] = "Active")
    BY <1>1, <1>3, <2>2 DEF StatusHasCause
  <2> QED BY <2>1, <2>2
<1> QED BY <1>2, <1>3 DEF StatusHasCause, Closes, MakerSalt, StoredCounter

(* A handler's update only closes orders that its event is about.          *)
LEMMA CauseUpdate ==
    ASSUME CauseInv, NEW w \in Worker, Update(w)
    PROVE  StatusHasCause'
<1> DEFINE e == job[w]
<1>1. e \in Event /\ e \in delivered /\ delivered' = delivered /\ delivered \subseteq Event
  BY DEF CauseInv, JobInv, Update, At
<1>2. BookInv /\ StatusHasCause
  BY DEF CauseInv
<1>3. CASE e.kind = "OrderFulfilled"
  <2>1. SetWhere({e.hash}, "Filled")
    BY <1>3 DEF Update, Kind, Fill
  <2>2. \A h \in {e.hash} : Closes(e, h, "Filled")
    BY <1>3 DEF Closes
  <2> QED BY <1>1, <1>2, <2>1, <2>2, JustifiedUpdate DEF Terminal
<1>4. CASE e.kind = "OrderCancelled"
  <2>1. SetWhere({h \in Hash : MakerSalt(h) = <<e.maker, e.salt>>}, "Cancelled")
    BY <1>4 DEF Update, Kind, CancelByMakerSalt
  <2>2. \A h \in {g \in Hash : MakerSalt(g) = <<e.maker, e.salt>>} : Closes(e, h, "Cancelled")
    BY <1>4 DEF Closes
  <2> QED BY <1>1, <1>2, <2>1, <2>2, JustifiedUpdate DEF Terminal
<1>5. CASE e.kind = "CounterIncremented"
  <2>1. SetWhere({h \in Hash : Order[h].maker = e.maker /\ StoredCounter < e.counter}, "Cancelled")
    BY <1>5 DEF Update, Kind, CancelByMakerCounter
  <2>2. \A h \in {g \in Hash : Order[g].maker = e.maker /\ StoredCounter < e.counter} :
            Closes(e, h, "Cancelled")
    BY <1>5 DEF Closes
  <2> QED BY <1>1, <1>2, <2>1, <2>2, JustifiedUpdate DEF Terminal
<1>6. CASE e.kind = "CollectionUpdated"
  <2>1. SetWhere({h \in Hash : Order[h].collection = e.collection}, "Cancelled")
    BY <1>6 DEF Update, Kind, CancelByCollection
  <2>2. e.blocked
    BY <1>6 DEF CauseInv, JobInv, Update, At, Kind
  <2>3. \A h \in {g \in Hash : Order[g].collection = e.collection} : Closes(e, h, "Cancelled")
    BY <1>6, <2>2 DEF Closes
  <2> QED BY <1>1, <1>2, <2>1, <2>3, JustifiedUpdate DEF Terminal
<1> QED BY <1>3, <1>4, <1>5, <1>6 DEF Update, Kind

(* Steps that write no row to a final status: the rows that have one keep  *)
(* it, delivered events are not forgotten and what is overdue stays so.    *)
LEMMA CauseKept ==
    ASSUME StatusHasCause, delivered \subseteq delivered', Overdue \subseteq Overdue',
           \A h \in Hash : status'[h] \in Terminal => status'[h] = status[h]
    PROVE  StatusHasCause'
BY DEF StatusHasCause, Closes, MakerSalt, StoredCounter

(* A step that leaves the table and the clock alone keeps every cause.     *)
LEMMA CauseSameBook ==
    ASSUME StatusHasCause, UNCHANGED bookVars, delivered \subseteq delivered'
    PROVE  StatusHasCause'
BY CauseKept DEF bookVars, Overdue, Deadline

(* Every step of the market keeps a cause for each closed order.           *)
LEMMA CauseStep ==
    ASSUME CauseInv, [Next]_vars
    PROVE  StatusHasCause'
<1>0. StatusHasCause /\ BookTypeOK /\ delivered \subseteq Event
  BY DEF CauseInv, BookInv, JobInv
<1>1. CASE UNCHANGED vars
  BY <1>0, <1>1, CauseSameBook DEF vars
<1>2. ASSUME NEW w \in Worker, HandleStep(w)
      PROVE  StatusHasCause'
  <2>1. CASE Update(w)
    BY <2>1, CauseUpdate
  <2>2. CASE ~ Update(w)
    BY <1>0, <1>2, <2>2, CauseSameBook
       DEF HandleStep, Collect, AnnounceFilled, AnnounceCancelled, AnnounceCounter,
           AnnounceCollection
  <2> QED BY <2>1, <2>2
<1>3. ASSUME NEW w \in Worker, HandleFault(w) \/ \E e \in Event : Handle(w, e)
      PROVE  StatusHasCause'
  BY <1>0, <1>3, CauseSameBook DEF HandleFault, Handle
<1>4. ASSUME NEW h \in Hash, SubmitCheck(h) \/ SubmitRefused(h) \/ AnnounceNew(h)
      PROVE  StatusHasCause'
  BY <1>0, <1>4, CauseSameBook DEF SubmitCheck, SubmitRefused, AnnounceNew
<1>5. ASSUME NEW h \in Hash, SubmitInsert(h)
      PROVE  StatusHasCause'
  <2>1. \A g \in Hash : status'[g] \in Terminal => status'[g] = status[g]
    BY <1>0, <1>5 DEF SubmitInsert, Insert, BookTypeOK, Terminal
  <2>2. Overdue' = Overdue /\ delivered' = delivered
    BY <1>5 DEF SubmitInsert, Insert, Overdue, Deadline
  <2> QED BY <1>0, <2>1, <2>2, CauseKept
<1>6. CASE Sweep
  <2>1. SetWhere(Overdue, "Expired") /\ delivered' = delivered
    BY <1>6 DEF Sweep, ExpireOrders
  <2> QED BY <1>0, <2>1, JustifiedUpdate DEF CauseInv, Terminal
<1>7. CASE Clock
  <2>1. now \in Nat /\ now' = now + 1 /\ status' = status /\ delivered' = delivered
    BY <1>0, <1>7 DEF Clock, Tick, BookTypeOK
  <2>2. \A h \in Hash : Order[h].endTime \in Nat
    BY OrderAssumption, BoundsAssumption DEF OrderRecord
  <2>3. Overdue \subseteq Overdue'
    BY <2>1, <2>2 DEF Overdue, Deadline
  <2> QED BY <1>0, <2>1, <2>3, CauseKept
<1>8. CASE Crash
  BY <1>0, <1>8, CauseSameBook DEF Crash
<1> QED BY <1>1, <1>2, <1>3, <1>4, <1>5, <1>6, <1>7, <1>8 DEF Next, SubmitStep

(* Every order that is closed was closed by a delivered event about it, or *)
(* because its end time had come: whatever handlers, replays, late         *)
(* submissions and sweeps do to each other.                                *)
THEOREM MarketStatusHasCause == Spec => []StatusHasCause
<1>1. Init => BookInv /\ StatusHasCause
  BY BoundsAssumption
     DEF Init, BookInit, BookInv, BookTypeOK, OneActivePerSlot, Active, Status, Terminal,
         StatusHasCause
<1>2. BookInv /\ JobInv /\ [Next]_vars => BookInv'
  BY StepIsStatement, BookInvInductive
<1>3. JobInv /\ BookInv /\ StatusHasCause /\ [Next]_vars => StatusHasCause'
  BY CauseStep DEF CauseInv
<1> QED BY <1>1, <1>2, <1>3, JobInvHolds, PTL DEF Spec

-----------------------------------------------------------------------------
(* Hub.Broadcast delivers a message only to the topic it names.            *)
LEMMA BroadcastTopics ==
    ASSUME NEW m, m.topic \in Topics \cup {NoTopic}, Broadcast(m),
           \A n \in heard : n.topic \in Topics
    PROVE  \A n \in heard' : n.topic \in Topics
BY DEF Broadcast

(* A collection in one of the two spellings is a topic.                   *)
LEMMA TopicsAreTopics ==
    /\ \A c \in Collection, spelling \in Spelling : Topic(c, spelling) \in Topics
    /\ "lower" \in Spelling /\ "checksum" \in Spelling
BY DEF Topics, Topic, Spelling

(* The signed fields of an order are a maker, a salt and a collection.     *)
LEMMA OrderFields ==
    ASSUME NEW h \in Hash
    PROVE  Order[h].maker \in Maker /\ Order[h].salt \in Salt /\ Order[h].collection \in Collection
BY OrderAssumption DEF OrderRecord

(* What JobInv and the book's invariant do not say of the variables. *)
RestTypeOK ==
    /\ cols \in [Worker -> SUBSET Collection]
    /\ subm \in [Hash -> SubmitSteps]
    /\ \A m \in heard : m.topic \in Topics

(* Every step keeps the types of the collected collections, requests and   *)
(* messages.                                                               *)
LEMMA RestTypeStep ==
    ASSUME JobInv, RestTypeOK, [Next]_vars
    PROVE  RestTypeOK'
<1> USE DEF RestTypeOK, SubmitSteps
<1>1. CASE UNCHANGED vars
  BY <1>1 DEF vars, workVars
<1>2. ASSUME NEW w \in Worker, Collect(w)
      PROVE  RestTypeOK'
  <2>1. MakerActiveCollections(job[w].maker) \subseteq Collection
    BY OrderFields DEF MakerActiveCollections, Active
  <2> QED BY <1>2, <2>1 DEF Collect
<1>3. ASSUME NEW w \in Worker, Update(w) \/ HandleFault(w) \/ \E e \in Event : Handle(w, e)
      PROVE  RestTypeOK'
  BY <1>3 DEF Update, HandleFault, Return, Handle
<1>4. ASSUME NEW w \in Worker, AnnounceFilled(w)
      PROVE  RestTypeOK'
  <2>1. CASE FindByHash(job[w].hash)
    <3>1. FilledMessage(job[w].hash).topic \in Topics
      BY <2>1, OrderFields, TopicsAreTopics DEF FindByHash, Stored, FilledMessage, Message
    <3>2. \A n \in heard' : n.topic \in Topics
      BY <1>4, <2>1, <3>1, BroadcastTopics DEF AnnounceFilled
    <3> QED BY <1>4, <3>2 DEF AnnounceFilled, Return
  <2>2. CASE ~ FindByHash(job[w].hash)
    BY <1>4, <2>2 DEF AnnounceFilled, Return
  <2> QED BY <2>1, <2>2
<1>5. ASSUME NEW w \in Worker, AnnounceCancelled(w)
      PROVE  RestTypeOK'
  <2>1. CASE cols[w] = {} /\ Return(w) /\ UNCHANGED heard
    BY <1>5, <2>1 DEF AnnounceCancelled, Return
  <2>2. ASSUME NEW c \in cols[w], Broadcast(CancelledMessage(job[w], c)),
               cols' = [cols EXCEPT ![w] = Remaining(w, c)]
        PROVE  RestTypeOK'
    <3>1. CancelledMessage(job[w], c).topic \in Topics
      BY <2>2, TopicsAreTopics DEF CancelledMessage, Message
    <3>2. \A n \in heard' : n.topic \in Topics
      BY <2>2, <3>1, BroadcastTopics
    <3> QED BY <1>5, <2>2, <3>2 DEF AnnounceCancelled, Remaining
  <2> QED BY <1>5, <2>1, <2>2 DEF AnnounceCancelled
<1>6. ASSUME NEW w \in Worker, AnnounceCounter(w)
      PROVE  RestTypeOK'
  <2>1. CounterMessage(job[w]).topic = NoTopic
    BY DEF CounterMessage, Message
  <2>2. \A n \in heard' : n.topic \in Topics
    BY <1>6, <2>1, BroadcastTopics DEF AnnounceCounter
  <2> QED BY <1>6, <2>2 DEF AnnounceCounter, Return
<1>7. ASSUME NEW w \in Worker, AnnounceCollection(w)
      PROVE  RestTypeOK'
  <2>1. job[w] \in Event /\ job[w].kind = "CollectionUpdated"
    BY <1>7 DEF AnnounceCollection, At, Kind, JobInv
  <2>2. Message("collection:updated", Topic(job[w].collection, "checksum"), job[w]).topic \in Topics
    BY <2>1, EventFields, TopicsAreTopics DEF Message
  <2>3. \A n \in heard' : n.topic \in Topics
    BY <1>7, <2>2, BroadcastTopics DEF AnnounceCollection
  <2> QED BY <1>7, <2>3 DEF AnnounceCollection, Return
<1>8. ASSUME NEW h \in Hash, SubmitCheck(h) \/ SubmitInsert(h) \/ SubmitRefused(h)
      PROVE  RestTypeOK'
  BY <1>8 DEF SubmitCheck, SubmitInsert, SubmitRefused, workVars
<1>9. ASSUME NEW h \in Hash, AnnounceNew(h)
      PROVE  RestTypeOK'
  <2>1. Message("order:new", Topic(Order[h].collection, Spelled[h]), h).topic \in Topics
    BY OrderFields, SpellingAssumption, TopicsAreTopics DEF Message
  <2>2. \A n \in heard' : n.topic \in Topics
    BY <1>9, <2>1, BroadcastTopics DEF AnnounceNew
  <2> QED BY <1>9, <2>2 DEF AnnounceNew, workVars
<1>10. CASE Sweep \/ Clock \/ Crash
  BY <1>10 DEF Sweep, Clock, Crash, workVars
<1> QED
  BY <1>1, <1>2, <1>3, <1>4, <1>5, <1>6, <1>7, <1>8, <1>9, <1>10 DEF Next, HandleStep, SubmitStep

(* Handlers, submissions and the sweep keep every variable in its type, and *)
(* a client hears messages of collections, never of the empty topic.        *)
THEOREM MarketTypeCorrect == Spec => []TypeOK
<1>1. Init => RestTypeOK
  BY DEF Init, RestTypeOK, SubmitSteps
<1>2. JobInv /\ BookTypeOK /\ RestTypeOK => TypeOK
  BY DEF JobInv, RestTypeOK, TypeOK
<1>3. JobInv /\ RestTypeOK /\ [Next]_vars => RestTypeOK'
  BY RestTypeStep
<1> QED
  BY <1>1, <1>2, <1>3, JobInvHolds, MarketImplementsBook, BookTypeCorrect, PTL DEF Spec

-----------------------------------------------------------------------------
(* Those who list the table, and those who ask for the best order. *)

(* What PagesMissNothing assumes of the listings.                          *)
(* Readers turn pages until an empty one, and ask for no status: the       *)
(* others may miss a row.                                                  *)
Walkers == \A q \in Queries : q.status = "any" /\ ~ q.byTotal

-----------------------------------------------------------------------------
(* A set of naturals has a least element. *)
LEMMA LeastOf ==
    ASSUME NEW T \in SUBSET Nat, T # {}
    PROVE  \E n \in T : \A m \in T : n <= m
<1> DEFINE R == OpToRel(<, Nat)
<1>1. IsWellFoundedOn(R, Nat)
  BY NatLessThanWellFounded
<1>2. \A m, n \in Nat : m < n => <<m, n>> \in R
  BY DEF OpToRel
<1> HIDE DEF R
<1>3. PICK n \in T : \A m \in T : <<m, n>> \notin R
  BY <1>1, WFMin
<1>4. ASSUME NEW m \in T PROVE n <= m
  <2>1. m \in Nat /\ n \in Nat /\ ~ (m < n)
    BY <1>2, <1>3
  <2> QED BY <2>1
<1> QED BY <1>4

-----------------------------------------------------------------------------
(* Every step of the table with its readers is a statement of the order    *)
(* book, or leaves it alone.                                               *)
LEMMA ListingStepIsStatement ==
    ASSUME [ListingNext]_listingVars
    PROVE  [BookNext]_bookVars
<1>1. CASE UNCHANGED listingVars
  BY <1>1 DEF listingVars
<1>2. CASE Read
  BY <1>2 DEF Read, Ask, Count, Turn, BestPrice, BestFind
<1>3. CASE UpdateRows
  BY <1>3 DEF UpdateRows, BookNext
<1>4. CASE SweepRows
  BY <1>4 DEF SweepRows, BookNext
<1>5. CASE Pass
  BY <1>5 DEF Pass, BookNext
<1>6. CASE \E h \in Hash : InsertRow(h)
  BY <1>6 DEF InsertRow, BookNext
<1> QED BY <1>1, <1>2, <1>3, <1>4, <1>5, <1>6 DEF ListingNext

(* The table under the eyes of readers is the order book: all theorems of  *)
(* OrderBookProofs hold of it.                                             *)
THEOREM ListingIsBook == ListingSpec => BookSpec
<1>1. ListingInit => BookInit
  BY DEF ListingInit
<1> QED BY <1>1, ListingStepIsStatement, PTL DEF ListingSpec, BookSpec

(* So no reader, and no order the rows come in, makes a difference to what *)
(* the statements keep: one live order for a salt, final statuses and the  *)
(* abstract slots.                                                         *)
THEOREM ListingKeepsTheBook ==
    ListingSpec => []OneActivePerSlot /\ TerminalIsFinal /\ ImplementsSlots
BY ListingIsBook, SlotIsUnique, TerminalStatusIsFinal, BookImplementsSlots, PTL

(* Steps that insert no row and read nothing. *)
LEMMA WriterStep ==
    ASSUME BookInv, UpdateRows \/ SweepRows \/ Pass
    PROVE  /\ UNCHANGED <<newer, reader>>
           /\ Stored' = Stored
           /\ Active' \subseteq Active
           /\ now' = now \/ now' = now + 1
<1>1. ASSUME NEW W, NEW s \in Terminal, SetWhere(W, s)
      PROVE  Stored' = Stored /\ Active' \subseteq Active /\ now' = now
  BY <1>1, SetWhereEffect, UpdateKeepsInv DEF Stored, Terminal, BookInv
<1>2. CASE UpdateRows
  <2>1. (\E W : SetWhere(W, "Filled")) \/ (\E W : SetWhere(W, "Cancelled"))
    <3>1. ASSUME NEW h \in Hash, Fill(h) PROVE \E W : SetWhere(W, "Filled")
      BY <3>1 DEF Fill
    <3>2. ASSUME NEW m \in Maker, NEW x \in Salt, CancelByMakerSalt(m, x)
          PROVE  \E W : SetWhere(W, "Cancelled")
      BY <3>2 DEF CancelByMakerSalt
    <3>3. ASSUME NEW m \in Maker, NEW c \in 0..MaxCounter, CancelByMakerCounter(m, c)
          PROVE  \E W : SetWhere(W, "Cancelled")
      BY <3>3 DEF CancelByMakerCounter
    <3>4. ASSUME NEW c \in Collection, CancelByCollection(c)
          PROVE  \E W : SetWhere(W, "Cancelled")
      BY <3>4 DEF CancelByCollection
    <3>5. \/ \E h \in Hash : Fill(h)
          \/ \E m \in Maker, x \in Salt : CancelByMakerSalt(m, x)
          \/ \E m \in Maker, c \in 0..MaxCounter : CancelByMakerCounter(m, c)
          \/ \E c \in Collection : CancelByCollection(c)
      BY <1>2 DEF UpdateRows
    <3> QED BY <3>1, <3>2, <3>3, <3>4, <3>5
  <2>2. "Filled" \in Terminal /\ "Cancelled" \in Terminal
    BY DEF Terminal
  <2> QED BY <1>1, <1>2, <2>1, <2>2 DEF UpdateRows
<1>3. CASE SweepRows
  BY <1>1, <1>3 DEF SweepRows, ExpireOrders, Terminal
<1>4. CASE Pass
  BY <1>4 DEF Pass, Tick, Stored, Active
<1> QED BY <1>2, <1>3, <1>4

-----------------------------------------------------------------------------
(* created_at orders the rows, of which there are finitely many.           *)
RowsInv ==
    /\ newer \in [Hash -> SUBSET Stored]
    /\ IsFiniteSet(Stored)
    /\ \A g, h \in Stored : g = h \/ g \in newer[h] \/ h \in newer[g]
    /\ \A h \in Stored : h \notin newer[h]
    /\ \A h \in Stored : \A g \in newer[h] : newer[g] \subseteq newer[h]

(* What an insert does to the order of the rows: the new row h comes after *)
(* the rows of later, and before all others.                               *)
LEMMA InsertEffect ==
    ASSUME NEW h \in Hash, InsertRow(h), BookInv, RowsInv
    PROVE  /\ h \notin Stored /\ Stored' = Stored \cup {h}
           /\ \E later \in SUBSET Stored :
                /\ later = {} \/ \E g \in Stored : later = {g} \cup newer[g]
                /\ \A g \in later : newer[g] \subseteq later
                /\ newer'[h] = later
                /\ \A g \in later : newer'[g] = newer[g]
                /\ \A g \in Stored \ later :
                     newer'[g] = newer[g] \cup {h} /\ later \subseteq newer[g]
                /\ newer' \in [Hash -> SUBSET (Stored \cup {h})]
<1>1. h \notin Stored /\ Stored' = Stored \cup {h}
  BY DEF InsertRow, Insert, Insertable, BookInv, BookTypeOK, Stored
<1>2. PICK later \in {{}} \cup {{g} \cup newer[g] : g \in Stored} :
        newer' = [g \in Hash |-> IF g = h THEN later
                                 ELSE IF g \in Stored \ later THEN newer[g] \cup {h}
                                 ELSE newer[g]]
  BY DEF InsertRow
<1>3. Stored \subseteq Hash
  BY DEF Stored
<1>4. \A g \in Stored : newer[g] \subseteq Stored
  BY <1>3 DEF RowsInv
<1>5. /\ later = {} \/ \E g \in Stored : later = {g} \cup newer[g]
      /\ later \in SUBSET Stored
      /\ \A g \in later : newer[g] \subseteq later
  BY <1>4 DEF RowsInv
<1>6. \A g \in Stored \ later : later \subseteq newer[g]
  BY <1>5 DEF RowsInv
<1>7. newer' \in [Hash -> SUBSET (Stored \cup {h})]
  BY <1>2, <1>5 DEF RowsInv
<1>8. /\ newer'[h] = later
      /\ \A g \in later : newer'[g] = newer[g]
      /\ \A g \in Stored \ later : newer'[g] = newer[g] \cup {h}
  BY <1>1, <1>2, <1>3, <1>5
<1> QED BY <1>1, <1>5, <1>6, <1>7, <1>8

LEMMA RowsStep ==
    ASSUME BookInv, RowsInv, [ListingNext]_listingVars
    PROVE  RowsInv'
<1>1. CASE \E h \in Hash : InsertRow(h)
  <2>1. PICK h \in Hash : InsertRow(h)
    BY <1>1
  <2>2. h \notin Stored /\ Stored' = Stored \cup {h}
    BY <2>1, InsertEffect
  <2>3. PICK later \in SUBSET Stored :
                /\ \A g \in later : newer[g] \subseteq later
                /\ newer'[h] = later
                /\ \A g \in later : newer'[g] = newer[g]
                /\ \A g \in Stored \ later :
                     newer'[g] = newer[g] \cup {h} /\ later \subseteq newer[g]
                /\ newer' \in [Hash -> SUBSET (Stored \cup {h})]
    BY <2>1, InsertEffect
  <2>4. IsFiniteSet(Stored \cup {h})
    BY FS_AddElement DEF RowsInv
  <2>5. \A f, g \in Stored \cup {h} : f = g \/ f \in newer'[g] \/ g \in newer'[f]
    BY <2>3 DEF RowsInv
  <2>6. \A g \in Stored \cup {h} : g \notin newer'[g]
    BY <2>2, <2>3 DEF RowsInv
  <2>7. ASSUME NEW f \in Stored \cup {h}, NEW g \in newer'[f]
        PROVE  newer'[g] \subseteq newer'[f]
    <3>1. CASE f = h
      BY <2>3, <2>7, <3>1
    <3>2. CASE f \in later
      BY <2>3, <2>7, <3>2 DEF RowsInv
    <3>3. CASE f \in Stored \ later /\ g = h
      BY <2>3, <2>7, <3>3
    <3>4. CASE f \in Stored \ later /\ g # h
      <4>1. g \in newer[f] /\ newer'[f] = newer[f] \cup {h} /\ newer[g] \subseteq newer[f]
        BY <2>3, <2>7, <3>4 DEF RowsInv
      <4>2. g \in Stored
        BY <4>1, <3>4 DEF RowsInv, Stored
      <4>3. newer'[g] \subseteq newer[g] \cup {h}
        BY <2>3, <4>2
      <4> QED BY <4>1, <4>3
    <3> QED BY <3>1, <3>2, <3>3, <3>4
  <2> QED BY <2>2, <2>3, <2>4, <2>5, <2>6, <2>7 DEF RowsInv
<1>2. CASE UpdateRows \/ SweepRows \/ Pass
  BY <1>2, WriterStep DEF RowsInv
<1>3. CASE Read \/ UNCHANGED listingVars
  <2>1. UNCHANGED <<newer, status>>
    BY <1>3 DEF Read, Ask, Count, Turn, BestPrice, BestFind, listingVars, bookVars
  <2> QED BY <2>1 DEF RowsInv, Stored
<1> QED BY <1>1, <1>2, <1>3 DEF ListingNext

LEMMA RowsInit == ListingInit => RowsInv
<1> SUFFICES ASSUME ListingInit PROVE RowsInv
  OBVIOUS
<1>1. Stored = {}
  BY DEF ListingInit, BookInit, Stored
<1> QED BY <1>1, FS_EmptySet DEF ListingInit, RowsInv

-----------------------------------------------------------------------------
(* The position of a row among the rows of S is the number of those before *)
(* it; a row before another has a smaller one.                             *)
LEMMA PositionType ==
    ASSUME RowsInv, NEW S \in SUBSET Stored, NEW h \in Hash
    PROVE  IsFiniteSet(newer[h] \cap S) /\ Position(h, S) \in Nat
<1>1. IsFiniteSet(newer[h] \cap S)
  BY FS_Subset DEF RowsInv
<1> QED BY <1>1, FS_CardinalityType DEF Position

LEMMA PositionGrows ==
    ASSUME RowsInv, NEW S \in SUBSET Stored, NEW h \in Stored, NEW g \in newer[h] \cap S
    PROVE  Position(g, S) < Position(h, S)
<1> DEFINE G == newer[g] \cap S
           H == newer[h] \cap S
<1>1. g \in Hash /\ h \in Hash
  BY DEF Stored
<1>2. IsFiniteSet(H) /\ Position(g, S) \in Nat /\ Position(h, S) \in Nat
  BY <1>1, PositionType
<1>3. G \subseteq H /\ g \in H /\ g \notin G
  BY DEF RowsInv
<1>4. Cardinality(G) <= Cardinality(H) /\ Cardinality(G) # Cardinality(H)
  BY <1>2, <1>3, FS_Subset
<1> QED BY <1>2, <1>4 DEF Position

(* No position is left out: the row before a gap and the row after it      *)
(* would have nothing between them.                                        *)
LEMMA PositionsAreDense ==
    ASSUME RowsInv, NEW S \in SUBSET Stored, NEW h \in S,
           NEW n \in Nat, n <= Position(h, S)
    PROVE  \E g \in S : Position(g, S) = n
<1>0. S \subseteq Hash /\ \A f \in S : Position(f, S) \in Nat
  BY PositionType DEF Stored
<1>1. PICK g \in S : /\ n <= Position(g, S)
                     /\ \A f \in S : n <= Position(f, S) => Position(g, S) <= Position(f, S)
  <2> DEFINE T == {Position(f, S) : f \in {f \in S : n <= Position(f, S)}}
  <2>1. T \in SUBSET Nat /\ T # {}
    BY <1>0
  <2>2. PICK p \in T : \A q \in T : p <= q
    BY <2>1, LeastOf
  <2> QED BY <2>2
<1>2. SUFFICES ASSUME n < Position(g, S) PROVE FALSE
  BY <1>0, <1>1
<1> DEFINE X == newer[g] \cap S
           p == Position(g, S)
<1>3. p \in Nat /\ IsFiniteSet(X) /\ p = Cardinality(X)
  BY <1>0, PositionType DEF Position
<1>4. X # {}
  BY <1>2, <1>3, FS_EmptySet
<1>5. \A f \in X : f \in S /\ Position(f, S) \in Nat /\ Position(f, S) < p
  BY <1>0, PositionGrows
<1>6. PICK x \in X : \A f \in X : Position(f, S) <= Position(x, S)
  <2> DEFINE U == {p - Position(f, S) : f \in X}
  <2>1. U \in SUBSET Nat /\ U # {}
    BY <1>3, <1>4, <1>5
  <2>2. PICK u \in U : \A v \in U : u <= v
    BY <2>1, LeastOf
  <2>3. PICK x \in X : u = p - Position(x, S)
    BY <2>2
  <2>4. ASSUME NEW f \in X PROVE Position(f, S) <= Position(x, S)
    <3>1. p - Position(x, S) <= p - Position(f, S)
      BY <2>2, <2>3
    <3> QED BY <1>3, <1>5, <3>1
  <2> QED BY <2>4
<1> DEFINE Y == newer[x] \cap S
<1>7. X \subseteq Y \cup {x}
  <2>1. ASSUME NEW f \in X, f # x PROVE f \in Y
    <3>1. x \notin newer[f]
      <4>1. SUFFICES ASSUME x \in newer[f] PROVE FALSE
        OBVIOUS
      <4>2. Position(x, S) < Position(f, S)
        BY <1>5, <4>1, PositionGrows
      <4> QED BY <1>5, <1>6, <4>2
    <3> QED BY <2>1, <3>1 DEF RowsInv
  <2> QED BY <2>1
<1>8. IsFiniteSet(Y) /\ Position(x, S) = Cardinality(Y) /\ Cardinality(Y) \in Nat
  BY <1>0, <1>5, PositionType DEF Position
<1> HIDE DEF X, Y
<1>9. p <= Cardinality(Y) + 1
  <2>1. /\ IsFiniteSet(Y \cup {x})
        /\ Cardinality(Y \cup {x}) = IF x \in Y THEN Cardinality(Y) ELSE Cardinality(Y) + 1
    BY <1>8, FS_AddElement
  <2>2. Cardinality(X) <= Cardinality(Y \cup {x}) /\ Cardinality(Y \cup {x}) \in Nat
    BY <1>7, <2>1, FS_Subset, FS_CardinalityType
  <2> QED BY <1>3, <1>8, <2>1, <2>2
<1>10. ~ (n <= Position(x, S))
  BY <1>1, <1>3, <1>5
<1> QED BY <1>2, <1>3, <1>8, <1>9, <1>10

(* A row inserted pushes the others on, never back. *)
LEMMA InsertPushes ==
    ASSUME BookInv, RowsInv, NEW h \in Hash, InsertRow(h),
           NEW S \in SUBSET Stored, NEW R \in SUBSET (Stored'), S \subseteq R,
           NEW g \in Stored
    PROVE  Position(g, S) <= Cardinality(newer'[g] \cap R)
<1>1. newer[g] \subseteq newer'[g]
  BY InsertEffect
<1>2. RowsInv' /\ g \in Hash
  BY RowsStep DEF ListingNext, Stored
<1>3. IsFiniteSet(newer'[g] \cap R)
  <2>1. IsFiniteSet(Stored') /\ newer'[g] \cap R \subseteq Stored'
    BY <1>2 DEF RowsInv
  <2> QED BY <2>1, FS_Subset
<1> QED BY <1>1, <1>3, FS_Subset DEF Position

-----------------------------------------------------------------------------
(* The pages of one reader, who has turned those before reader.page: what  *)
(* is owed comes on this page or later.                                    *)
All(q) == Match(q.rows, "any")

WalkInv ==
    /\ reader.doing \in {"asking", "counted"} =>
         /\ reader.query \in Queries /\ reader.page \in Nat \ {0}
         /\ reader.owed \subseteq All(reader.query)
         /\ \A h \in reader.owed :
              Skip(Offset(reader.page, PageSize(reader.query)))
                  <= Position(h, All(reader.query))
    /\ reader.doing = "read" => reader.owed = {}

LEMMA MatchAny == \A rows : Match(rows, "any") = rows \cap Stored
BY DEF Match

LEMMA ProductByOneMore ==
    ASSUME NEW k \in Nat, NEW n \in Int
    PROVE  /\ k * n \in Int /\ (k + 1) * n = k * n + n
           /\ n <= 0 => k * n <= 0
           /\ n >= 0 => k * n >= 0
BY SMT

(* A page begins no later than the one before it ends, also for a reader   *)
(* whose page size is 0 or less.                                           *)
LEMMA PagesMeet ==
    ASSUME NEW q \in Queries, NEW page \in Nat \ {0}
    PROVE  LET size == PageSize(q)
           IN  /\ Skip(Offset(page, size)) \in Nat /\ Limit(size) \in Nat \ {0}
               /\ Skip(Offset(page + 1, size)) <= Skip(Offset(page, size)) + Limit(size)
<1> DEFINE size == PageSize(q)
           k == page - 1
<1>1. size \in Int /\ DefaultSize \in Nat \ {0}
  <2>1. q \in QueryRecord
    BY ListingAssumption DEF ListingAssumption
  <2> QED BY <2>1, ListingAssumption DEF ListingAssumption, PageSize, QueryRecord
<1> HIDE DEF size
<1>2. k \in Nat /\ (page + 1) - 1 = k + 1
  OBVIOUS
<1>3. /\ k * size \in Int /\ (k + 1) * size = k * size + size
      /\ size <= 0 => k * size <= 0
      /\ size >= 0 => k * size >= 0
  BY <1>1, <1>2, ProductByOneMore
<1>4. Offset(page, size) = k * size /\ Offset(page + 1, size) = k * size + size
  BY <1>2, <1>3 DEF Offset
<1>5. /\ Skip(Offset(page, size)) \in Nat /\ Limit(size) \in Nat \ {0}
      /\ Skip(Offset(page + 1, size)) <= Skip(Offset(page, size)) + Limit(size)
  BY <1>1, <1>3, <1>4 DEF Skip, Limit
<1> QED BY <1>5 DEF size

(* A page that is empty has no row after it. *)
LEMMA EmptyIsLast ==
    ASSUME RowsInv, NEW q \in Queries, NEW page \in Nat \ {0},
           Find(q.rows, "any", PageSize(q), Offset(page, PageSize(q))) = {},
           NEW h \in All(q), Skip(Offset(page, PageSize(q))) <= Position(h, All(q))
    PROVE  FALSE
<1> DEFINE S == All(q)
           n == Skip(Offset(page, PageSize(q)))
           l == Limit(PageSize(q))
<1>1. n \in Nat /\ l \in Nat \ {0}
  BY PagesMeet
<1>2. S \in SUBSET Stored
  BY MatchAny DEF All
<1>3. PICK g \in S : Position(g, S) = n
  <2> HIDE DEF n, S
  <2> QED BY <1>1, <1>2, PositionsAreDense DEF n, S
<1>4. g \in Find(q.rows, "any", PageSize(q), Offset(page, PageSize(q)))
  BY <1>1, <1>3 DEF Find, All
<1> QED BY <1>4

LEMMA TurnStep ==
    ASSUME Walkers, BookInv, RowsInv, WalkInv, Turn
    PROVE  WalkInv'
<1> DEFINE q == reader.query
           size == PageSize(q)
           S == All(q)
           found == Find(q.rows, q.status, size, Offset(reader.page, size))
<1>1. /\ q \in Queries /\ reader.page \in Nat \ {0}
      /\ reader.owed \subseteq S
      /\ \A h \in reader.owed : Skip(Offset(reader.page, size)) <= Position(h, S)
  BY DEF Turn, WalkInv
<1>2. q.status = "any" /\ ~ q.byTotal
  BY <1>1 DEF Walkers
<1>3. S \in SUBSET Stored /\ S \subseteq Hash
  BY MatchAny DEF All, Stored
<1>4. UNCHANGED <<status, newer>>
  BY DEF Turn, bookVars
<1>5. CASE found = {}
  <2>1. reader'.doing = "read" /\ reader'.owed = reader.owed \ found
    BY <1>2, <1>5 DEF Turn
  <2>2. reader.owed = {}
    BY <1>1, <1>2, <1>5, EmptyIsLast
  <2> QED BY <2>1, <2>2 DEF WalkInv
<1>6. CASE found # {}
  <2>1. reader' = [doing |-> "asking", query |-> q, page |-> reader.page + 1,
                   owed |-> reader.owed \ found]
    BY <1>2, <1>6 DEF Turn
  <2>2. ASSUME NEW h \in reader.owed \ found
        PROVE  Skip(Offset(reader.page + 1, size)) <= Position(h, S)
    <3>1. Position(h, S) \in Nat /\ Skip(Offset(reader.page, size)) <= Position(h, S)
      BY <1>1, <1>3, PositionType
    <3>2. ~ (Position(h, S) < Skip(Offset(reader.page, size)) + Limit(size))
      BY <1>1, <1>2, <3>1 DEF Find, All
    <3>3. /\ Skip(Offset(reader.page, size)) \in Nat /\ Limit(size) \in Nat
          /\ Skip(Offset(reader.page + 1, size))
                 <= Skip(Offset(reader.page, size)) + Limit(size)
      BY <1>1, PagesMeet
    <3>4. Skip(Offset(reader.page + 1, size)) \in Nat
      BY <1>1, PagesMeet
    <3> QED BY <3>1, <3>2, <3>3, <3>4
  <2>3. reader'.query = q /\ reader'.page = reader.page + 1 /\ reader'.doing = "asking"
        /\ reader'.owed = reader.owed \ found
    BY <2>1
  <2> HIDE DEF found
  <2> QED BY <1>1, <1>4, <2>2, <2>3 DEF WalkInv, All, Match, Position, Stored
<1> QED BY <1>5, <1>6

(* The rows stay rows, and none comes to stand on an earlier place.        *)
LEMMA TableKeepsPlaces ==
    ASSUME BookInv, RowsInv, NEW q, NEW h \in All(q),
           UpdateRows \/ SweepRows \/ Pass \/ \E g \in Hash : InsertRow(g)
    PROVE  /\ h \in q.rows \cap Stored'
           /\ Position(h, All(q)) <= Cardinality(newer'[h] \cap (q.rows \cap Stored'))
<1>1. All(q) = q.rows \cap Stored /\ h \in Stored /\ h \in Hash
  BY MatchAny DEF All, Stored
<1>2. CASE UpdateRows \/ SweepRows \/ Pass
  <2>1. Stored' = Stored /\ newer' = newer
    BY <1>2, WriterStep
  <2>2. Position(h, All(q)) \in Nat
    BY <1>1, PositionType
  <2> QED BY <1>1, <2>1, <2>2 DEF Position
<1>3. CASE \E g \in Hash : InsertRow(g)
  <2>1. PICK g \in Hash : InsertRow(g)
    BY <1>3
  <2>2. Stored \subseteq Stored'
    BY <2>1, InsertEffect
  <2>3. \A S \in SUBSET Stored, R \in SUBSET (Stored') :
          S \subseteq R => Position(h, S) <= Cardinality(newer'[h] \cap R)
    BY <1>1, <2>1, InsertPushes
  <2> QED BY <1>1, <2>2, <2>3
<1> QED BY <1>2, <1>3

LEMMA WalkStep ==
    ASSUME Walkers, BookInv, RowsInv, WalkInv, [ListingNext]_listingVars
    PROVE  WalkInv'
<1>1. CASE UNCHANGED listingVars
  BY <1>1 DEF listingVars, bookVars, WalkInv, All, Match, Position, Stored
<1>2. ASSUME NEW q \in Queries, Ask(q) PROVE WalkInv'
  <2>1. /\ reader'.doing = "asking" /\ reader'.query = q /\ reader'.page = 1
        /\ reader'.owed = Match(q.rows, q.status)
        /\ UNCHANGED <<status, newer>>
    BY <1>2 DEF Ask, bookVars
  <2>2. q.status = "any"
    BY DEF Walkers
  <2>3. Skip(Offset(1, PageSize(q))) = 0
    <3>1. PageSize(q) \in Int
      <4>1. q \in QueryRecord
        BY ListingAssumption DEF ListingAssumption
      <4> QED BY <4>1, ListingAssumption DEF ListingAssumption, PageSize, QueryRecord
    <3>2. (1 - 1) * PageSize(q) = 0
      BY <3>1, ProductByOneMore
    <3> QED BY <3>2 DEF Skip, Offset
  <2>4. \A h \in Match(q.rows, "any") : 0 <= Cardinality(newer[h] \cap Match(q.rows, "any"))
    <3>1. Match(q.rows, "any") \in SUBSET Stored /\ Stored \subseteq Hash
      BY MatchAny DEF Stored
    <3>2. \A h \in Match(q.rows, "any") : Position(h, Match(q.rows, "any")) \in Nat
      BY <3>1, PositionType
    <3> QED BY <3>2 DEF Position
  <2>5. Match(q.rows, "any")' = Match(q.rows, "any")
    BY <2>1 DEF Match, Stored
  <2>6. /\ All(reader.query)' = Match(q.rows, "any")
        /\ Skip(Offset(reader.page, PageSize(reader.query)))' = 0
        /\ reader'.owed = Match(q.rows, "any")
    BY <2>1, <2>2, <2>3, <2>5 DEF All, Skip, Offset, PageSize
  <2> QED BY <2>1, <2>4, <2>6 DEF WalkInv, Position
<1>3. CASE Count
  <2>1. /\ reader.doing = "asking" /\ reader'.doing = "counted"
        /\ reader'.query = reader.query /\ reader'.page = reader.page
        /\ reader'.owed = reader.owed /\ UNCHANGED <<status, newer>>
    BY <1>3 DEF Count, bookVars
  <2> QED BY <2>1 DEF WalkInv, All, Match, Position, Stored
<1>4. CASE Turn
  BY <1>4, TurnStep
<1>5. CASE BestFind \/ \E c \in Collection, side \in {"Sell", "Buy"} : BestPrice(c, side)
  <2>1. reader'.doing \in {"told", "priced"}
    BY <1>5 DEF BestFind, BestPrice
  <2> QED BY <2>1 DEF WalkInv
<1>6. CASE UpdateRows \/ SweepRows \/ Pass \/ \E h \in Hash : InsertRow(h)
  <2>1. reader' = reader
    BY <1>6, WriterStep DEF InsertRow
  <2>2. SUFFICES ASSUME reader.doing \in {"asking", "counted"}
                 PROVE  WalkInv'
    BY <2>1 DEF WalkInv
  <2> DEFINE q == reader.query
  <2>3. /\ q \in Queries /\ reader.page \in Nat \ {0}
        /\ reader.owed \subseteq All(q)
        /\ \A h \in reader.owed : Skip(Offset(reader.page, PageSize(q))) <= Position(h, All(q))
    BY <2>2 DEF WalkInv
  <2> DEFINE R == q.rows \cap Stored'
  <2>4. R = Match(q.rows, "any")'
    BY <2>1 DEF Match, Stored
  <2>5. ASSUME NEW h \in reader.owed
        PROVE  /\ h \in R
               /\ Skip(Offset(reader.page, PageSize(q))) <= Cardinality(newer'[h] \cap R)
    <3>1. /\ h \in R
          /\ Position(h, All(q)) <= Cardinality(newer'[h] \cap R)
      BY <1>6, <2>3, TableKeepsPlaces
    <3>2. Skip(Offset(reader.page, PageSize(q))) \in Nat
      BY <2>3, PagesMeet
    <3>3. Position(h, All(q)) \in Nat
      <4>1. All(q) \in SUBSET Stored /\ All(q) \subseteq Hash
        BY MatchAny DEF All, Stored
      <4> QED BY <2>3, <4>1, PositionType
    <3>4. Cardinality(newer'[h] \cap R) \in Nat
      <4>1. RowsInv'
        BY RowsStep
      <4>2. IsFiniteSet(Stored') /\ newer'[h] \cap R \subseteq Stored'
        BY <4>1 DEF RowsInv
      <4> QED BY <4>2, FS_Subset, FS_CardinalityType
    <3> QED BY <2>3, <3>1, <3>2, <3>3, <3>4
  <2> QED BY <2>1, <2>2, <2>3, <2>5 DEF WalkInv, All, Match, Position, Stored
<1> QED BY <1>1, <1>2, <1>3, <1>4, <1>5, <1>6 DEF ListingNext, Read

(* A reader who turns the pages of a query without a status until an empty *)
(* one has seen every row that matched all the time, however many rows are *)
(* inserted and updated meanwhile (OrderRepo.Find, OrderHandler.List).     *)
THEOREM PagesMissNothing ==
    ASSUME Walkers
    PROVE  ListingSpec => []WalkIsComplete
<1>1. ListingInit => BookInit /\ RowsInv /\ WalkInv
  BY RowsInit DEF ListingInit, WalkInv, Idle
<1>2. BookInv /\ RowsInv /\ WalkInv /\ [ListingNext]_listingVars => (RowsInv /\ WalkInv)'
  BY RowsStep, WalkStep
<1>3. WalkInv => WalkIsComplete
  BY DEF WalkInv, WalkIsComplete
<1> QED BY <1>1, <1>2, <1>3, ListingIsBook, BookInvHolds, PTL DEF ListingSpec

-----------------------------------------------------------------------------
(* Division by a positive number rounds down, and keeps the order.         *)
LEMMA QuotientBounds ==
    ASSUME NEW n \in Int, NEW d \in Nat \ {0}
    PROVE  /\ n \div d \in Int
           /\ d * (n \div d) <= n /\ n < d * (n \div d) + d
BY SMT

LEMMA ProductOrder ==
    ASSUME NEW f \in Nat, NEW m \in Int, NEW n \in Int, m <= n
    PROVE  f * m \in Int /\ f * n \in Int /\ f * m <= f * n
<1>1. n - m \in Nat /\ f * m \in Int /\ f * n \in Int
  BY SMT
<1>2. f * (n - m) \in Nat
  BY <1>1, SMT
<1>3. f * (n - m) = f * n - f * m
  BY SMT
<1> QED BY <1>1, <1>2, <1>3

LEMMA QuotientOrder ==
    ASSUME NEW m \in Int, NEW n \in Int, NEW d \in Nat \ {0}, m <= n
    PROVE  m \div d <= n \div d
<1> DEFINE p == m \div d
           q == n \div d
<1>1. p \in Int /\ q \in Int /\ d * p <= m /\ n < d * q + d
  BY QuotientBounds
<1> HIDE DEF p, q
<1>2. SUFFICES ASSUME q + 1 <= p PROVE FALSE
  BY <1>1 DEF p, q
<1>3. d * (q + 1) <= d * p /\ d * (q + 1) \in Int /\ d * p \in Int
  BY <1>1, <1>2, ProductOrder
<1>4. d * (q + 1) = d * q + d
  BY <1>1, SMT
<1>5. d * q \in Int
  BY <1>1, SMT
<1> QED BY <1>1, <1>3, <1>4, <1>5

(* The part of a fall after k of d steps is between nothing and the whole. *)
LEMMA PartOfFall ==
    ASSUME NEW f \in Nat, NEW d \in Nat \ {0}, NEW k \in 0..d
    PROVE  (f * k) \div d \in Int /\ 0 <= (f * k) \div d /\ (f * k) \div d <= f
<1>1. f * 0 <= f * k /\ f * k <= f * d /\ f * 0 \in Int /\ f * k \in Int /\ f * d \in Int
  BY ProductOrder
<1>2. f * 0 = 0 /\ 0 \div d = 0 /\ (f * d) \div d = f
  BY SMTT(30)
<1>3. 0 \div d <= (f * k) \div d /\ (f * k) \div d <= (f * d) \div d
  BY <1>1, <1>2, QuotientOrder
<1>4. (f * k) \div d \in Int
  BY <1>1, QuotientBounds
<1> QED BY <1>2, <1>3, <1>4

(* An auction's price falls, and never below the one stored.               *)
LEMMA AuctionFalls ==
    ASSUME NEW o, o.price \in Nat, o.startPrice \in Nat, o.price <= o.startPrice,
           Int64(o.startTime) \in Int, Int64(o.endTime) \in Int,
           NEW t \in Int, NEW u \in Int, t <= u
    PROVE  /\ CurrentPrice(o, t) \in Int /\ CurrentPrice(o, u) \in Int
           /\ o.price <= CurrentPrice(o, u) /\ CurrentPrice(o, u) <= CurrentPrice(o, t)
<1> DEFINE s == Int64(o.startTime)
           e == Int64(o.endTime)
           f == o.startPrice - o.price
           Part(x) == (f * (x - s)) \div (e - s)
<1>1. f \in Nat
  OBVIOUS
<1>2. ASSUME NEW x \in Int, s < x, x < e
      PROVE  /\ Part(x) \in Int /\ 0 <= Part(x) /\ Part(x) <= f
             /\ Decayed(o, x - s, e - s) = o.startPrice - Part(x)
  <2>1. e - s \in Nat \ {0} /\ x - s \in 0..(e - s)
    BY <1>2
  <2> QED BY <1>1, <2>1, PartOfFall DEF Decayed
<1>3. ASSUME s < t, u < e PROVE Part(t) <= Part(u)
  <2>1. e - s \in Nat \ {0} /\ t - s \in Int /\ u - s \in Int /\ t - s <= u - s
    BY <1>3
  <2>2. f * (t - s) \in Int /\ f * (u - s) \in Int /\ f * (t - s) <= f * (u - s)
    BY <1>1, <2>1, ProductOrder
  <2> QED BY <2>1, <2>2, QuotientOrder
<1> HIDE DEF Part
<1> QED BY <1>2, <1>3 DEF CurrentPrice

(* The same of an auction that starts below the price stored and rises.    *)
LEMMA ProductOrderDown ==
    ASSUME NEW f \in Nat, NEW m \in Int, NEW n \in Int, m <= n
    PROVE  (-f) * m \in Int /\ (-f) * n \in Int /\ (-f) * n <= (-f) * m
<1>1. f * m \in Int /\ f * n \in Int /\ f * m <= f * n
  BY ProductOrder
<1>2. (-f) * m = -(f * m) /\ (-f) * n = -(f * n)
  BY SMT
<1> QED BY <1>1, <1>2

LEMMA PartOfRise ==
    ASSUME NEW f \in Nat, NEW d \in Nat \ {0}, NEW k \in 0..d
    PROVE  ((-f) * k) \div d \in Int /\ -f <= ((-f) * k) \div d /\ ((-f) * k) \div d <= 0
<1>1. /\ (-f) * k <= (-f) * 0 /\ (-f) * d <= (-f) * k
      /\ (-f) * 0 \in Int /\ (-f) * k \in Int /\ (-f) * d \in Int
  BY ProductOrderDown
<1>2. (-f) * 0 = 0 /\ 0 \div d = 0 /\ ((-f) * d) \div d = -f
  BY SMTT(30)
<1>3. ((-f) * d) \div d <= ((-f) * k) \div d /\ ((-f) * k) \div d <= 0 \div d
  BY <1>1, <1>2, QuotientOrder
<1>4. ((-f) * k) \div d \in Int
  BY <1>1, QuotientBounds
<1> QED BY <1>2, <1>3, <1>4

LEMMA AuctionRises ==
    ASSUME NEW o, o.price \in Nat, o.startPrice \in Nat, o.startPrice <= o.price,
           Int64(o.startTime) \in Int, Int64(o.endTime) \in Int,
           NEW t \in Int, NEW u \in Int, t <= u
    PROVE  /\ CurrentPrice(o, t) \in Int /\ CurrentPrice(o, u) \in Int
           /\ CurrentPrice(o, t) <= CurrentPrice(o, u) /\ CurrentPrice(o, u) <= o.price
<1> DEFINE s == Int64(o.startTime)
           e == Int64(o.endTime)
           f == o.price - o.startPrice
           Part(x) == ((-f) * (x - s)) \div (e - s)
<1>1. f \in Nat /\ o.startPrice - o.price = -f /\ o.startPrice + f = o.price
  OBVIOUS
<1>2. ASSUME NEW x \in Int, s < x, x < e
      PROVE  /\ Part(x) \in Int /\ -f <= Part(x) /\ Part(x) <= 0
             /\ Decayed(o, x - s, e - s) = o.startPrice - Part(x)
  <2>1. e - s \in Nat \ {0} /\ x - s \in 0..(e - s)
    BY <1>2
  <2> QED BY <1>1, <2>1, PartOfRise DEF Decayed
<1>3. ASSUME s < t, u < e PROVE Part(u) <= Part(t)
  <2>1. e - s \in Nat \ {0} /\ t - s \in Int /\ u - s \in Int /\ t - s <= u - s
    BY <1>3
  <2>2. (-f) * (t - s) \in Int /\ (-f) * (u - s) \in Int /\ (-f) * (u - s) <= (-f) * (t - s)
    BY <1>1, <2>1, ProductOrderDown
  <2> QED BY <2>1, <2>2, QuotientOrder
<1>4. ASSUME NEW x \in Int
      PROVE  \/ /\ o.kind # "DutchAuction" \/ e = 0 \/ e <= s \/ x >= e
                /\ CurrentPrice(o, x) = o.price
             \/ /\ ~ (o.kind # "DutchAuction" \/ e = 0 \/ e <= s)
                /\ \/ x <= s /\ CurrentPrice(o, x) = o.startPrice
                   \/ s < x /\ x < e /\ CurrentPrice(o, x) = o.startPrice - Part(x)
  BY <1>2 DEF CurrentPrice
<1> HIDE DEF Part, f
<1>5. ASSUME NEW x \in Int
      PROVE  CurrentPrice(o, x) \in Int /\ CurrentPrice(o, x) <= o.price
  BY <1>1, <1>2, <1>4
<1>6. CurrentPrice(o, t) <= CurrentPrice(o, u)
  <2>1. CASE CurrentPrice(o, u) = o.price
    BY <1>5, <2>1
  <2>2. CASE /\ CurrentPrice(o, t) = o.startPrice
             /\ CurrentPrice(o, u) = o.startPrice - Part(u) /\ s < u /\ u < e
    BY <1>2, <2>2
  <2>3. CASE /\ CurrentPrice(o, t) = o.startPrice - Part(t) /\ s < t /\ t < e
             /\ CurrentPrice(o, u) = o.startPrice - Part(u) /\ s < u /\ u < e
    BY <1>2, <1>3, <2>3
  <2>4. CASE CurrentPrice(o, t) = o.startPrice /\ CurrentPrice(o, u) = o.startPrice
    BY <2>4
  <2>5. s \in Int /\ e \in Int
    OBVIOUS
  <2> HIDE DEF s, e
  <2> QED BY <1>4, <2>1, <2>2, <2>3, <2>4, <2>5
<1> QED BY <1>5, <1>6

(* An order whose stored price is its best never gets worse for the side,  *)
(* nor better than that price.                                             *)
Quoted(h) == [kind |-> Terms[h].kind, price |-> Terms[h].price,
              startPrice |-> Terms[h].startPrice, startTime |-> Terms[h].startTime,
              endTime |-> Order[h].endTime]

LEMMA QuoteImproves ==
    ASSUME NEW h \in Hash, NEW side, StoredIsBest(side, h),
           NEW t \in Nat, NEW u \in Nat, t <= u
    PROVE  /\ CurrentPrice(Quoted(h), t) \in Int /\ CurrentPrice(Quoted(h), u) \in Int
           /\ Terms[h].price \in Nat
           /\ ~ Better(side, CurrentPrice(Quoted(h), u), Terms[h].price)
           /\ ~ Better(side, CurrentPrice(Quoted(h), t), CurrentPrice(Quoted(h), u))
<1> DEFINE o == Quoted(h)
<1>1. Terms[h] \in TermsRecord /\ Order[h] \in OrderRecord
  BY ListingAssumption, OrderAssumption DEF ListingAssumption, OrderAssumption
<1>2. /\ o.price = Terms[h].price /\ o.price \in Nat /\ o.startPrice \in Nat
      /\ Int64(o.startTime) \in Int /\ Int64(o.endTime) \in Int
      /\ o.kind = Terms[h].kind /\ o.startPrice = Terms[h].startPrice
  BY <1>1, WrapAssumption, BoundsAssumption
     DEF TermsRecord, OrderRecord, Int64, WrapAssumption, BoundsAssumption, Quoted
<1> HIDE DEF o
<1>3. CASE Terms[h].kind = "DutchAuction" /\ side # "Buy"
  <2>1. o.price <= o.startPrice
    BY <1>2, <1>3 DEF StoredIsBest, Better
  <2>2. /\ CurrentPrice(o, t) \in Int /\ CurrentPrice(o, u) \in Int
        /\ o.price <= CurrentPrice(o, u) /\ CurrentPrice(o, u) <= CurrentPrice(o, t)
    BY <1>2, <2>1, AuctionFalls
  <2> QED BY <1>2, <1>3, <2>2 DEF o, Better
<1>4. CASE Terms[h].kind = "DutchAuction" /\ side = "Buy"
  <2>1. o.startPrice <= o.price
    BY <1>2, <1>4 DEF StoredIsBest, Better
  <2>2. /\ CurrentPrice(o, t) \in Int /\ CurrentPrice(o, u) \in Int
        /\ CurrentPrice(o, t) <= CurrentPrice(o, u) /\ CurrentPrice(o, u) <= o.price
    BY <1>2, <2>1, AuctionRises
  <2> QED BY <1>2, <1>4, <2>2 DEF o, Better
<1>5. CASE Terms[h].kind # "DutchAuction"
  <2>1. CurrentPrice(o, t) = o.price /\ CurrentPrice(o, u) = o.price
    BY <1>2, <1>5 DEF CurrentPrice
  <2> QED BY <1>2, <2>1 DEF o, Better
<1> QED BY <1>3, <1>4, <1>5

LEMMA PricedNow ==
    ASSUME BookTypeOK, NEW h \in Hash, NEW side, StoredIsBest(side, h)
    PROVE  /\ Priced(h) \in Int /\ Terms[h].price \in Nat
           /\ ~ Better(side, Priced(h), Terms[h].price)
<1>1. now \in Nat /\ now <= now
  BY BoundsAssumption DEF BookTypeOK, BoundsAssumption
<1>2. Priced(h) = CurrentPrice(Quoted(h), now)
  BY DEF Priced, Quoted
<1> QED BY <1>1, <1>2, QuoteImproves

LEMMA PricedImproves ==
    ASSUME BookTypeOK, NEW h \in Hash, NEW side, StoredIsBest(side, h),
           now' = now \/ now' = now + 1
    PROVE  /\ Priced(h) \in Int /\ Priced(h)' \in Int
           /\ ~ Better(side, Priced(h), Priced(h)')
<1>1. now \in Nat /\ now' \in Nat /\ now <= now'
  BY BoundsAssumption DEF BookTypeOK, BoundsAssumption
<1>2. Priced(h) = CurrentPrice(Quoted(h), now) /\ Priced(h)' = CurrentPrice(Quoted(h), now')
  BY DEF Priced, Quoted
<1> QED BY <1>1, <1>2, QuoteImproves

-----------------------------------------------------------------------------
(* GetBest between its statements and after: the stored price of no rival  *)
(* is better than the price found, or than that of the order returned.     *)
Unbeaten(side, G, p) == \A g \in G : ~ Better(side, Terms[g].price, p)

BestInv ==
    /\ reader.doing = "priced" =>
         /\ reader.rivals \subseteq Hash
         /\ Unbeaten(reader.side, reader.rivals, reader.price)
    /\ reader.doing = "told" =>
         /\ reader.order \subseteq Hash /\ reader.rivals \subseteq Hash
         /\ \A h \in reader.order :
              StoredIsBest(reader.side, h) =>
                Unbeaten(reader.side, reader.rivals, Priced(h))

(* Stored prices bound those of now.                                       *)
LEMMA BestInvMeans ==
    ASSUME BookTypeOK, BestInv
    PROVE  BestWasBest
<1> SUFFICES ASSUME reader.doing = "told", NEW h \in reader.order, NEW g \in reader.rivals,
                    StoredIsBest(reader.side, h), StoredIsBest(reader.side, g)
             PROVE  ~ Better(reader.side, Priced(g), Priced(h))
  BY DEF BestWasBest
<1>1. g \in Hash /\ h \in Hash /\ ~ Better(reader.side, Terms[g].price, Priced(h))
  BY DEF BestInv, Unbeaten
<1>2. /\ Priced(g) \in Int /\ Priced(h) \in Int /\ Terms[g].price \in Nat
      /\ ~ Better(reader.side, Priced(g), Terms[g].price)
  BY <1>1, PricedNow
<1> QED BY <1>1, <1>2 DEF Better

(* The price asked for is one that nobody's stored price beats.            *)
LEMMA BestPriceStep ==
    ASSUME NEW c \in Collection, NEW side \in {"Sell", "Buy"}, BestPrice(c, side)
    PROVE  BestInv'
<1>1. CASE Offers(c, side) = {}
  <2>1. reader' = [doing |-> "told", side |-> side, order |-> {}, rivals |-> {}]
    BY <1>1 DEF BestPrice, Top
  <2> QED BY <2>1 DEF BestInv
<1>2. CASE Offers(c, side) # {}
  <2>1. PICK h \in Top(side, Offers(c, side)) :
          reader' = [doing |-> "priced", side |-> side, collection |-> c,
                     price |-> Terms[h].price, rivals |-> Offers(c, side)]
    BY <1>2 DEF BestPrice
  <2>2. Offers(c, side) \subseteq Hash
    BY DEF Offers, Active
  <2>3. \A g \in Offers(c, side) : ~ Better(side, Terms[g].price, Terms[h].price)
    BY DEF Top
  <2>4. /\ reader'.doing = "priced" /\ reader'.side = side
        /\ reader'.price = Terms[h].price /\ reader'.rivals = Offers(c, side)
    BY <2>1
  <2> QED BY <2>2, <2>3, <2>4 DEF BestInv, Unbeaten
<1> QED BY <1>1, <1>2

(* The order returned has the price asked for, whatever its side.          *)
LEMMA BestFindStep ==
    ASSUME BestInv, BestFind
    PROVE  BestInv'
<1> DEFINE rows == {h \in Hash : Order[h].collection = reader.collection}
           good == {h \in Find(rows, "Active", 0, 0) : Priced(h) = reader.price}
           order == {h \in good : newer[h] \cap good = {}}
<1>1. /\ reader'.doing = "told" /\ reader'.side = reader.side /\ reader'.order = order
      /\ reader'.rivals = reader.rivals \cap Active
      /\ now' = now
  BY DEF BestFind, bookVars
<1>2. reader.rivals \subseteq Hash /\ Unbeaten(reader.side, reader.rivals, reader.price)
  BY DEF BestFind, BestInv
<1>3. ASSUME NEW h \in order
      PROVE  h \in Hash /\ Priced(h) = reader.price /\ Priced(h)' = Priced(h)
  BY <1>1 DEF Find, Match, Priced
<1> HIDE DEF order
<1> QED BY <1>1, <1>2, <1>3 DEF BestInv, Unbeaten

LEMMA BestStep ==
    ASSUME BookInv, BestInv, [ListingNext]_listingVars
    PROVE  BestInv'
<1> USE DEF BookInv
<1>1. ASSUME reader' = reader, now' = now \/ now' = now + 1
      PROVE  BestInv'
  <2>1. CASE reader.doing = "told"
    <3>1. ASSUME NEW h \in reader.order, StoredIsBest(reader.side, h),
                 NEW g \in reader.rivals
          PROVE  ~ Better(reader.side, Terms[g].price, Priced(h)')
      <4>1. h \in Hash /\ g \in Hash /\ ~ Better(reader.side, Terms[g].price, Priced(h))
        BY <2>1, <3>1 DEF BestInv, Unbeaten
      <4>2. /\ Priced(h) \in Int /\ Priced(h)' \in Int
            /\ ~ Better(reader.side, Priced(h), Priced(h)')
        BY <1>1, <3>1, <4>1, PricedImproves
      <4>3. Terms[g].price \in Nat
        BY <4>1, ListingAssumption DEF ListingAssumption, TermsRecord
      <4> QED BY <4>1, <4>2, <4>3 DEF Better
    <3> QED BY <1>1, <2>1, <3>1 DEF BestInv, Unbeaten, StoredIsBest
  <2>2. CASE reader.doing # "told"
    BY <1>1, <2>2 DEF BestInv, Unbeaten
  <2> QED BY <2>1, <2>2
<1>2. CASE UNCHANGED listingVars
  BY <1>1, <1>2 DEF listingVars, bookVars
<1>3. CASE UpdateRows \/ SweepRows \/ Pass
  BY <1>1, <1>3, WriterStep
<1>4. CASE \E h \in Hash : InsertRow(h)
  BY <1>1, <1>4 DEF InsertRow, Insert
<1>5. CASE (\E q \in Queries : Ask(q)) \/ Count \/ Turn
  <2>1. reader'.doing \in {"asking", "counted", "read"}
    BY <1>5 DEF Ask, Count, Turn
  <2> QED BY <2>1 DEF BestInv
<1>6. CASE \E c \in Collection, side \in {"Sell", "Buy"} : BestPrice(c, side)
  BY <1>6, BestPriceStep
<1>7. CASE BestFind
  BY <1>7, BestFindStep
<1> QED BY <1>2, <1>3, <1>4, <1>5, <1>6, <1>7 DEF ListingNext, Read

(* Of the orders whose stored price is the best they come to, none that    *)
(* was on offer all the time beats the order GetBest returns, then or      *)
(* later, whatever is inserted, filled, cancelled and swept between its    *)
(* two statements.                                                         *)
THEOREM BestIsUnbeaten == ListingSpec => []BestWasBest
<1>1. ListingInit => BookInit /\ BestInv
  BY DEF ListingInit, BestInv, Idle
<1>2. BookInv /\ BestInv /\ [ListingNext]_listingVars => BestInv'
  BY BestStep
<1>3. BookInv /\ BestInv => BestWasBest
  BY BestInvMeans DEF BookInv
<1> QED BY <1>1, <1>2, <1>3, ListingIsBook, BookInvHolds, PTL DEF ListingSpec

=============================================================================
