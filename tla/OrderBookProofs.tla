--------------------------- MODULE OrderBookProofs ---------------------------
(***************************************************************************)
(* What holds of the orders table for every set of orders and every order  *)
(* of statements.  The invariant is the type of the two columns together   *)
(* with the uniqueness of the live row of a slot; the rest follows from    *)
(* the guard every UPDATE carries.                                         *)
(***************************************************************************)
EXTENDS OrderBook, TLAPS

(* One UPDATE ... WHERE status = 0: it keeps the types, it touches active   *)
(* rows only, and it leaves every row active or as written.                *)
LEMMA SetWhereEffect ==
    ASSUME NEW W, NEW s \in Terminal, SetWhere(W, s), BookTypeOK
    PROVE  /\ BookTypeOK'
           /\ now' = now
           /\ \A h \in Hash : status'[h] =
                  IF h \in W /\ status[h] = "Active" THEN s ELSE status[h]
BY DEF SetWhere, BookTypeOK, Terminal, Status

(* The statements of BookNext are inserts, updates of active rows to a     *)
(* final status, or the passing of time.                                   *)
LEMMA Statements ==
    ASSUME BookNext
    PROVE  \/ \E h \in Hash : Insert(h)
           \/ \E W \in SUBSET Hash, s \in {"Filled", "Cancelled"} : SetWhere(W, s)
           \/ SetWhere(Overdue, "Expired")
           \/ Tick
<1> USE DEF BookNext
<1>1. CASE \E h \in Hash : Insert(h)
  BY <1>1
<1>2. CASE \E h \in Hash : Fill(h)
  <2>1. PICK h \in Hash : SetWhere({h}, "Filled")
    BY <1>2 DEF Fill
  <2>2. {h} \in SUBSET Hash
    OBVIOUS
  <2> QED BY <2>1, <2>2
<1>3. CASE \E m \in Maker, s \in Salt : CancelByMakerSalt(m, s)
  <2>1. PICK m \in Maker, s \in Salt :
            SetWhere({h \in Hash : MakerSalt(h) = <<m, s>>}, "Cancelled")
    BY <1>3 DEF CancelByMakerSalt
  <2>2. {h \in Hash : MakerSalt(h) = <<m, s>>} \in SUBSET Hash
    OBVIOUS
  <2> QED BY <2>1, <2>2
<1>4. CASE \E m \in Maker, c \in 0..MaxCounter : CancelByMakerCounter(m, c)
  <2>1. PICK m \in Maker, c \in 0..MaxCounter :
            SetWhere({h \in Hash : Order[h].maker = m /\ StoredCounter < c}, "Cancelled")
    BY <1>4 DEF CancelByMakerCounter
  <2>2. {h \in Hash : Order[h].maker = m /\ StoredCounter < c} \in SUBSET Hash
    OBVIOUS
  <2> QED BY <2>1, <2>2
<1>5. CASE \E c \in Collection : CancelByCollection(c)
  <2>1. PICK c \in Collection : SetWhere({h \in Hash : Order[h].collection = c}, "Cancelled")
    BY <1>5 DEF CancelByCollection
  <2>2. {h \in Hash : Order[h].collection = c} \in SUBSET Hash
    OBVIOUS
  <2> QED BY <2>1, <2>2
<1>6. CASE ExpireOrders
  BY <1>6 DEF ExpireOrders
<1>7. CASE Tick
  BY <1>7
<1> QED BY <1>1, <1>2, <1>3, <1>4, <1>5, <1>6, <1>7

-----------------------------------------------------------------------------
BookInv == BookTypeOK /\ OneActivePerSlot

(* An insert is refused by the partial index unless the slot is free.      *)
LEMMA InsertKeepsInv ==
    ASSUME NEW h \in Hash, Insert(h), BookInv
    PROVE  BookInv'
<1>1. BookTypeOK'
  BY DEF BookInv, BookTypeOK, Insert, Status, Terminal
<1>2. Active' = Active \cup {h}
  BY DEF BookInv, BookTypeOK, Insert, Active
<1>3. \A g \in Active : MakerSalt(g) # MakerSalt(h)
  BY DEF Insert, Insertable
<1>4. OneActivePerSlot'
  BY <1>2, <1>3 DEF BookInv, OneActivePerSlot, MakerSalt
<1> QED BY <1>1, <1>4 DEF BookInv

(* An UPDATE takes rows out of the live ones, and never puts one in.       *)
LEMMA UpdateKeepsInv ==
    ASSUME NEW W, NEW s \in Terminal, SetWhere(W, s), BookInv
    PROVE  BookInv' /\ Active' = Active \ W
<1>1. /\ BookTypeOK'
      /\ \A h \in Hash : status'[h] =
             IF h \in W /\ status[h] = "Active" THEN s ELSE status[h]
  BY SetWhereEffect DEF BookInv
<1>2. Active' = Active \ W
  BY <1>1 DEF Active, Terminal
<1>3. OneActivePerSlot'
  BY <1>2 DEF BookInv, OneActivePerSlot, MakerSalt
<1> QED BY <1>1, <1>2, <1>3 DEF BookInv

(* Every statement keeps the types and the uniqueness of live slots.       *)
LEMMA BookInvInductive ==
    ASSUME BookInv, [BookNext]_bookVars
    PROVE  BookInv'
<1>1. CASE UNCHANGED bookVars
  BY <1>1 DEF bookVars, BookInv, BookTypeOK, OneActivePerSlot, Active, MakerSalt
<1>2. CASE \E h \in Hash : Insert(h)
  BY <1>2, InsertKeepsInv
<1>3. CASE \E W \in SUBSET Hash, s \in {"Filled", "Cancelled"} : SetWhere(W, s)
  BY <1>3, UpdateKeepsInv DEF Terminal
<1>4. CASE SetWhere(Overdue, "Expired")
  BY <1>4, UpdateKeepsInv DEF Terminal
<1>5. CASE Tick
  BY <1>5, BoundsAssumption
     DEF Tick, BookInv, BookTypeOK, OneActivePerSlot, Active, MakerSalt
<1> QED BY <1>1, <1>2, <1>3, <1>4, <1>5, Statements

(* The invariant of the table, for every order of statements.              *)
LEMMA BookInvHolds == BookSpec => []BookInv
<1>1. BookInit => BookInv
  BY BoundsAssumption
     DEF BookInit, BookInv, BookTypeOK, OneActivePerSlot, Active, Status, Terminal
<1> QED BY <1>1, BookInvInductive, PTL DEF BookSpec

(* The table's columns keep their types. *)
THEOREM BookTypeCorrect == BookSpec => []BookTypeOK
BY BookInvHolds, PTL DEF BookInv

(* A maker's salt is never live in two rows: the partial unique index, which *)
(* Insert meets, is not undone by any other statement.                      *)
THEOREM SlotIsUnique == BookSpec => []OneActivePerSlot
BY BookInvHolds, PTL DEF BookInv

-----------------------------------------------------------------------------
(* No statement changes a row that is filled, cancelled or expired.        *)
LEMMA StepKeepsTerminal ==
    ASSUME BookInv, [BookNext]_bookVars, NEW h \in Hash, status[h] \in Terminal
    PROVE  status'[h] = status[h]
<1> USE DEF Terminal
<1>1. CASE UNCHANGED bookVars
  BY <1>1 DEF bookVars
<1>2. CASE \E g \in Hash : Insert(g)
  <2>1. PICK g \in Hash : Insert(g)
    BY <1>2
  <2>2. status[g] = "None"
    BY <2>1 DEF Insert, Insertable
  <2> QED BY <2>1, <2>2 DEF Insert, BookInv, BookTypeOK
<1>3. CASE \E W \in SUBSET Hash, s \in {"Filled", "Cancelled"} : SetWhere(W, s)
  BY <1>3 DEF SetWhere
<1>4. CASE SetWhere(Overdue, "Expired")
  BY <1>4 DEF SetWhere
<1>5. CASE Tick
  BY <1>5 DEF Tick
<1> QED BY <1>1, <1>2, <1>3, <1>4, <1>5, Statements

(* Filled, Cancelled and Expired are final, whichever statement comes next. *)
THEOREM TerminalStatusIsFinal == BookSpec => TerminalIsFinal
<1>1. BookInv /\ [BookNext]_bookVars
        => [\A h \in Hash : status[h] \in Terminal => status'[h] = status[h]]_bookVars
  BY StepKeepsTerminal
<1> QED BY <1>1, BookInvHolds, PTL DEF BookSpec, TerminalIsFinal

-----------------------------------------------------------------------------
(* The refinement of OrderSlots. *)

AllSlots == Maker \X Salt
Live == [s \in AllSlots |-> {h \in Active : MakerSalt(h) = s}]
Closed == {h \in Hash : status[h] \in Terminal}

(* The slot of an order is a pair of a maker and a salt.                   *)
LEMMA SlotType == ASSUME NEW h \in Hash PROVE MakerSalt(h) \in AllSlots
BY OrderAssumption DEF MakerSalt, AllSlots, OrderRecord

(* An insert opens its slot in the abstract specification.                 *)
LEMMA InsertOpens ==
    ASSUME BookInv, NEW h \in Hash, Insert(h)
    PROVE  Slots!Open(h)
<1>1. /\ status[h] = "None"
      /\ \A g \in Active : MakerSalt(g) # MakerSalt(h)
      /\ status' = [status EXCEPT ![h] = "Active"]
  BY DEF Insert, Insertable
<1>2. Active' = Active \cup {h}
  BY <1>1 DEF BookInv, BookTypeOK, Active
<1>3. Closed' = Closed
  BY <1>1 DEF BookInv, BookTypeOK, Closed, Terminal
<1>4. h \notin Closed
  BY <1>1 DEF Closed, Terminal
<1>5. Live[MakerSalt(h)] = {}
  BY <1>1, SlotType DEF Live
<1>6. Live' = [Live EXCEPT ![MakerSalt(h)] = {h}]
  <2>1. \A s \in AllSlots : {g \in Active' : MakerSalt(g) = s} =
            IF s = MakerSalt(h) THEN {h} ELSE {g \in Active : MakerSalt(g) = s}
    BY <1>1, <1>2 DEF MakerSalt
  <2>2. Live' = [s \in AllSlots |-> {g \in Active' : MakerSalt(g) = s}]
    BY DEF Live, MakerSalt, AllSlots
  <2> QED BY <2>1, <2>2, SlotType DEF Live
<1> QED
  BY <1>3, <1>4, <1>5, <1>6 DEF Slots!Open, Live, Closed, AllSlots

(* An UPDATE closes the slots of the rows it changes, or changes none.     *)
LEMMA UpdateCloses ==
    ASSUME BookInv, NEW W, NEW s \in Terminal, SetWhere(W, s)
    PROVE  \/ UNCHANGED <<Live, Closed>>
           \/ \E S \in SUBSET AllSlots : Slots!Close(S)
<1> DEFINE Hit == Active \cap W
           S == {t \in AllSlots : \E h \in Hit : MakerSalt(h) = t}
<1>1. Active' = Active \ W
  BY UpdateKeepsInv
<1>2. Closed' = Closed \cup Hit
  BY SetWhereEffect DEF BookInv, Closed, Active, Terminal
<1>3. Live' = [t \in AllSlots |-> {h \in Active \ W : MakerSalt(h) = t}]
  BY <1>1 DEF Live, MakerSalt, AllSlots
<1>4. CASE Hit = {}
  <2>1. Active \ W = Active
    BY <1>4
  <2> QED BY <1>2, <1>3, <1>4, <2>1 DEF Live
<1>5. CASE Hit # {}
  <2>1. S # {}
    BY <1>5, SlotType DEF Active
  <2>2. \A t \in S : Live[t] # {}
    BY DEF Live
  <2>3. \A t \in S, h \in Active : MakerSalt(h) = t => h \in W
    BY DEF BookInv, OneActivePerSlot
  <2>4. Live' = [t \in AllSlots |-> IF t \in S THEN {} ELSE Live[t]]
    <3>1. \A t \in AllSlots : {h \in Active \ W : MakerSalt(h) = t} =
              IF t \in S THEN {} ELSE Live[t]
      BY <2>3 DEF Live
    <3> QED BY <1>3, <3>1
  <2>5. Hit = UNION {Live[t] : t \in S}
    <3>1. \A h \in Hit : MakerSalt(h) \in S /\ h \in Live[MakerSalt(h)]
      BY SlotType DEF Live, Active
    <3>2. \A t \in S : Live[t] \subseteq Hit
      BY <2>3 DEF Live
    <3> QED BY <3>1, <3>2
  <2>6. S \in SUBSET AllSlots
    OBVIOUS
  <2> HIDE DEF S
  <2> QED BY <1>2, <2>1, <2>2, <2>4, <2>5, <2>6 DEF Slots!Close, Live, Closed, AllSlots
<1> QED BY <1>4, <1>5

(* Every statement is a step of the abstract slots or a stutter.           *)
LEMMA StepRefines ==
    ASSUME BookInv, [BookNext]_bookVars
    PROVE  [Slots!Next]_<<Live, Closed>>
<1>1. CASE UNCHANGED bookVars
  BY <1>1 DEF bookVars, Live, Closed, Active, MakerSalt, AllSlots
<1>2. CASE \E h \in Hash : Insert(h)
  BY <1>2, InsertOpens DEF Slots!Next
<1>3. CASE \E W \in SUBSET Hash, s \in {"Filled", "Cancelled"} : SetWhere(W, s)
  BY <1>3, UpdateCloses DEF Slots!Next, Terminal, AllSlots
<1>4. CASE SetWhere(Overdue, "Expired")
  BY <1>4, UpdateCloses DEF Slots!Next, Terminal, AllSlots
<1>5. CASE Tick
  BY <1>5 DEF Tick, Live, Closed, Active, MakerSalt, AllSlots
<1> QED BY <1>1, <1>2, <1>3, <1>4, <1>5, Statements

(* The orders table implements OrderSlots: a slot is taken only when free,  *)
(* an order takes it once, and every UPDATE vacates whole slots.            *)
THEOREM BookImplementsSlots == BookSpec => ImplementsSlots
<1>1. BookInit => Slots!Init
  BY DEF BookInit, Slots!Init, Active, Terminal
<1>2. BookInv /\ [BookNext]_bookVars => [Slots!Next]_(Slots!slotVars)
  BY StepRefines DEF Slots!slotVars, Live, Closed, AllSlots
<1> QED BY <1>1, <1>2, BookInvHolds, PTL DEF BookSpec, ImplementsSlots, Slots!Spec
=============================================================================
